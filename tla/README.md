# Verification of Excel to Skill

Excel to Skill turns a workbook into a directory package an auditor's assistant
can read, prepares audit bundles from it with a language model, answers
questions over those bundles, and applies edits an auditor has approved to a
live workbook through an Office add-in. This directory is the formal model of
the parts of it that can go wrong between two steps: TLA+ modules translated
from the source, TLC configurations that check them on small instances, and
theorems that TLAPS checks for every value of the constants.

Paths are relative to the repository; `audit/` is `src/excel_to_skill/audit/`
and `executor/` is `office-addin/src/executor/`.

## 1. The system

| Component | Source | State it keeps | Operations |
|---|---|---|---|
| Approved-edit repository | `audit/workbook_edit_sqlite.py` | SQLite tables: commands, workflows, active workbooks, fences, snapshot heads | claim, publish, abort a command; claim an execution; claim, release and publish a snapshot |
| Approved-edit service | `audit/workbook_edit_service.py`, `workbook_edit.py` | none of its own between requests; session registry in memory | propose, preview, approve, reject, claim, start, abort, verify, publish |
| Snapshot publication, asset store | `audit/workbook_snapshot_publication.py` | content-addressed files | reacquire, validate, store, read back |
| Edit host sessions | `audit/workbook_edit_host.py` | sessions with an expiry and a binding | issue, resolve, authorise, revoke |
| Processing jobs | `audit/processing.py`, `processing_sqlite.py` | job rows with a fenced lease, published bundle rows, a staging directory and a lock file per job | start, select scope, heartbeat, checkpoint, fail, publish |
| Prepared bundle store | `audit/processing_store.py` | immutable bundle directories | publish, resolve |
| Workbook assets | `audit/workbook_asset_service.py`, `workbook_asset_sqlite.py` | upload commands with a fenced lease, workbooks, snapshots, heads | upload, read |
| Turn service | `audit/service.py` | receipts per idempotency key, thread bindings, in-process locks | submit and get a turn |
| Conversation graph | `audit/conversation.py`, `conversation_store.py` | checkpoints of a thread, content-addressed artifacts | decide, call a tool or a child agent, finalise, commit |
| Preparation, aggregation, review | `audit/prepare.py`, `scope.py`, `aggregate.py`, `review.py` | artifacts in a package and their commit markers | prepare, aggregate, review |
| Converter and package cache | `cli.py`, `cache.py` | packages, an index, lock files | convert, probe, lock |
| Office executor | `executor/*.ts` | one execution in the add-in | claim, re-read, start, write, verify, save, publish |
| Web adapters | `audit/*web.py` | thread pools behind semaphores | one request each |
| Sequential code | `extractor.py`, `verify.py`, `audit/extract.py`, `validate.py`, `consume.py`, renderers, model clients | none that survives a call | |

How they meet. A workbook is uploaded (assets), processed into a prepared
bundle (processing runs the converter, the preparation and the aggregation in a
staging directory, then the bundle store), discussed (turn service,
conversation graph) and edited (edit service, which the add-in calls; the
published snapshot goes to the asset store). They meet at durable stores: every
SQLite operation is one `BEGIN IMMEDIATE` transaction, files are replaced by
rename with a marker last, and `cache.package_lock` or a job's lock file keeps
two writers of one directory apart.

Hard behaviour, and what correctness means there:

* *Edit service.* A command is five to eight separate transactions and registry
  reads. Between them other commands run, leases lapse, the workbook is saved,
  the worker dies. Required: every command takes effect at most once and
  atomically; one approval executes once; a live workbook has one holder, which
  keeps it while its write is unverified, failed, of unknown outcome or
  unpublished; published snapshots form a chain of stored assets; a dead worker
  blocks nobody for ever.
* *Processing.* A runner has a lease it renews in the background, a file lock,
  and preparation threads that outlive a lost lease. Required: a fenced-off
  runner changes neither the job nor a staging directory somebody else owns; a
  selection is bound once; a bundle row exists exactly for a published job and
  its files are in the store; a job whose runner died ends.
* *Assets, turns.* Claims with a fence, claims without a lease; idempotency
  against crashes.
* *Packages.* Marker-last publication, replacement by rename, capture without a
  lock and comparison under it. Required: no reader sees a mixture of two
  generations as current.
* *Add-in.* Responses are lost, coauthors write. Required: no write without a
  confirmed start, no second write, a report that agrees with what was written.

`PROJECT.json` lists each hazard at its line with the properties about it.

## 2. The project

| Part | Repository or state | Steps | Promise and properties | Instances | Runs |
|---|---|---|---|---|---|
| Edit service | `EditRepository` | `EditService` | `ApprovedEdit`, `EditProperties`, `EditProofs` | `MCEdit` | `EditOne`, `EditTwo`, `EditLive` |
| Processing | `ProcessingRepository` | `ProcessingService` | `JobPromise`, `ProcessingProperties`, `ProcessingProofs` | `MCProcessing` | `ProcSafe`, `ProcLive` |
| Add-in | `ApprovedEdit` | `OfficeExecutor` | `OfficeProperties`, `AddinProofs` | `MCAddin` | `Addin` |
| Host sessions | `ApprovedEdit` | `EditHost` | `EditHostProperties`, `HostedAddin`, `AddinProofs` | `MCAddin` | `Addin` |
| Uploads | `WorkbookAsset` | the same | `WorkbookAssetProperties`, `AssetProofs` | `MCAsset` | `Asset` |
| Executor gate | `ExecutorGate` | the same | in it, and `AssetProofs` | `MCAsset` | `Asset` |
| Converted packages | `PackageStore` | the same | `PackageProperties`, `PackageProofs` | `MCPackage` | `Packages` |
| Audit bundles | `AuditBundles` | the same | `AuditBundleProperties`, `AuditBundleProofs` | `MCAuditBundles` | `Bundles` |
| Aggregation | `AuditBundles` | `AuditAggregate` | `AuditAggregateProperties`, `AuditBundleProofs` | `MCAuditAggregate` | `Aggregates` |
| Turn service | `TurnService` | the same | `TurnProperties`, `TurnProofs` | `MCTurn` | `Turn` |
| Audit agent | `AgentTurn` | `AgentLoop` | in `AgentLoop`, `ConversationProofs` | `MCConversation` | `Conversation` |
| Conversation | `ConversationTurn` | `ConversationGraph` | `ConversationProperties`, `ConversationProofs` | `MCConversation` | `Conversation` |

What composes what. `EditService` extends its repository and is shown to
implement `ApprovedEdit`; `OfficeExecutor` and `EditHost` stand in front of
`ApprovedEdit`, so what they are checked against is what the service was shown
to keep, and not a second model of it. `AuditAggregate` extends `AuditBundles`:
the writers of the sheets run beside the aggregation. `ConversationGraph`
extends `ConversationTurn`, which extends the agent's `AgentTurn`.

**Cases.** A run often asks its question of several small instances: a race
needs two clients and no faults, a recovery one client and a death, and an
instance with both at once is too large and shows no more. An MC module then
has a variable `case`, chosen in the initial state and never changed, and takes
the next-state relation of a named `INSTANCE` of the same module, whose bounds
are those of the case (`Lease == INSTANCE EditService WITH MaxClock <- 3, ...`).
A bound therefore holds in its case only. The two components of `MCAddin`, of
`MCAsset` and of `MCConversation` share a run in the same way: while a behaviour
is in a case of one, the variables of the other stand still.

**What TLC alone checks.** Every safety property of the edit service,
processing, the add-in, the host sessions, uploads, the gate, turns, packages,
bundles and the aggregation is also a theorem, and so are those of the
conversation and of the agent's answers, except two that speak of a fold over
observations (section 8). Left to TLC are these two and liveness. No module that
a proof module reaches declares a RECURSIVE operator.

## 3. The edit service

| Module | Models |
|---|---|
| `EditRepository` | `workbook_edit_sqlite.py`: the five tables; a guard and an effect per `BEGIN IMMEDIATE` transaction |
| `EditService` | `workbook_edit_service.py`: workers executing commands step by step, session registry, saved workbook, asset store, clock |
| `ApprovedEdit` | what the service promises: every command one atomic step |
| `EditProperties` | the properties and the refinement mapping |
| `MCEdit` | instances, seeded initial states |
| `EditProofs` | the inductive invariant and its consequences; then a stronger one, the other safety properties, the refinement |

**State.** `commands`, `workflows`, `active`, `fences`, `heads` are the five
tables. Workflow and execution ids are digests of the key of the command that
creates them (`_derived_id`), so the key stands for them. An edit document keeps
the fields a transition reads; proposals, previews, manifests and witnesses are
their outcome (which comparison held). Challenge and fence are secrets of one
claim receipt, so a request that names the execution names them too. `worker[p]`
is a request thread: where it is, its claim token, the copy of the document it
loaded, the expiry it computed from its own reading of the clock. `registry`,
`saved` and `assets` are what is outside the database.

**Actions.** `Begin` is `_begin`; then, as the code does them, `Load` (`_stored`),
`Bind`/`Resolve` (the registry reads), `CheckHead`, `Validate` (checks on the
copy, and the clock as read there), again `Resolve` and `CheckHead`, and one of
`Publish`, `Claim`, or the publication chain `TakePublicationClaim`, `Acquire`,
`Store`, `PublishHead`. `ReleaseClaim` and `Abort` are the except clauses, whose
own failure is swallowed. `Fault` is any storage or provider error in between,
`Crash` the death of a worker. `Register`, `Unregister`, `Save`, `Tick` are the
environment. Between any two steps the other workers and the environment run.

**Runs.**

| Run | Case, from | Asks |
|---|---|---|
| `EditOne` | negotiate: the empty database | does the service implement `ApprovedEdit` (`NegotiationKeepsPromise`), with keys reused for other commands, faults, sessions moving |
| | execute: one approved edit | does exactly the workflow with unsettled writes hold the workbook (`HolderIsExact`); does a started write end only as verified, wrong or unknown, and does nothing lead out of wrong and unknown, nor free their workbook (`QuarantineHolds`); is every step one of the promise |
| | lease: one approved edit, lapsing leases | is a copy with the current version current (`CurrentVersionIsCurrentCopy`); how late can a validated command commit (`LateByLessThanTheClaim`); is every step one of the promise |
| `EditTwo` | contend: two approved edits of one workbook | does the head stay under a holder (`HeldOnItsBase`); does one approval execute once (`ApprovalSpentOnce`); is every step one of the promise (`PromiseSteps`) |
| | chain: a verified edit, a second one following | do publications form a chain of stored assets (`PublishedChain`); do fences name one execution (`FenceNamesOneExecution`) |
| | slow: one approved edit, two claims of it, command claims that lapse under slow workers | the same of an approval whose claim is taken over while its first worker still runs |
| `EditLive` | due: a verified edit | is the pending claim of a dead worker taken over (`OrphansAreTakenOver`); is a due snapshot published (`DueSnapshotIsPublished`) |

`LateByLessThanTheClaim` is worth a remark: the validation reads the clock
before the transaction that commits, and the transaction checks only the
command claim. An approval may therefore be used after its expiry, but by less
than the life of a command claim. The run and the mutant show that it is the
claim lease, and nothing else, that bounds this.

**Seeded initial states.** The command sequences that lead to an approval, or to
a verified write, are explored in the cases negotiate and execute. The longer
cases start from the database those sequences leave: `SeededInit` is what
propose, preview and approve write, `VerifiedInit` adds claim, start and a good
report, with their completed command rows, the holder's row and its fence.

**Bounds.** Two workers and one live workbook: every hazard of this component
is a race of two commands for a row. Six tokens: `Begin` draws a token that
nothing refers to, two workers, two command rows and a publication claim refer
to at most five, and a run whose tokens ran out would stop short of the
requests it lists. `MaxClock` is 1 where no lease matters, and 2 or 3 with
lifetimes of 1 where one does: before, at and after an expiry. In `EditTwo` an
approval lives for 2, so that it outlives the command claims of the case slow: a
worker that has validated its copy finds its key taken over and the approval
spent. `MaxRev` lets the
workbook be saved once or twice after the base revision, so a successor exists,
and in the case chain a successor of it. `MaxOrphans` is one dead worker's claim;
claims are lost only while the clock can still reach their expiry, so that the
end of the clock is not mistaken for a claim that is never released. Workers
are symmetric in the safety runs, never in the liveness runs.

**Fairness.** `Tick` and a worker's own steps are weakly fair: time passes and a
request thread runs. `Begin` is strongly fair per request, for clients repeat a
command until they have its receipt; that is what the idempotency key is for.
`OutagesEnd` says that from some time on the environment no
longer makes a healthy worker unwind; without it storage could fail for ever
and no snapshot would be published.

**Proved** (`EditProofs`, for any sets of keys, workbooks, sessions, workers and
requests, any lifetimes and any clock bound): `Spec => []Inv` with
`Inv == TypeOK /\ Documents /\ Rows /\ Workers`, and from it `TypeCorrect`,
`ExactHolder` (`HolderIsExact`) and `SwapIsSafe` (`CurrentVersionIsCurrentCopy`).

The argument. `HolderIsExact` alone is not inductive: a worker that passed
validation commits later. What saves it is that the commit compares the version,
so what the worker validated on its copy is true of the row it replaces.
`Workers` says what each worker has established about its copy at the point it
has reached, that the copy's version is not ahead of the row's, and that equal
versions mean equal documents. `Documents` says which fields a state implies
(an approved document has no execution, a claimed one has an execution id and a
fence), `Rows` that active rows and holding workflows correspond.

Its second part proves the rest of the safety properties from a stronger
invariant, `Safe`, with nothing but the same assumptions:

| Theorem | Property |
|---|---|
| `HeldBase` | `HeldOnItsBase` |
| `OneExecution` | `ApprovalSpentOnce` |
| `OneFence` | `FenceNamesOneExecution` |
| `Chain` | `PublishedChain` |
| `Quarantine` | `QuarantineHolds` |
| `Timeliness` | `LateByLessThanTheClaim` |
| `Refinement` | `KeepsPromise`: the service implements `ApprovedEdit` |

`Safe` adds to `Inv` what the rows of the tables keep between them: the key of a
claim that has become an execution holds the receipt of that workflow and of no
other (`SpentKeys`); fences are handed out in order (`Fences`); the head of a
held workbook is its base, or none yet, and a published revision is one above its base and never above the head
(`Heads`). These move in a transaction whose worker looked at them, and at the
clock, in earlier ones, so `Safe` also says what each worker has established
and can still rely on at the point it has reached: its copy of the document, the
saved revision it acquired, the head it compared, and the clock at which it
validated (`Careful`). Most steps are *quiet*, that is, change no table that
these speak of; the others write one document under one pending key, and each is
a lemma. The refinement has the same two kinds of step: a transaction that
completes a command is one step of `ApprovedEdit`, the one with its arguments,
and every other step maps to a stutter. Runs check the refinement by case
(`NegotiationKeepsPromise`, `PromiseSteps`); the theorem is about the whole
specification from the empty database.

## 4. Processing

| Module | Models |
|---|---|
| `ProcessingRepository` | `processing_sqlite.py`: job rows with a fenced lease, bundle rows; one action per transaction |
| `ProcessingService` | `processing.py`, `processing_store.py`: calls, lease keepers, lock files, staging, preparation threads, bundle store |
| `JobPromise` | what the service promises: a job is planned once, bound once, ends once |
| `ProcessingProperties` | the properties and the refinement mapping |
| `MCProcessing` | instances, the state planning leaves |
| `ProcessingProofs` | the inductive invariant and its consequences; then a stronger one, the published bundle, failures, the refinement |

**State.** `jobs` is a row of `processing_jobs` with the command that started it:
status, workbook, the bound key and selection, progress, lease. A claim draws a
token and takes the next fence in one transaction, so the fence stands for both.
An expiry is only compared with the current time, so the row keeps the time
`left`. `bundles` are the `published_bundles` rows. `runner[p]` is one call of
`start` or `select_scope`: where it is, its claim, what its `_LeaseKeeper`
remembers and has latched, and the scopes of its thread pool (queued, running,
ready, done). `lock`, `staging` and `store` are the lock file, the staging
directory of a job and the packages in the bundle store.

**Actions.** `Start` and `SelectScope` are the claims; then `EnterLease`,
`AcquireLock`, and either `Materialize`, `MarkPlanning`, `Convert`,
`MarkPlanning`, `PlanScopes`, `FinalizePlan`, or `ExistingPackage`,
`MarkPreparing`, the pool (`PrepareBegin`, `PrepareEnd`, `PrepareFails` of a
thread, `Collect`, `CollectFailure`, `Drain` of the call), `SkipAggregation` or
`MarkAggregating` and `Aggregate`, `VerifyPackage`, `CopyPackage`,
`StorePackage`, `FinalizeBundle`. Every checkpoint may find its lease lost or
the storage down (`KeeperFails`); the exception leaves the pool (waiting for
threads that run), the lock, the keeper, and `FailQuietly` tries to record it.
`Heartbeat` and `HeartbeatFails` run beside the call, `LockFails` is a lock file
that cannot be opened, `Crash` ends the call with its threads and its lock, `Tick` lets leases lapse.

A heartbeat renews under the status and progress the keeper remembers, as the
code does; whether that can overwrite what somebody else has written is
`RowIsKeepers`. Converter, preparer and aggregator are steps that succeed or
fail, with what they leave in the staging directory. A heartbeat that outlives the bounded join of
`__exit__` is left out: it can only renew, once more, a lease its call still
holds.

**Runs.**

| Run | Case, from | Asks |
|---|---|---|
| `ProcSafe` | plan: the empty table | does the service implement `JobPromise` (`ServiceKeepsPromise`), with a key reused for another workbook or selection, takeovers, outages and crashes; is a lapsed lease only ever taken over (`LapsedOnlyTakenOver`) |
| | exec: a planned job | has the staging directory one user (`StagingExclusive`); has a row one writer (`RowIsKeepers`); can an owner that gives up record its failure (`FailureFits`); is a published bundle whole and stored (`PublishedIsWhole`); is every step one of the promise |
| `ProcLive` | end: the empty table | do planning and execution of one sheet end (`JobsEnd`) |
| | retry: a planned job | does an execution over two sheets end (`JobsEnd`) |

**Initial states.** `PlannedInit` is the state `FinalizePlan` leaves when the
call has returned: the job awaits a selection, the source and the package are in
staging. The case plan passes through it.

**Bounds.** One job, two calls, two sheets, a pool of two threads: a takeover
needs two calls, and the pool two scopes for one to be ready while one runs.
Jobs share nothing but the store, to which packages are only added.
`LeaseTtl` is 2 in `ProcSafe`, so that a lease can be renewed half way, and 1
elsewhere. `MaxTakeovers` bounds how often the lease of a job is lost: time
stops short of a lapse, and an owner does not die, when no takeover is left. So
every lease that lapses in the model can be taken over, and with two takeovers
the second owner can lose the lease to the first caller's retry. For liveness
the bound is an assumption: a job whose owners die for ever does not end.

**Fairness.** `Tick` is weakly fair. A call and its heartbeat are weakly fair:
they run until they return or die, and conversion, preparation and aggregation
are taken to end, by result or exception: that a model client
answers at all is an assumption, the code sets it no deadline here. Nothing makes an outage happen. The
claims are strongly fair per command: a client without an answer repeats it,
which the keys make safe. The runs do not check for deadlock: when the jobs have
ended and the leases are gone nothing is left to do.

**Proved** (`ProcessingProofs`, for any sets of jobs, calls, finite sets of
sheets, any commands, lease duration and pool size): `Spec => []Inv` with
`Inv == TypeOK /\ Shapes /\ Pools /\ Locks /\ Rows /\ Claims /\ RowIsKeepers`, and
from it `TypeCorrect`, `ExclusiveStaging` (`StagingExclusive`), `OwnersRow`
(`RowIsKeepers`) and `LapsedTakeover` (`LapsedOnlyTakenOver`).

The argument. Every claim takes a fence above all earlier ones (`Claims`: a
fence belongs to one call and is not newer than the row's), so a write that
passes `_require_lease` comes from the last claimant, and the row says what the
last claimant's keeper wrote. That much says nothing about the staging
directory, because threads outlive leases. There the lock file decides:
`Locks` says a call past the lock holds it, and `Pools` that threads run only
while their call is in the pool or waits for it to drain, hence under the lock.
`Pools` needs that a scope is in one place of the pool at a time, or a call
could see all scopes done while a thread still runs. `Shapes` and `Rows` carry
the facts about records these need.

Its second part goes on from there with
`Sound == Inv /\ Stages /\ Works /\ Bindings /\ PublishedIsWhole`, and proves
`FailureRecorded` (`FailureFits`), `PublishedWhole` (`PublishedIsWhole`) and
`JobRefinement` (`KeepsPromise`: the service implements `JobPromise`).
`PublishedIsWhole` needs the whole history of an execution, not its last step:
`Works` says, for every point a call can have reached, which of the selected
scopes are prepared in the staging directory, whether they are aggregated, and
what the copy holds. It is kept because prepared scopes stay prepared, and
because the holder of the lock alone touches the directory. `Stages` ties the
stage a call would report to the status its keeper writes, which is what lets an
owner that gives up record the failure. The refinement rests on one lemma,
`Transactions`: a step changes at most one job, by one of six transactions
(kept, submitted, planned, bound, published, given up), and each of these is a
step of the promise or a stutter.

## 5. The add-in and the host sessions

| Module | Models |
|---|---|
| `OfficeExecutor` | `executor/*.ts`: the actions of a task pane, the network, the live workbook, coauthors |
| `EditHost` | `workbook_edit_host.py` and the authorisation of `workbook_edit_web.py` |
| `OfficeProperties`, `EditHostProperties` | the properties |
| `HostedAddin` | both side by side, and `SessionsAreGoodFor` |
| `AddinProofs` | the inductive invariants of both and their consequences |
| `MCAddin` | the five cases of the run `Addin` |

**The add-in.** `pane[p]` is the user action a pane carries out: the chain
`Claim`, `ReadBefore`, `StartConfirmed`, `ReadAgain`, `ApplyChanges`,
`ReadAfter`, `Verify`, and for a required snapshot `Save`, `PublicationAnswered`
and `Lookup`, with the branches of the code for every refusal. The service is
`ApprovedEdit`, of which section 3 shows that the code implements it, plus any
refusal the code could give at that moment (`Refusals`). A call is copied to
`wire` with every attempt and served at any later time, or never: so responses
and calls are lost, late, repeated and out of order. `cells` and `saved` are the
live workbook and its saved revisions, which coauthors change and save
(`Coauthor`); `Close` is a pane that is closed, or its crash. What a cell holds is the approved
base, another value, or an edit. A change that falls between the second reading
and the write is overwritten: Office has no compare-and-set, the code says so,
and the properties are about what is reported of it.

`EditIsCarriedOut` asks, in three cases: no write without a start the service
has recorded for the holder of that workbook (`WritesUnderItsStart`); an edit
called unapplied has not touched the workbook, and none is written twice; one
called verified was written; a failure shown as ordinary leaves no started
execution behind; what a pane shows as done is done; the published head holds
the edit. Cases: the same edit executed from two panes with two attempts per
call and no coauthor (again), two edits of one workbook, no snapshot due, with one
attempt and one change by a coauthor (rivals), one edit with one attempt, from one
pane at a time, among two changes by coauthors (coauthors). Two user actions in
each: the second meets what the first left. The panes are symmetric.

*Proved* (`AddinProofs`, for any panes, edits and workbooks, any number of user
actions, attempts and changes, with and without snapshots): `AddinInvariance`, that
`Inv` is inductive, and from it `CarriedOut`, which is `EditIsCarriedOut`. A user
action has a number that its keys carry, and one pane at most works on it
(`Alone`); `owner` gives each action its edit, chosen anew when an action starts.
The proof rests on what cannot come late:

* `ReceiptOK`: what a key was answered stays true of its edit, so a copy served
  again only repeats it: one that was aborted or reported has no later start.
* `CallOK`: what a copy on the wire may say. A report "applied" exists only where
  the cells were written, a publication only for a verified edit.
* `WorkOK`: a pane that reads or is about to write has sent no report and knows of
  no write (`Unsent`, `written = 0`), so no write is a second one. It writes after
  the receipt of its own start, which rules out an abort (`ReceiptOK`), and with
  no report made the edit is still "apply_started" and holds its workbook.
* `FailureOK`: an ordinary failure leaves a claim that was given back or that no
  call still under way can start.
* `EditOK`: a started edit is written at most once, and a published one is the
  revision that was saved after the write, which no coauthor changes.

`Inv` was checked by TLC in the three cases before it was proved. The proof uses of
the service only what `ApprovedEdit` promises, which `EditService` is proved to
keep (section 3).

**Host sessions.** A session of the add-in pins the binding of an edit to an
open workbook. `Record`, `Current`, `Workflow`, `CompareBindings`, `Stored` and
`Published` are the reads a request makes one after another while `Register`
moves the registry, publications move the head and `Tick` and `Revoke` end
sessions. `AuthorityIsTrue`: no request is admitted that arrived after its
session ended; one that saw no move from its arrival on, and is not a write report
(section 10, item 8), is admitted only under the binding of its edit, or because
its publication is committed; and a publication whose answer was lost is answered although the binding has moved.
`FallbackOnlyReplays`: admitted that way, nothing changes. `SessionsAreGoodFor`
is all of it, over a sequence of all requests of one edit (moves) and over two
requests about a started edit whose session ends (ends). One principal; a session
id that was never issued and an edit that was never proposed are left out;
publication is enabled; a stored read is answered with whatever is stored.

*Bounds.* Two moves of the registry, so that a request can see one before and one
after a read; two workers in "ends", one request at a time in "moves", where the
question is what one request reads; a session that lives for one tick. In "ends"
the workbook is at most closed, once: there the question is what a late request
still meets.

*Proved* (the last part of `AddinProofs`, for any requests, workers, sessions,
workbooks and lifetimes, and any edits of which the service keeps its promise):
`SessionsHold`, which is `SessionsAreGoodFor`. A request reads the record, the
registry, the edit and the head one after another, so its invariant says what of
each reading lasts. A session that is dead stays dead, and one being issued is in
nobody's hands (`ThroughOK`, `IssuesApart`), so who passed the record came while
it was alive. A reading of the registry holds until a move is counted (`ReadOK`). A
publication stays and stays that of its execution (`Grown`, `EditOK`), so who is
admitted for it can only be answered, and who comes after it is refused only for
another execution (`AskedOK`).

## 6. Uploads and the executor gate

| Module | Models |
|---|---|
| `WorkbookAsset` | `workbook_asset_service.py`, `workbook_asset_sqlite.py`, the file protocol of `workbook_snapshot_publication.py` |
| `ExecutorGate` | how `web.py`, `processing_web.py`, `workbook_edit_web.py`, `workbook_asset_web.py` run blocking calls |
| `WorkbookAssetProperties` | the properties of uploads; those of the gate stand in its module |
| `AssetProofs` | the inductive invariants of both and their consequences |
| `MCAsset` | the three cases of the run `Asset` |

**Uploads.** A request writes the bytes into a temporary file (`Put`), links it
under its digest (`Link`), syncs the directory, reads back, reads the clock,
claims the key (`Claim`), publishes workbook, snapshot and head in one
transaction (`Publish`), or aborts. `Die` ends a request anywhere;
`PowerFails` ends all of them and takes away what was not synced;
`PublishFails` is an error before or after the commit. `StoredIsStored`: what a
client was told is stored is one receipt for all who ask under its key, one row
of the catalog, and bytes that survive. `LeaseIsRespected`: a running lease is
ended by its holder only. `ClaimsEnd`: a claim whose holder died does not block
its key.

*Bounds.* One key, because a race about an object is one of requests with the
same bytes, whatever their keys; two requests; contents that are a workbook and
one that is not. A lease of two ticks, `MaxWait` 1: the claim reads its clock
before it waits for the database, up to 30 s of a lease of 300 s. Two fences
after the first; a token also stands for the `created_at` of a row, which the
code draws beside it. The cases are faults and deaths (failing) and a loss of
power (power). *Fairness.* A request runs; time passes, and a client asks again:
both strongly fair, for neither is possible at every moment (a tick waits for a
claim that would be too late). `ClaimsEnd` counts a claim that reached the last
fence as ended: beyond it the model has none to give.

**The gate.** A thread pool behind a semaphore of twice its threads. A request
resolves its principal in the pool, reads its body on the event loop and runs
its operation in the pool; an upload passes a second semaphore with a time limit
on its body. Clients go away while they wait, are queued or run, and the
lifespan closes. `SlotsAreAccounted`: every permit is free, handed to a waiter,
held by one unfinished call or on its way back, and none lies idle while
somebody waits. Three requests (two of them uploads), one thread, hence two permits and a
request that must wait. `asyncio.Semaphore` and the pool are external, modelled
as CPython implements them: a cancelled call stays in the work queue. While the lifespan closes the
loop is blocked. In `web.py` the body is read before the principal; the order of
the two legs makes no difference to the permits. Only safety is checked here.

**Proved, uploads** (`AssetProofs`, for any requests, keys and contents, any
lease, wait and number of fences, deaths, outages): `Spec => []Inv` with
`Inv == Types /\ Rows /\ Calls /\ Secured /\ Kept /\ Answered /\ Shown`, and from
it `Stored` (`StoredIsStored`) and `LeaseRespected` (`LeaseIsRespected`). A call
past the sync of its directory has its object on disk for good (`Secured`), so
whatever a completed command names survives a loss of power (`Kept`); a completed
command never changes and the catalog is exactly the completed commands (`Shown`),
so the answer to a repetition is the first answer (`Answered`). Tokens are
finitely many but always more than the rows and calls that refer to one, which a
counting lemma shows.

**Proved, the gate** (the second part of `AssetProofs`, for any finite set of requests, any
number of threads and upload slots): `Slots` (`SlotsAreAccounted`). The invariant
looks at a semaphore through two things: who is present at it, waiting or handed
a permit, and how many permits it has, free or handed over. Each operation of
the semaphore changes either by at most one. The present are exactly the
requests that stand before that gate, and no request submits a call twice, so
the unfinished calls and the releases on their way make up the rest of the
capacity.

## 7. Packages, bundles and aggregation

| Module | Models |
|---|---|
| `PackageStore` | convert, annotate and review of `cli.py`, `annotator.py`, `review.py`, with `cache.py` |
| `AuditBundles` | `audit/prepare.py`, `scope.py`, `audit/review.py`, the reader of `audit/consume.py` |
| `AuditAggregate` | `audit/aggregate.py` beside the writers of the sheets |
| `...Properties` | the properties |
| `MCPackage`, `MCAuditBundles`, `MCAuditAggregate` | the instances |
| `PackageProofs` | the inductive invariant of the packages and its consequences |
| `AuditBundleProofs` | the inductive invariants of the bundles and of the aggregation and their consequences |

**Packages.** `folder[c]` is the package named by the digest of content `c`,
`index` its entry, `lock` the lock outside the package. An interpretation is in
three files and mirrored in the index, written one after the other, and each
such write is a step (`WriteSemantics`, `WriteMeta`, `MirrorAnnotation`;
`WriteVerdict`, `SyncMeta`, `SyncIndex`, `RegenerateSkill`; `Remove`, `Rename`,
`Record`). The source is saved again at any moment while a conversion probes,
extracts and compares its digest. After a death a folder may be half removed
(`whole` is false): what reads it next may go on or miss a file
(`MissesFile`, `Inherit`), but no review approves it. Cases of `Packages`: such a source (change), two
processes with all commands (review), a newer converter after deaths (crash).
`PackageIsTrue`: a package holds what its name says; what is approved has its
evidence in this very package; and, in behaviours without a death, the cache
answers what was asked for, only a complete annotation is approved, and the index
agrees with the files wherever no command is at work. With deaths these last
three are false, see section 10. `MadeIsVerified`: what convert puts in place
passes verification. A content never recurs while a conversion runs; a file is
written as a whole or not at all; damage to the index is not modelled.

*Proved* (`PackageProofs`, for any processes, contents, versions, options and
models, any number of commands, saves of the source and deaths):
`PackagesAreTrue` (`PackageIsTrue`) and `PackagesAreVerified` (`MadeIsVerified`).
A command past the lock of its package holds that lock and no other
(`LocksAreHeld`), so only the holder changes a package or its entry, and what it
read of them stays true until it writes. `OpOK` says, for each point of a
command, what its holder knows: the content it extracted, the package it staged,
whether the annotation it inherits fits. Deaths break the agreement of the three
files with the index, so that part of the invariant (`SetOK`) is conditional on
`crashes = 0`; it names, for each point, which of the mirrored fields the holder
has yet to write. `FolderOK`, which a death does not break, is enough for what an
approval rests on.

**Bundles.** A scope (the workbook or a sheet) has facts, context, brief and a
commit marker; a document is modelled as what it was made from, which is what
its digest and key stand for. `prepare` decides under the lock what it reuses
(`ReuseFacts`, `ReuseContext`, `ReuseBrief`), makes the rest in one step, and replaces the files
one by one, the marker last; an error puts them back (`Restore`), a death does
not; the index is mirrored after. `Probe` reads the stored retriever without the
lock, tries offline and connects if it must. Readers take no lock and read the
marker and then each file. `BundlesAreTrue`: a reader is only given what was
committed as it is; what prepare answers is what the models and the retriever
asked for make, of the package as it now is; an approved brief has its approved
facts; the index vouches for no recipe that did not make a document; and without
deaths every scope is whole when the lock is free. Cases: readers and writers
with a conversion and a death (read), a failing replacement (fail), two models
and retrievers (reuse, where one process at a time works on the workbook).
Forced prepares are left to the last two cases, rejecting reviews to the last. A
preparation of several scopes is a command per scope. Facts a reviewer rejected
are reused by a later preparation, as the code intends; a sheet left half
replaced makes verification fail until it is prepared again.

*Proved* (`AuditBundleProofs`, for any sheets, processes, models and retrievers,
and any number of commands, faults, deaths and conversions): `BundlesTrue`
(`BundlesAreTrue`). The invariant has four ideas. Only the holder of the lock
changes files, index and package, so what it found or made under the lock holds
until it lets go (`Commands`). A row of the index is true of the documents it
names, whatever is on disk (`RowOK`): what is reused because the index vouches
for it was made as the command asks, even after deaths that left other files, or
the row of an older package. A marker names a bundle that was committed, wherever
it is, in the package, in a writer's snapshot or with a reader (`Vouched`): files
that fit their marker are therefore a committed bundle, although they were read one
by one without the lock. And without deaths a scope is whole or somebody is at
work on it (`Tidy`). A review passes the recipe of the facts on only if the old
index row names the old facts with the recipe of the present conversion; the proof needs
that condition to show that the new row is true of the reviewed facts.

**Aggregation.** A worker captures the sheets without the lock, calls its model,
compares under the lock and writes brief and commit; or loads a pair and
compares. A sheet's snapshot is read in one step, because the code compares the
digests before and after. `AggregatesAreTrue`: published and answered aggregates are about the
sheets of that very step, `all` leaves no committed sheet out, nothing rejected
or unready is in one, and a failed publication leaves the old pair. Cases: two
sheets that change while the model is called (publish), make and load (load),
three publications with a failure and a death (undo). The case load also converts
the workbook again between the two.

*Proved* (the last part of `AuditBundleProofs`, for any workers beside any
processes): `AggregatesTrue` (`AggregatesAreTrue`). `AggregateInv` is the
invariant of the bundles and, for each worker, what its capture is worth
(`CaptureOK`). The markers of a capture are those of ready scopes that no
reviewer rejected, and those of a capture from the present conversion are what a
loader accepts. One from an earlier conversion is refused by the comparison under
the lock, because the identity of a conversion never returns. Aggregators and the writers of the sheets
take the same lock, so the invariant of the bundles has to hold while a lock
owner is none of its processes: it says who holds the lock of its own commands
only (`Locking`), and `Holders` says it of the workers. Without deaths the brief
and the commit of a selection are a pair unless a worker is between the two
(`Pairs`), which is what a failed publication restores.

## 8. Turns, the agent and the conversation

| Module | Models |
|---|---|
| `TurnService` | `audit/service.py`: claims, the in-process lock, bindings, runner, receipts |
| `AgentTurn`, `AgentLoop` | `audit/agent.py` |
| `ConversationTurn`, `ConversationGraph` | `audit/conversation.py` and what it asks of planning, research and inspection |
| `TurnProperties`, `ConversationProperties` | the properties |
| `MCTurn`, `MCConversation` | the instances |
| `TurnProofs` | the inductive invariant of the turn service and its consequences |
| `ConversationProofs` | the inductive invariants of the conversation and of the agent and their consequences |

**Turns.** `RepeatsAreSafe`: under a key the runner is called at most once over
repetitions, faults and the death of the process, the receipt fits its command,
and a key stays pending only for a reason. `LockHolds`: one turn at a time per
thread, with the reference counts of the table exact. `CallsReturn`: nobody
waits for ever. Cases: two workers and two keys with faults (repeat), three
calls on one thread (lock). There is one serving process, as
`InMemoryTurnLock` requires, and the host's repository keeps the `Protocol` of
the module durably. Fairness: a call in progress goes on.

*Proved* (`TurnProofs`, for any sets of workers, keys, threads, bundles and
commands, any number of calls, deaths and faults): `Spec => []Inv` with
`Inv == Types /\ Calls /\ Tokens /\ Owning /\ Started /\ Bound /\ Holding /\
LockTableExact /\ Receipts /\ PendingIsExplained`, and from it `TypeCorrect`,
`RepeatsSafe` (`RepeatsAreSafe`) and `LockWorks` (`LockHolds`). Each call has a
token of its own, so a pending claim has at most one owner, and only the owner
moves the count of its runner; a thread keeps its first binding. The table of
locks counts, for each thread, the calls that refer to its lock object. That
makes the objects in use no more than the calls, so a fresh one exists whenever
one is needed, and makes the last one out the one that removes the entry; who is
in a turn holds that very object, hence two turns of a thread never overlap.

**The agent.** What the model answers is any decision in `Decisions`, also one
that names unseen records or breaks the protocol. `AgentAnswersHold`: an answer
rests on records shown in this run, its evidence was read from the bundle it
names although the package is prepared again meanwhile, nothing is opened
unseen, the state is what a replay of its observations gives, and the last model call is
never spent on a tool. A bundle's identity never recurs.

*Proved* (the last part of `ConversationProofs`, for any records, queries and
links, any model answers and any number of calls): `AgentAnswers`, every conjunct
of `AgentAnswersHold` but `WitnessAgrees`. The citable records are among those
its observations showed, and each opened record was shown by an observation
before it (`AgentStateOK`); what a judged answer selects is citable (`AgentSees`);
the evidence of an answer was read under the identity it names and checked again
after (`AgentReads`). `WitnessAgrees` compares the state with a fold over all
observations: that each step extends the fold is an induction over the sequence,
and so stays with TLC.

**The conversation.** `run[i]` is the process of a turn, `thread` what is
checkpointed after each node, with the history. Runs wait for the lock of the
thread, bind it, decide, call tools and supplements (research, planning,
inspection, whose children spend the same model calls), finalise, and commit
under the package lock; they crash between any two nodes, and the package is
prepared again. `HistoryIsTrue`: a turn that was returned is in the history
once, one that failed is not. `TurnsAreGrounded`: an answer selects only what
its own turn has seen and made. `WrittenUnderItsBundle`: a record is written
only while the package is the bundle of its answer and of the thread.
`EveryTurnGoesThrough`: a call is left to answer, and no node refuses what an
earlier node of the turn accepted, with two exceptions that the formulas name,
because the code does refuse there (section 10, items 1 and 2): the replay after
an inspection whose range was respelled (`Respelled`), and the commit of a plan
in a turn that follows an earlier one (`PlansOnAFocus`). `SupplementsHaveTheirBasis`: a plan rests on what was
seen before it, a raw read on a ledger inspection.

*Bounds.* Eight cases of one run. Three runs of one call (crowd), two that search
and open with the focus of the first (ground), two with research and no other
tool (refs), two with plans (follow); one run with every supplement (supplement), with searches, research
and planning but no other tool (plan), with inspections of two sheets (inspect),
and the agent (agent). Every case checks `EveryTurnGoesThrough` under its own
limits; ranges are spelled both ways in supplement and inspect. Two to five model calls, two or three inspections, one
research and one plan; the code has more of each, and the next one meets the same
guard. Histories of two turns and a focus of one turn and one record, so that both
are cut. The final check of the evidence is one step here; `AgentLoop` has its
steps. The contents of an inspection are left out.

*Proved* (`ConversationProofs`, for any package, runs on a thread, records,
supplements and limits, and any crashes): `Spec => []Inv` with
`Inv == Types /\ Locks /\ Histories /\ RunsHold`, and from it

| Theorem | Property |
|---|---|
| `HistoryTold` | `HistoryIsTrue` |
| `Grounded` | `TurnsAreGrounded` |
| `BasisHeld` | `SupplementsHaveTheirBasis` |
| `WrittenUnderBundle` | `WrittenUnderItsBundle` |
| `FinalCall` | `FinalCallReserved`, the part of `EveryTurnGoesThrough` about the calls that are left |

The run that holds the lock of the thread is the only one between its bind and
its end (`Locks`), so the channels of the last checkpoint are its own, although
each of its steps reads them back from there (`RunOK`): they are bound to its
bundle, their supplements are its own, and while a tool or a child is at work a
call is left after it. `TurnStateOK` is what every such state keeps whatever is
appended to it: citable records were shown, a plan has its basis among the
observations before it, a raw inspection has its ledger. A run enters the history
in one step, from "written", and a run of the history is past that point
(`Histories`), which makes it enter once. `TurnsAreGrounded` needs that a
committed answer was judged against the very observations that are committed with
it, over all nodes and crashes in between. The other part of
`EveryTurnGoesThrough`, that the replay of a commit accepts what the nodes made,
is a fold again and is left to TLC.

## 9. Assumptions, and what is not covered

* SQLite transactions are atomic and durable; a rename within a directory is
  atomic; the kernel drops a dead process's file locks. Random tokens do not
  repeat.
* Constants: lifetimes are positive, `None` is no other value, sheets are
  finitely many, requests are well formed. The modules state these as `ASSUME`
  (or as an operator the MC module asserts), and TLC evaluates them in the runs.
  The proofs rest on these alone. Beside bounds that are numbers they say that
  `None` is no key, record, snapshot, document, marker or recipe
  (`NoneAssumption`, `SnapshotAssumption`), no process, interpretation or
  package (`PackageAssumption`), no run (`ConversationAssumption`), no worker of
  the aggregation (`AggregateAssumption`), no stage, state, call, answer or
  receipt of the add-in (`NothingAssumption`) and no host session
  (`DoorAssumption`); that there is a workbook, a session and an edit
  (`OfficeAssumption`); that the briefing, the hits and the links of a package
  are records of it (`AgentAssumption`); and that the workers of the turn
  service, the uploads and their keys, the requests at a gate and the sheets of
  a workbook are finitely many (`TurnAssumption`, `AssetAssumption`,
  `GateAssumption`, `ProcessingAssumption`), as those of a running system are.
* The bounds on the clock, revisions, orphans, takeovers, faults and deaths are
  guards of the modules; the proofs hold for every value of them.
* Liveness is checked for the edit service (`EditLive`), processing
  (`ProcLive`), uploads (`ClaimsEnd`) and turns (`CallsReturn`). For the other
  parts only safety is.
* Proved for all values of the constants: the safety properties of the edit
  service and of processing with both refinements, of the add-in and its host
  sessions, uploads, the gate, turns, packages, bundles, the aggregation, the conversation and the agent
  (sections 3 to 8), but for what the next point names.
* Model-checked only: liveness under fairness, which is outside what TLAPS
  proves; `WitnessAgrees` of the agent and `ReplayAgrees` and
  `CommitAcceptsTheAnswer` of the conversation, which compare a state with a fold
  over its observations and need an induction over them.
* Only checked without deaths: the three conjuncts of `PackageIsTrue` under
  `crashes = 0`, `WholeWhenFree` and `PairWhenFree`. Of a bundle and of a pair the
  code promises no more: a death between two files is found by the marker, which
  the other conjuncts cover. Of a package it does say more, and does not keep it
  after a death (section 10, items 3 to 5).
* Neither demanded nor forbidden: the admission of a write report under a moved
  binding, and the two refusals of a turn named in section 8. There the code and
  what is written about it disagree (section 10, items 1, 2 and 8), and
  `AuthorityIsCurrent`, `ReplayAgrees` and `CommitAcceptsTheAnswer` name the
  exception.

Not modelled: `aggregate_agent.py`, and the aggregate variant of the
conversation, which share the graph and the protocol of what is modelled; the
MCP retriever, whose other side is remote; deterministic extraction, validation,
rendering and search, which keep no state between calls; model clients, whose
answers are arbitrary; the preview and the approval in the task pane; header,
body and response validation of the adapters; the temporary directories and the
read-back of `processing_store.py`; the file protocol of
`conversation_store.py`, whose objects are content-addressed and written once,
like the assets. `PROJECT.json` gives the reason for each component.

Each property has a mutant in `PROJECT.json`: a definition named `Fault...`, a
plausible bug in the definition that follows it, under which the run must find
the property violated.

## 10. Where the code and its documentation disagree

The properties above are those the code keeps. Modelling it showed places where
it does not do what a document or a comment says; each can be seen with the
modules as they are, by checking the formula given in the instance given.

1. *A spelled range ends its turn.* The replay compares the cleaned input of an
   inspection (upper case, a range of one cell as that cell) with the request as
   the model wrote it (`audit/conversation.py:826`). A range such as `a1:b2`,
   which `schemas/audit_agent_turn.schema.json:140` admits, is inspected and then
   refused by the replay. `ReplayAgrees` without its condition `~Respelled(...)`
   fails in the case inspect of `Conversation`.
2. *Plans of a follow-up turn are refused.* The commit replays a turn on a single
   workbook with no expected focus (`audit/conversation.py:3143`) although the
   turn was given the focus of earlier ones, and the replay refuses an observed
   focus it does not expect. `README.md:343` of the repository admits any plan on
   what the current turn has observed. `CommitAcceptsTheAnswer` without its
   condition `~PlansOnAFocus` fails in the case follow.
3. *A stale cache hit.* The index is recorded after the new folder is in place
   (`cli.py:258`); a death in between leaves the entry of the old options, and a
   later conversion with these is answered with the new package. `cache.py:246`
   says that the recorded options prevent a stale hit. `HitMatchesRequest`
   without its condition `crashes = 0`.
4. *Half a package as a hit.* The old folder is removed file by file before the
   rename (`cli.py:250`); a death in between leaves a part of it that the next
   conversion may answer. `cli.py:249` calls the replacement atomic.
   `\A p \in Process : op[p].pc = "hit" => folder[op[p].pkg].whole`, one death.
5. *A partial annotation is approved.* It overwrites `semantics.json` before the
   completion key is cleared (`annotator.py:492`, 499); after a death in between
   `review approve` accepts it. `review.py:59`: only a complete annotation may be
   approved. `OnlyCompleteApproved` without `crashes = 0`.
6. *An annotated package that does not verify.* `annotate --force` after an
   approval leaves the `SKILL.md` of the approved annotation; `annotator.py:406`
   says that what annotate makes always passes verify. No death is needed:
   `\A c \in Content : lock[c] = None /\ folder[c] # None => Verifies(folder[c])`.
7. *A backlog of cancelled calls.* A cancelled call returns its slot but stays
   in the work queue until a thread takes it, so clients that go away behind busy
   threads leave more calls than there are slots; `audit/web.py:342` says the
   slots prevent that. `Cardinality(Running) = Threads => Len(queue) <= Capacity`
   with one thread and five requests.
8. *A report refused by the adapter.* `verify_execution` of the edit adapter
   authorises by the live binding (`audit/workbook_edit_web.py:954`), so a report
   of a write is refused when the workbook was registered anew or closed while its
   cells were written; `audit/workbook_edit_service.py:1647` says that registry
   churn must not prevent it. In the case ends: no `verify_execution` about a
   started execution has `code = "binding"`. `AuthorityIsCurrent` takes no side.

## 11. Running

    tlc -workers 2 -config EditOne.cfg MCEdit
    tlc -workers 2 -config ProcSafe.cfg MCProcessing
    tlc -workers 2 -config Packages.cfg MCPackage
    tlapm EditProofs.tla
    tlapm ProcessingProofs.tla
    tlapm AddinProofs.tla
    tlapm AssetProofs.tla
    tlapm PackageProofs.tla
    tlapm AuditBundleProofs.tla
    tlapm TurnProofs.tla
    tlapm ConversationProofs.tla

A run takes one to three minutes with two workers, the proofs a few minutes each from
nothing. The largest runs have two to three million distinct states.
