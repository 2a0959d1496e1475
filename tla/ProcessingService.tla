-------------------------- MODULE ProcessingService --------------------------
(***************************************************************************)
(* The processing service (audit/processing.py) over its repository, the   *)
(* staging directory of each job and the prepared bundle store             *)
(* (audit/processing_store.py).                                            *)
(*                                                                         *)
(* A runner is one start or select_scope call of a service process.  It    *)
(* claims the lease of its job, enters a _LeaseKeeper, takes the lock file *)
(* of the job, works in the staging directory and ends the job.  Its       *)
(* heartbeat thread and its preparation threads run beside it.             *)
(***************************************************************************)
EXTENDS ProcessingRepository

CONSTANTS
  Runner,
  MaxPrepareWorkers,  \* max_prepare_workers
  StartCommand,       \* the start commands clients send
  ScopeCommand        \* the selections they send

ASSUME RunnerAssumption ==
  /\ MaxPrepareWorkers \in Nat \ {0}
  /\ None \notin Runner
  /\ StartCommand \subseteq [job : Job, workbook : Workbook]
  /\ ScopeCommand \subseteq [job : Job, key : ExecutionKey, selection : Selection]

VARIABLES
  runner,    \* [Runner -> the call it executes]
  lock,      \* [Job -> the runner that holds the lock file of the job]
  staging,   \* [Job -> the staging directory of the job]
  store      \* the packages in the bundle store

vars == <<rows, runner, lock, staging, store>>

\* fail is the _fail_quietly call after both context managers have exited.
ProgramCounter ==
  {"idle", "enter", "lock",
   "materialize", "mark_source", "convert", "mark_package", "plan", "publish_plan",
   "existing", "mark_preparing", "prepare", "drain", "gate", "aggregate",
   "verify", "copy", "store", "publish_bundle", "unlock", "fail"}

\* job, key, selection: the command.  fence: the claim.  stage: stage_state.
\* status, progress, latch: of the _LeaseKeeper.  The scopes of the thread
\* pool are queued, running, ready (a finished future) or done; broken says
\* that a future holds an exception.  copy is what the store has copied.
RunnerState ==
  [pc : ProgramCounter, job : Job \cup {None},
   selection : Selection \cup {None}, fence : Nat,
   stage : {"planning", "preparing", "aggregating", "publishing"},
   status : Status, progress : Progress,
   latch : {"ok", "lost", "unavailable", "finalized"},
   queued : SUBSET (Sheet \cup {Whole}), running : SUBSET (Sheet \cup {Whole}),
   ready : SUBSET (Sheet \cup {Whole}), done : SUBSET (Sheet \cup {Whole}),
   broken : BOOLEAN, copy : Snapshot \cup {None}]

Idle == [pc |-> "idle", job |-> None, selection |-> None, fence |-> 0,
         stage |-> "planning", status |-> "planning", progress |-> NoProgress,
         latch |-> "ok", queued |-> {}, running |-> {}, ready |-> {}, done |-> {},
         broken |-> FALSE, copy |-> None]

\* prepared: scopes whose artifacts are committed.  aggregate: the sheets the
\* last aggregate covers.
Staging == [source : BOOLEAN, package : BOOLEAN,
            prepared : SUBSET (Sheet \cup {Whole}), aggregate : SUBSET Sheet]

EmptyStaging ==
  [source |-> FALSE, package |-> FALSE, prepared |-> {}, aggregate |-> {}]

TypeOK ==
  /\ RepositoryTypeOK
  /\ runner \in [Runner -> RunnerState]
  /\ lock \in [Job -> Runner \cup {None}]
  /\ staging \in [Job -> Staging]
  /\ store \subseteq Snapshot

Init ==
  /\ RepositoryInit
  /\ runner = [p \in Runner |-> Idle]
  /\ lock = [j \in Job |-> None]
  /\ staging = [j \in Job |-> EmptyStaging]
  /\ store = {}

-----------------------------------------------------------------------------

Goto(p, pc) == runner' = [runner EXCEPT ![p].pc = pc]

\* Where an exception takes a runner: out of the thread pool, which cancels
\* what is queued, then out of the lock, then to _fail_quietly.
AfterError(p) ==
  CASE runner[p].pc = "prepare"          -> "drain"
    [] runner[p].pc \in {"enter", "lock"} -> "fail"
    [] OTHER                              -> "unlock"

Raise(p, latch) ==
  runner' = [runner EXCEPT ![p].pc = AfterError(p), ![p].queued = {},
                           ![p].latch = latch]

\* _LeaseKeeper.checkpoint: write through and remember, or latch the failure.
\* A conflict is an outage to the keeper.
KeeperFails(p) ==
  LET r == runner[p] IN
  /\ \/ r.latch # "ok" /\ Raise(p, r.latch)
     \/ r.latch = "ok" /\ ~ HoldsLease(r.job, r.fence) /\ Raise(p, "lost")
     \/ r.latch = "ok" /\ Raise(p, "unavailable")
  /\ UNCHANGED rows

\* next is the runner that continues.
KeeperCheckpoint(p, status, progress, next) ==
  /\ runner[p].latch = "ok"
  /\ Checkpoint(runner[p].job, runner[p].fence, status, progress)
  /\ runner' = [runner EXCEPT ![p] =
       [next EXCEPT !.status = status, !.progress = progress]]

\* The keeper after a terminal transition: no heartbeat, no checkpoint.
Finalized(p) ==
  runner' = [runner EXCEPT ![p].pc = "unlock", ![p].latch = "finalized"]

-----------------------------------------------------------------------------
(* Claims.  A command whose claim is not granted returns and changes        *)
(* nothing.  The get_job before claim_execution reads a plan that no later  *)
(* step changes.                                                            *)

Claimed(p, j, sel) ==
  runner' = [runner EXCEPT ![p] =
    [Idle EXCEPT !.pc = "enter", !.job = j, !.selection = sel,
       !.fence = jobs'[j].fence, !.status = jobs'[j].status,
       !.progress = jobs'[j].progress, !.stage = jobs'[j].status]]

Start(p, c) ==
  /\ runner[p].pc = "idle"
  /\ ClaimPlanning(c.job, c.workbook)
  /\ Claimed(p, c.job, None)
  /\ UNCHANGED <<lock, staging, store>>

SelectScope(p, c) ==
  /\ runner[p].pc = "idle"
  /\ ClaimExecution(c.job, c.key, c.selection)
  /\ Claimed(p, c.job, c.selection)
  /\ UNCHANGED <<lock, staging, store>>

-----------------------------------------------------------------------------
(* The lease and the lock file.                                             *)

\* _LeaseKeeper.__enter__
EnterLease(p) ==
  LET r == runner[p] IN
  /\ r.pc = "enter"
  /\ \/ KeeperCheckpoint(p, r.status, r.progress, [r EXCEPT !.pc = "lock"])
     \/ KeeperFails(p)
  /\ UNCHANGED <<lock, staging, store>>

\* _heartbeat, until the keeper exits.
Heartbeat(p) ==
  LET r == runner[p] IN
  /\ r.pc \notin {"idle", "enter", "fail"}
  /\ r.latch = "ok"
  /\ \/ KeeperCheckpoint(p, r.status, r.progress, r)
     \/ /\ ~ HoldsLease(r.job, r.fence)
        /\ runner' = [runner EXCEPT ![p].latch = "lost"]
        /\ UNCHANGED rows
  /\ UNCHANGED <<lock, staging, store>>

\* The heartbeat meets an outage.
HeartbeatFails(p) ==
  /\ runner[p].pc \notin {"idle", "enter", "fail"}
  /\ runner[p].latch = "ok"
  /\ runner' = [runner EXCEPT ![p].latch = "unavailable"]
  /\ UNCHANGED <<rows, lock, staging, store>>

LockFree(j) == lock[j] = None

AcquireLock(p) ==
  LET r == runner[p] IN
  /\ r.pc = "lock"
  /\ r.latch = "ok"
  /\ LockFree(r.job)
  /\ lock' = [lock EXCEPT ![r.job] = p]
  /\ Goto(p, IF r.status = "planning" THEN "materialize" ELSE "existing")
  /\ UNCHANGED <<rows, staging, store>>

\* ensure_owned while waiting for the lock
GiveUpLock(p) ==
  /\ runner[p].pc = "lock"
  /\ runner[p].latch # "ok"
  /\ Goto(p, "fail")
  /\ UNCHANGED <<rows, lock, staging, store>>

\* The lock file cannot be opened or locked.
LockFails(p) ==
  /\ runner[p].pc = "lock"
  /\ Raise(p, runner[p].latch)
  /\ UNCHANGED <<rows, lock, staging, store>>

\* The lock is released before the keeper exits.
Unlock(p) ==
  LET r == runner[p] IN
  /\ r.pc = "unlock"
  /\ lock' = [lock EXCEPT ![r.job] = None]
  /\ runner' = [runner EXCEPT ![p] =
       IF r.latch = "finalized" THEN Idle ELSE [r EXCEPT !.pc = "fail"]]
  /\ UNCHANGED <<rows, staging, store>>

\* _fail_quietly: an outage or a refusal is swallowed.
FailQuietly(p) ==
  LET r == runner[p] IN
  /\ r.pc = "fail"
  /\ \/ Fail(r.job, r.fence, r.stage)
     \/ /\ ~ CanFail(r.job, r.fence, r.stage) \/ Spare(r.job)
        /\ UNCHANGED rows
  /\ runner' = [runner EXCEPT ![p] = Idle]
  /\ UNCHANGED <<lock, staging, store>>

\* Any exception of the work itself.
WorkFails(p) ==
  /\ runner[p].pc \in {"enter", "materialize", "convert", "plan", "existing",
                       "aggregate", "verify", "copy", "store"}
  /\ Raise(p, runner[p].latch)
  /\ UNCHANGED <<rows, lock, staging, store>>

-----------------------------------------------------------------------------
(* _run_planning                                                            *)

Materialize(p) ==
  /\ runner[p].pc = "materialize"
  /\ staging' = [staging EXCEPT ![runner[p].job].source = TRUE]
  /\ Goto(p, "mark_source")
  /\ UNCHANGED <<rows, lock, store>>

Convert(p) ==
  /\ runner[p].pc = "convert"
  /\ staging' = [staging EXCEPT ![runner[p].job].package = TRUE]
  /\ Goto(p, "mark_package")
  /\ UNCHANGED <<rows, lock, store>>

\* The checkpoints after the source is written and after the conversion.
MarkPlanning(p) ==
  LET r == runner[p] IN
  /\ r.pc \in {"mark_source", "mark_package"}
  /\ \/ KeeperCheckpoint(p, "planning", NoProgress,
          [r EXCEPT !.pc = IF @ = "mark_source" THEN "convert" ELSE "plan"])
     \/ KeeperFails(p)
  /\ UNCHANGED <<lock, staging, store>>

\* _verify_complete and the scope planner
PlanScopes(p) ==
  /\ runner[p].pc = "plan"
  /\ Goto(p, "publish_plan")
  /\ UNCHANGED <<rows, lock, staging, store>>

FinalizePlan(p) ==
  LET r == runner[p] IN
  /\ r.pc = "publish_plan"
  /\ \/ r.latch = "ok" /\ PublishPlan(r.job, r.fence) /\ Finalized(p)
     \/ KeeperFails(p)
  /\ UNCHANGED <<lock, staging, store>>

-----------------------------------------------------------------------------
(* _run_execution                                                           *)

ScopesOf(p) == Scopes(runner[p].selection)

\* _existing_package, and what an aggregating job has already committed.
ExistingPackage(p) ==
  LET r == runner[p]
      s == staging[r.job]
  IN
  /\ r.pc = "existing"
  /\ s.source /\ s.package
  /\ \/ /\ r.stage = "preparing"
        /\ Goto(p, "mark_preparing")
     \/ /\ r.stage = "aggregating"
        /\ Cardinality(ScopesOf(p)) > 1
        /\ ScopesOf(p) \subseteq s.prepared
        /\ runner' = [runner EXCEPT ![p].done = ScopesOf(p), ![p].pc = "gate"]
  /\ UNCHANGED <<rows, lock, staging, store>>

MarkPreparing(p) ==
  LET r == runner[p] IN
  /\ r.pc = "mark_preparing"
  /\ \/ KeeperCheckpoint(p, "preparing", ProgressOf(r.selection, {}),
        [r EXCEPT !.pc = "prepare", !.queued = ScopesOf(p)])
     \/ KeeperFails(p)
  /\ UNCHANGED <<lock, staging, store>>

\* A thread of the pool takes the next scope ...
PrepareBegin(p, s) ==
  LET r == runner[p] IN
  /\ r.pc = "prepare"
  /\ s \in r.queued
  /\ Cardinality(r.running) < MaxPrepareWorkers
  /\ runner' = [runner EXCEPT ![p].queued = @ \ {s}, ![p].running = @ \cup {s}]
  /\ UNCHANGED <<rows, lock, staging, store>>

\* ... and commits its artifacts, whether or not anybody still waits for them,
PrepareEnd(p, s) ==
  LET r == runner[p] IN
  /\ s \in r.running
  /\ staging' = [staging EXCEPT ![r.job].prepared = @ \cup {s}]
  /\ runner' = [runner EXCEPT ![p].running = @ \ {s}, ![p].ready = @ \cup {s}]
  /\ UNCHANGED <<rows, lock, store>>

\* A failed scope is a finished one.
\* ... or fails.
PrepareFails(p, s) ==
  /\ s \in runner[p].running
  /\ runner' = [runner EXCEPT ![p].running = @ \ {s}, ![p].broken = TRUE]
  /\ UNCHANGED <<rows, lock, staging, store>>

\* as_completed yields a finished scope: checkpoint it.
Collect(p, s) ==
  LET r == runner[p]
      done == r.done \cup {s}
  IN
  /\ r.pc = "prepare"
  /\ s \in r.ready
  /\ \/ KeeperCheckpoint(p, "preparing", ProgressOf(r.selection, done),
          [r EXCEPT !.done = done, !.ready = @ \ {s},
                    !.pc = IF done = ScopesOf(p) THEN "gate" ELSE "prepare"])
     \/ KeeperFails(p)
  /\ UNCHANGED <<lock, staging, store>>

\* future.result() raises: what is still queued is cancelled.
CollectFailure(p) ==
  /\ runner[p].pc = "prepare"
  /\ runner[p].broken
  /\ Raise(p, runner[p].latch)
  /\ UNCHANGED <<rows, lock, staging, store>>

\* The threads are left to finish by themselves.
FaultDoesNotWait(p) == TRUE

\* The executor waits for the threads that are running.
Drained(p) == runner[p].running = {}

Drain(p) ==
  /\ runner[p].pc = "drain"
  /\ Drained(p)
  /\ Goto(p, "unlock")
  /\ UNCHANGED <<rows, lock, staging, store>>

\* One scope is published as it is, several are aggregated first.
SkipAggregation(p) ==
  /\ runner[p].pc = "gate"
  /\ Cardinality(ScopesOf(p)) = 1
  /\ Goto(p, "verify")
  /\ UNCHANGED <<rows, lock, staging, store>>

\* The stage is announced first.
FaultAnnouncesFirst(p) ==
  LET r == runner[p] IN
  /\ r.pc = "gate"
  /\ Cardinality(ScopesOf(p)) > 1
  /\ \/ KeeperCheckpoint(p, "aggregating", ProgressOf(r.selection, ScopesOf(p)),
          [r EXCEPT !.pc = "aggregate", !.stage = "aggregating"])
     \/ /\ runner' = [runner EXCEPT ![p].pc = "unlock", ![p].stage = "aggregating",
                                    ![p].latch = "unavailable"]
        /\ UNCHANGED rows
  /\ UNCHANGED <<lock, staging, store>>

\* stage_changed follows the checkpoint.
MarkAggregating(p) ==
  LET r == runner[p] IN
  /\ r.pc = "gate"
  /\ Cardinality(ScopesOf(p)) > 1
  /\ \/ KeeperCheckpoint(p, "aggregating", ProgressOf(r.selection, ScopesOf(p)),
          [r EXCEPT !.pc = "aggregate", !.stage = "aggregating"])
     \/ KeeperFails(p)
  /\ UNCHANGED <<lock, staging, store>>

Aggregate(p) ==
  LET r == runner[p] IN
  /\ r.pc = "aggregate"
  /\ staging' = [staging EXCEPT ![r.job].aggregate = r.selection.sheets]
  /\ Goto(p, "verify")
  /\ UNCHANGED <<rows, lock, store>>

\* The package is complete: stage_changed("publishing").
VerifyPackage(p) ==
  /\ runner[p].pc = "verify"
  /\ runner' = [runner EXCEPT ![p].pc = "copy", ![p].stage = "publishing"]
  /\ UNCHANGED <<rows, lock, staging, store>>

-----------------------------------------------------------------------------
(* LocalPreparedBundleStore.publish, and the end of the job.                *)

\* The files are scanned and copied ...
CopyPackage(p) ==
  LET r == runner[p] IN
  /\ r.pc = "copy"
  /\ runner' = [runner EXCEPT ![p].pc = "store", ![p].copy =
       [job |-> r.job, selection |-> r.selection,
        scopes |-> staging[r.job].prepared, aggregate |-> staging[r.job].aggregate]]
  /\ UNCHANGED <<rows, lock, staging, store>>

\* The rename is left for later.
FaultStoresLater(p) ==
  /\ runner[p].pc = "store"
  /\ Goto(p, "publish_bundle")
  /\ UNCHANGED <<rows, lock, staging, store>>

\* ... scanned again and renamed into the store if they are unchanged.
StorePackage(p) ==
  LET r == runner[p] IN
  /\ r.pc = "store"
  /\ r.copy.scopes = staging[r.job].prepared
  /\ r.copy.aggregate = staging[r.job].aggregate
  /\ store' = store \cup {r.copy}
  /\ Goto(p, "publish_bundle")
  /\ UNCHANGED <<rows, lock, staging>>

FinalizeBundle(p) ==
  LET r == runner[p] IN
  /\ r.pc = "publish_bundle"
  /\ \/ r.latch = "ok" /\ PublishBundle(r.job, r.fence, r.copy) /\ Finalized(p)
     \/ KeeperFails(p)
  /\ UNCHANGED <<lock, staging, store>>

-----------------------------------------------------------------------------
(* The environment.                                                         *)

\* Time passes.  A lease lapses only while another takeover is in the bound.
Tick ==
  /\ \E j \in Job : jobs[j].left > 0
  /\ \A j \in Job : jobs[j].left = 1 => Spare(j)
  /\ jobs' = [j \in Job |-> [jobs[j] EXCEPT !.left = IF @ > 0 THEN @ - 1 ELSE 0]]
  /\ UNCHANGED <<bundles, runner, lock, staging, store>>

\* A lock file that names its owner survives it.
\* The locks a dead process leaves: the kernel drops them.
LocksAfterDeath(p) == [j \in Job |-> IF lock[j] = p THEN None ELSE lock[j]]

\* The process of a runner dies, with its threads.
Crash(p) ==
  LET r == runner[p] IN
  /\ r.pc # "idle"
  /\ HoldsLease(r.job, r.fence) => Spare(r.job)
  /\ runner' = [runner EXCEPT ![p] = Idle]
  /\ lock' = LocksAfterDeath(p)
  /\ UNCHANGED <<rows, staging, store>>

-----------------------------------------------------------------------------

PlanningStep(p) ==
  Materialize(p) \/ Convert(p) \/ MarkPlanning(p) \/ PlanScopes(p) \/ FinalizePlan(p)

ExecutionStep(p) ==
  \/ ExistingPackage(p) \/ MarkPreparing(p) \/ CollectFailure(p) \/ Drain(p)
  \/ SkipAggregation(p) \/ MarkAggregating(p) \/ Aggregate(p)
  \/ VerifyPackage(p) \/ CopyPackage(p) \/ StorePackage(p) \/ FinalizeBundle(p)
  \/ \E s \in Sheet \cup {Whole} :
       PrepareBegin(p, s) \/ PrepareEnd(p, s) \/ PrepareFails(p, s) \/ Collect(p, s)

\* What a call does until it returns.
RunnerStep(p) ==
  \/ EnterLease(p) \/ AcquireLock(p) \/ GiveUpLock(p) \/ Unlock(p) \/ FailQuietly(p)
  \/ WorkFails(p) \/ PlanningStep(p) \/ ExecutionStep(p)

Next ==
  \/ \E p \in Runner :
       \/ \E c \in StartCommand : Start(p, c)
       \/ \E c \in ScopeCommand : SelectScope(p, c)
       \/ RunnerStep(p) \/ Heartbeat(p)
       \/ HeartbeatFails(p) \/ LockFails(p) \/ Crash(p)
  \/ Tick

Spec == Init /\ [][Next]_vars
=============================================================================
