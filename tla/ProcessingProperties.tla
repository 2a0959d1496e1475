------------------------- MODULE ProcessingProperties -------------------------
(***************************************************************************)
(* What the processing service must get right.                             *)
(***************************************************************************)
EXTENDS ProcessingService

-----------------------------------------------------------------------------
(* Exclusion.                                                               *)

\* A call works in the staging directory from the lock on, and as long as one
\* of its preparation threads runs.
InStaging(p) ==
  \/ runner[p].pc \notin {"idle", "enter", "lock", "unlock", "fail"}
  \/ runner[p].running # {}

\* Two calls never work in the staging directory of one job, even when the
\* lease of the first has lapsed and the second has taken it over while
\* threads of the first still run (_exclusive_job_lock, the thread pool of
\* _run_execution).
StagingExclusive ==
  \A p, q \in Runner :
    InStaging(p) /\ InStaging(q) /\ runner[p].job = runner[q].job => p = q

-----------------------------------------------------------------------------
(* Leases.                                                                  *)

\* The runner whose claim is the current one of its job.
Owns(p) ==
  /\ runner[p].pc # "idle"
  /\ HoldsLease(runner[p].job, runner[p].fence)

\* The row of an owned job says what the keeper of its owner last wrote: no
\* fenced-off runner, late heartbeat or second owner has written it.
RowIsKeepers ==
  \A p \in Runner : Owns(p) =>
    /\ jobs[runner[p].job].status = runner[p].status
    /\ jobs[runner[p].job].progress = runner[p].progress
    /\ jobs[runner[p].job].selection = runner[p].selection

\* A lapsed lease is never renewed or used to end the job: the next change of
\* the row is a takeover under the next fence (_require_lease).
LapsedOnlyTakenOver ==
  [][\A j \in Job :
       Lapsed(j) /\ jobs'[j] # jobs[j] =>
         /\ jobs'[j].fence = jobs[j].fence + 1
         /\ jobs'[j] = Leased(jobs[j])]_vars

\* When an owner gives up, its failure can be recorded: the stage it reports
\* fits the state of the job.  Otherwise the job would look alive until its
\* lease lapses and be executed once more (stage_changed, fail).
FailureFits ==
  \A p \in Runner :
    Owns(p) /\ runner[p].pc \in {"unlock", "fail"} /\ runner[p].latch # "finalized"
      => CanFail(runner[p].job, runner[p].fence, runner[p].stage)

-----------------------------------------------------------------------------
(* Results.                                                                 *)

\* A package that holds all of a selection.
HoldsAll(snapshot, j, sel) ==
  /\ snapshot.job = j
  /\ snapshot.selection = sel
  /\ Scopes(sel) \subseteq snapshot.scopes
  /\ Cardinality(Scopes(sel)) > 1 => snapshot.aggregate = sel.sheets

\* A job is published exactly when it has a bundle row, and the bundle's
\* package is in the store and holds all that was selected (publish_bundle,
\* LocalPreparedBundleStore.publish).
PublishedIsWhole ==
  \A j \in Job :
    /\ jobs[j].status = "published" <=> bundles[j] # None
    /\ bundles[j] # None =>
         bundles[j] \in store /\ HoldsAll(bundles[j], j, jobs[j].selection)

Phase(j) ==
  CASE jobs[j].status = "awaiting_scope"               -> "awaiting"
    [] jobs[j].status \in {"preparing", "aggregating"} -> "executing"
    [] OTHER                                           -> jobs[j].status

Promise == INSTANCE JobPromise WITH
  BundleOf <- HoldsAll,
  phase    <- [j \in Job |-> Phase(j)],
  subject  <- [j \in Job |-> jobs[j].workbook],
  binding  <- [j \in Job |-> IF jobs[j].key = None THEN None
                             ELSE <<jobs[j].key, jobs[j].selection>>],
  bundle   <- bundles

\* The service implements the promise.
KeepsPromise == Promise!PSpec

-----------------------------------------------------------------------------
(* Liveness.                                                                *)

\* A call runs on until it returns, time passes, and a client that has not got
\* its answer repeats its command.
Fairness ==
  /\ WF_vars(Tick)
  /\ \A p \in Runner : WF_vars(RunnerStep(p)) /\ WF_vars(Heartbeat(p))
  /\ \A c \in StartCommand : SF_vars(\E p \in Runner : Start(p, c))
  /\ \A c \in ScopeCommand : SF_vars(\E p \in Runner : SelectScope(p, c))

\* No job stays with a runner that died, lost its lease or could not record
\* its failure, nor waits for ever for a lock: planning ends, execution ends.
JobsEnd ==
  \A j \in Job :
    /\ jobs[j].status = "planning" ~> jobs[j].status # "planning"
    /\ jobs[j].status = "preparing" ~> jobs[j].status \in {"published", "failed"}
=============================================================================
