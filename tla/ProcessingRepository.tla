------------------------- MODULE ProcessingRepository -------------------------
(***************************************************************************)
(* The durable table of processing jobs (audit/processing_sqlite.py).      *)
(* Every operation is one BEGIN IMMEDIATE transaction that reads the clock *)
(* after it has the write lock, so each is one atomic action here.         *)
(*                                                                         *)
(* A job is owned through a lease: a token, a fence that only grows, and   *)
(* an expiry.  A claim draws a token and takes the next fence together, so *)
(* the fence stands for both.  An expiry is only ever compared with the    *)
(* current time: the model keeps the time left.                            *)
(***************************************************************************)
EXTENDS Naturals, FiniteSets

CONSTANTS
  Job,           \* derived from the principal and the key of the start command
  Workbook,      \* the raw snapshots a start command may name
  ExecutionKey,  \* idempotency keys of selections
  Sheet,         \* the analysable sheets of the plan
  Whole,         \* the workbook scope
  None,
  LeaseTtl,      \* lease_ttl_seconds
  MaxTakeovers   \* bound on the takeovers of the lease of one job

ASSUME ProcessingAssumption ==
  /\ LeaseTtl \in Nat \ {0}
  /\ MaxTakeovers \in Nat
  /\ IsFiniteSet(Sheet)
  /\ Whole \notin Sheet
  /\ None \notin Workbook \cup ExecutionKey \cup Sheet \cup {Whole}

VARIABLES
  jobs,     \* processing_jobs and the start_commands row of each
  bundles   \* published_bundles, by the job the bundle id is derived from

rows == <<jobs, bundles>>

Status == {"absent", "planning", "awaiting_scope", "preparing", "aggregating",
           "published", "failed"}

\* all_sheets and selected_sheets are different selections of the same sheets.
Selection ==
  [mode : {"workbook"}, sheets : {{}}] \cup
  [mode : {"all_sheets", "selected_sheets"}, sheets : SUBSET Sheet \ {{}}]

Scopes(sel) == IF sel.mode = "workbook" THEN {Whole} ELSE sel.sheets

Progress == [total : Nat, completed : Nat, current : SUBSET Sheet]
NoProgress == [total |-> 0, completed |-> 0, current |-> {}]

\* The workbook scope is named as if it were a sheet.
FaultNamesWorkbook(sel, done) ==
  [total |-> Cardinality(Scopes(sel)), completed |-> Cardinality(done),
   current |-> Scopes(sel) \ done]

\* The checkpoint of a run that has completed the scopes in done.
ProgressOf(sel, done) ==
  [total |-> Cardinality(Scopes(sel)), completed |-> Cardinality(done),
   current |-> sel.sheets \ done]

Complete(progress) ==
  progress.completed = progress.total /\ progress.current = {}

\* The package a bundle holds: its job, what was selected, what it contains.
Snapshot ==
  [job : Job, selection : Selection, scopes : SUBSET (Sheet \cup {Whole}),
   aggregate : SUBSET Sheet]

ASSUME SnapshotAssumption == None \notin Snapshot

\* leased: lease_token IS NOT NULL.
JobRow ==
  [status : Status, workbook : Workbook \cup {None},
   key : ExecutionKey \cup {None}, selection : Selection \cup {None},
   progress : Progress, leased : BOOLEAN, fence : Nat, left : Nat]

NoJob == [status |-> "absent", workbook |-> None, key |-> None,
          selection |-> None, progress |-> NoProgress,
          leased |-> FALSE, fence |-> 0, left |-> 0]

RepositoryTypeOK ==
  /\ jobs \in [Job -> JobRow]
  /\ bundles \in [Job -> Snapshot \cup {None}]

RepositoryInit ==
  /\ jobs = [j \in Job |-> NoJob]
  /\ bundles = [j \in Job |-> None]

-----------------------------------------------------------------------------
(* The bound: a lease may be lost only while another takeover is allowed.   *)

Spare(j) ==
  jobs[j].fence <= MaxTakeovers + (IF jobs[j].status = "planning" THEN 0 ELSE 1)

-----------------------------------------------------------------------------

\* A runner without its fence: any live lease will do.
FaultAnyLease(j, fence) ==
  /\ jobs[j].status \in {"planning", "preparing", "aggregating"}
  /\ jobs[j].leased
  /\ jobs[j].left > 0

\* A lease is good until somebody else takes it.
FaultEternalLease(j, fence) ==
  /\ jobs[j].status \in {"planning", "preparing", "aggregating"}
  /\ jobs[j].leased
  /\ jobs[j].fence = fence

\* _require_lease
HoldsLease(j, fence) ==
  /\ jobs[j].status \in {"planning", "preparing", "aggregating"}
  /\ jobs[j].leased
  /\ jobs[j].fence = fence
  /\ jobs[j].left > 0

Leased(row) ==
  [row EXCEPT !.leased = TRUE, !.fence = @ + 1, !.left = LeaseTtl]

Released(row) == [row EXCEPT !.leased = FALSE, !.left = 0]

\* A runner that died keeps its job.
FaultNeverLapsed(j) == FALSE

\* A lease that has lapsed is free for the next claim.
Lapsed(j) == jobs[j].leased /\ jobs[j].left = 0

\* A failed job is planned again under its old key.
FaultRestarts(j, w) ==
  /\ jobs[j].status \in {"absent", "failed"}
  /\ jobs' = [jobs EXCEPT ![j] =
       Leased([NoJob EXCEPT !.status = "planning", !.workbook = w])]
  /\ UNCHANGED bundles

\* claim_planning, when the claim is granted.  A job with another command is a
\* conflict, one past planning is answered as it is, a live lease is pending:
\* none of these changes anything.
ClaimPlanning(j, w) ==
  /\ \/ /\ jobs[j].status = "absent"
        /\ jobs' = [jobs EXCEPT ![j] =
             Leased([NoJob EXCEPT !.status = "planning", !.workbook = w])]
     \/ /\ jobs[j].status = "planning"
        /\ jobs[j].workbook = w
        /\ Lapsed(j)
        /\ jobs' = [jobs EXCEPT ![j] = Leased(@)]
  /\ UNCHANGED bundles

PublishPlan(j, fence) ==
  /\ HoldsLease(j, fence)
  /\ jobs[j].status = "planning"
  /\ jobs' = [jobs EXCEPT ![j] =
       Released([@ EXCEPT !.status = "awaiting_scope", !.progress = NoProgress])]
  /\ UNCHANGED bundles

\* The stored binding of a job is the one requested.
SameBinding(j, key, sel) == jobs[j].key = key /\ jobs[j].selection = sel

\* claim_execution, when the claim is granted: the first selection binds the
\* job; later ones must be the same and take over a lapsed lease.
ClaimExecution(j, key, sel) ==
  /\ \/ /\ jobs[j].status = "awaiting_scope"
        /\ ~ jobs[j].leased
        /\ jobs' = [jobs EXCEPT ![j] =
             Leased([@ EXCEPT !.status = "preparing", !.key = key,
                              !.selection = sel,
                              !.progress = ProgressOf(sel, {})])]
     \/ /\ jobs[j].status \in {"preparing", "aggregating"}
        /\ SameBinding(j, key, sel)
        /\ Lapsed(j)
        /\ jobs' = [jobs EXCEPT ![j] = Leased(@)]
  /\ UNCHANGED bundles

CheckpointAllowed(j, status, progress) ==
  /\ \/ jobs[j].status = status
     \/ jobs[j].status = "preparing" /\ status = "aggregating"
  /\ status = "planning" => progress = NoProgress
  /\ status = "aggregating" => Complete(progress)

\* checkpoint: the progress, and a full lease again.
Checkpoint(j, fence, status, progress) ==
  /\ HoldsLease(j, fence)
  /\ CheckpointAllowed(j, status, progress)
  /\ jobs' = [jobs EXCEPT ![j].status = status, ![j].progress = progress,
                          ![j].left = LeaseTtl]
  /\ UNCHANGED bundles

FailureStages(status) ==
  CASE status = "planning"    -> {"planning"}
    [] status = "preparing"   -> {"preparing", "publishing"}
    [] status = "aggregating" -> {"aggregating", "publishing"}
    [] OTHER                  -> {}

CanFail(j, fence, stage) ==
  HoldsLease(j, fence) /\ stage \in FailureStages(jobs[j].status)

Fail(j, fence, stage) ==
  /\ CanFail(j, fence, stage)
  /\ jobs' = [jobs EXCEPT ![j] = Released([@ EXCEPT !.status = "failed"])]
  /\ UNCHANGED bundles

\* publish_bundle: the row of the bundle and the end of the job in one
\* transaction.
CanPublishBundle(j, fence, snapshot) ==
  /\ HoldsLease(j, fence)
  /\ jobs[j].status \in {"preparing", "aggregating"}
  /\ snapshot.selection = jobs[j].selection
  /\ Complete(jobs[j].progress)
  /\ bundles[j] = None

PublishBundle(j, fence, snapshot) ==
  /\ CanPublishBundle(j, fence, snapshot)
  /\ bundles' = [bundles EXCEPT ![j] = snapshot]
  /\ jobs' = [jobs EXCEPT ![j] = Released([@ EXCEPT !.status = "published"])]
=============================================================================
