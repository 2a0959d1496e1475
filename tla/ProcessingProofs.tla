--------------------------- MODULE ProcessingProofs ---------------------------
(***************************************************************************)
(* Machine-checked proofs about the processing service, for every set of   *)
(* runners, jobs, sheets and commands and every lease duration.            *)
(*                                                                         *)
(* The argument.  A claim takes a new fence, so no two calls share one     *)
(* (Claims) and a write that passes _require_lease is one of the current   *)
(* claimant; what the row says is then what its keeper wrote (RowIsKeepers *)
(* is inductive with Claims).  The staging directory is used under the     *)
(* lock file, and a call gives the lock back with no thread running: a     *)
(* thread runs only while its call is in the pool or waits for it (Pools). *)
(***************************************************************************)
EXTENDS ProcessingProperties, FiniteSetTheorems, TLAPS

\* The points at which a call executes a selection.
Executing ==
  {"existing", "mark_preparing", "prepare", "drain", "gate", "aggregate",
   "verify", "copy", "store", "publish_bundle"}

\* The points before the thread pool.
BeforePool == {"idle", "enter", "lock", "existing", "mark_preparing"}

\* What a call knows of its command, by the point it has reached.
ShapeOK(r) ==
  /\ r.pc # "idle" => r.job \in Job
  /\ r.status = "planning" \/ r.selection \in Selection
  /\ r.pc \in Executing => r.selection \in Selection
  /\ r.pc \in {"store", "publish_bundle"} => r.copy \in Snapshot

Shapes == \A p \in Runner : ShapeOK(runner[p])

\* The scopes of the pool are in one place each, and threads run only while
\* the call is in the pool or waits for it to drain.
PoolOK(r) ==
  /\ r.pc \in BeforePool =>
       r.queued = {} /\ r.running = {} /\ r.ready = {} /\ r.done = {}
  /\ r.running # {} => r.pc \in {"prepare", "drain"}
  /\ \A s \in r.queued \cup r.running : s \in Scopes(r.selection)
  /\ r.queued \cap (r.running \cup r.ready \cup r.done) = {}
  /\ r.running \cap (r.ready \cup r.done) = {}

Pools == \A p \in Runner : PoolOK(runner[p])

\* A call past the lock file holds it.
Locks ==
  \A p \in Runner :
    runner[p].pc \notin {"idle", "enter", "lock", "fail"} =>
      lock[runner[p].job] = p

\* A job that is not there has no row; one without a selection has no binding.
Rows ==
  /\ \A j \in Job : jobs[j].status = "absent" => jobs[j] = NoJob
  /\ \A j \in Job : jobs[j].status = "planning" => jobs[j].selection = None

\* A fence belongs to one call, and is not newer than the row's.
Claims ==
  /\ \A p \in Runner : runner[p].pc # "idle" =>
       runner[p].fence \in 1..jobs[runner[p].job].fence
  /\ \A p, q \in Runner :
       (/\ p # q
        /\ runner[p].pc # "idle" /\ runner[q].pc # "idle"
        /\ runner[p].job = runner[q].job)
         => runner[p].fence # runner[q].fence

Inv == TypeOK /\ Shapes /\ Pools /\ Locks /\ Rows /\ Claims /\ RowIsKeepers

USE ProcessingAssumption, RunnerAssumption

-----------------------------------------------------------------------------
(* Lemmas.                                                                  *)

\* The scopes of a selection are scopes.
LEMMA ScopesType ==
  ASSUME NEW sel \in Selection
  PROVE  /\ Scopes(sel) \in SUBSET (Sheet \cup {Whole})
         /\ sel.sheets \in SUBSET Sheet
BY DEF Scopes, Selection

\* The progress a run reports is well typed.
LEMMA ProgressType ==
  ASSUME NEW sel \in Selection, NEW done \in SUBSET (Sheet \cup {Whole})
  PROVE  ProgressOf(sel, done) \in Progress
<1>1. IsFiniteSet(Sheet \cup {Whole})
  BY FS_AddElement
<1>2. IsFiniteSet(Scopes(sel)) /\ IsFiniteSet(done)
  BY <1>1, ScopesType, FS_Subset
<1>3. Cardinality(Scopes(sel)) \in Nat /\ Cardinality(done) \in Nat
  BY <1>2, FS_CardinalityType
<1>4. sel.sheets \ done \in SUBSET Sheet
  BY ScopesType
<1> QED
  BY <1>3, <1>4 DEF ProgressOf, Progress

\* Past the lock file.
Locked(pc) == pc \notin {"idle", "enter", "lock", "fail"}

\* A step of call p that makes it x keeps the invariant, if x is well formed,
\* the lock is kept as it must be, and only the row p owns has changed, to what
\* x says of it.
LEMMA StepKeeps ==
  ASSUME Inv,
         NEW p \in Runner, runner[p].pc # "idle",
         NEW x \in RunnerState, runner' = [runner EXCEPT ![p] = x],
         ShapeOK(x), PoolOK(x),
         x.pc # "idle" => x.job = runner[p].job /\ x.fence = runner[p].fence,
         RepositoryTypeOK',
         lock' \in [Job -> Runner \cup {None}],
         staging' \in [Job -> Staging],
         store' \in SUBSET Snapshot,
         Locked(x.pc) => lock'[x.job] = p,
         \A q \in Runner \ {p} : Locked(runner[q].pc) =>
           lock'[runner[q].job] = lock[runner[q].job],
         \A j \in Job : jobs'[j] # jobs[j] =>
           /\ j = runner[p].job
           /\ HoldsLease(j, runner[p].fence)
           /\ jobs'[j].fence = jobs[j].fence
           /\ jobs'[j].status # "absent"
           /\ jobs'[j].status = "planning" => jobs'[j].selection = None,
         (x.pc # "idle" /\ HoldsLease(x.job, x.fence)') =>
           /\ jobs'[x.job].status = x.status
           /\ jobs'[x.job].progress = x.progress
           /\ jobs'[x.job].selection = x.selection
  PROVE  Inv'
<1> USE DEF Inv
<1>1. runner \in [Runner -> RunnerState] /\ jobs \in [Job -> JobRow]
      /\ jobs' \in [Job -> JobRow]
  BY DEF TypeOK, RepositoryTypeOK
<1>2. /\ runner'[p] = x
      /\ \A q \in Runner \ {p} : runner'[q] = runner[q]
  BY <1>1
<1>3. TypeOK'
  BY <1>1 DEF TypeOK
<1>4. Shapes' /\ Pools'
  BY <1>2 DEF Shapes, Pools
<1>5. Locks'
  BY <1>2 DEF Locks, Locked
<1>6. Rows'
  BY <1>1 DEF Rows
<1>7. \A j \in Job : jobs'[j].fence = jobs[j].fence
  OBVIOUS
<1>8. \A q \in Runner : runner[q].pc # "idle" => runner[q].job \in Job
  BY DEF Shapes, ShapeOK
<1>9. Claims'
  <2>1. \A q \in Runner : runner'[q].pc # "idle" =>
          /\ runner[q].pc # "idle"
          /\ runner'[q].job = runner[q].job
          /\ runner'[q].fence = runner[q].fence
    BY <1>2
  <2> QED
    BY <2>1, <1>7, <1>8 DEF Claims
<1>10. RowIsKeepers'
  <2> SUFFICES ASSUME NEW q \in Runner, Owns(q)'
               PROVE  /\ jobs'[runner'[q].job].status = runner'[q].status
                      /\ jobs'[runner'[q].job].progress = runner'[q].progress
                      /\ jobs'[runner'[q].job].selection = runner'[q].selection
    BY DEF RowIsKeepers
  <2>1. CASE q = p
    BY <2>1, <1>2 DEF Owns
  <2>2. CASE q # p
    <3>1. runner'[q] = runner[q] /\ runner[q].job \in Job /\ runner[q].pc # "idle"
      BY <2>2, <1>2, <1>8 DEF Owns
    <3>2. jobs'[runner[q].job] = jobs[runner[q].job]
      <4> SUFFICES ASSUME jobs'[runner[q].job] # jobs[runner[q].job] PROVE FALSE
        OBVIOUS
      <4>1. /\ runner[q].job = runner[p].job
            /\ jobs[runner[q].job].fence = runner[p].fence
            /\ jobs'[runner[q].job].fence = runner[p].fence
        BY <3>1 DEF HoldsLease
      <4>2. runner[q].fence # runner[p].fence
        BY <4>1, <3>1, <2>2 DEF Claims
      <4> QED
        BY <4>1, <4>2, <3>1 DEF Owns, HoldsLease
    <3>3. Owns(q)
      BY <3>1, <3>2 DEF Owns, HoldsLease
    <3> QED
      BY <3>1, <3>2, <3>3 DEF RowIsKeepers
  <2> QED
    BY <2>1, <2>2
<1> QED
  BY <1>3, <1>4, <1>5, <1>6, <1>9, <1>10

\* What the invariant says of a call that is under way.
LEMMA Underway ==
  ASSUME Inv, NEW p \in Runner, runner[p].pc # "idle"
  PROVE  /\ runner[p] \in RunnerState
         /\ runner[p].job \in Job
         /\ ShapeOK(runner[p]) /\ PoolOK(runner[p])
         /\ Locked(runner[p].pc) => lock[runner[p].job] = p
         /\ runner[p].fence \in 1..jobs[runner[p].job].fence
         /\ jobs[runner[p].job] \in JobRow
         /\ HoldsLease(runner[p].job, runner[p].fence) =>
              /\ jobs[runner[p].job].status = runner[p].status
              /\ jobs[runner[p].job].progress = runner[p].progress
              /\ jobs[runner[p].job].selection = runner[p].selection
<1>1. runner[p] \in RunnerState /\ ShapeOK(runner[p]) /\ PoolOK(runner[p])
  BY DEF Inv, TypeOK, Shapes, Pools
<1>2. runner[p].job \in Job
  BY <1>1 DEF ShapeOK
<1>3. jobs[runner[p].job] \in JobRow
  BY <1>2 DEF Inv, TypeOK, RepositoryTypeOK
<1> QED
  BY <1>1, <1>2, <1>3 DEF Inv, Locks, Locked, Claims, RowIsKeepers, Owns

\* A step of a call that changes no row and takes no lock.
LEMMA QuietKeeps ==
  ASSUME Inv,
         NEW p \in Runner, runner[p].pc # "idle",
         NEW x \in RunnerState, runner' = [runner EXCEPT ![p] = x],
         ShapeOK(x), PoolOK(x), x.pc # "idle",
         x.job = runner[p].job, x.fence = runner[p].fence,
         x.status = runner[p].status, x.progress = runner[p].progress,
         x.selection = runner[p].selection,
         Locked(x.pc) => Locked(runner[p].pc),
         UNCHANGED <<rows, lock>>,
         staging' \in [Job -> Staging],
         store' \in SUBSET Snapshot
  PROVE  Inv'
<1>1. UNCHANGED <<jobs, bundles, lock>>
  BY DEF rows
<1>2. RepositoryTypeOK' /\ lock' \in [Job -> Runner \cup {None}]
  BY <1>1 DEF Inv, TypeOK, RepositoryTypeOK
<1>3. HoldsLease(x.job, x.fence)' =>
        /\ jobs'[x.job].status = x.status
        /\ jobs'[x.job].progress = x.progress
        /\ jobs'[x.job].selection = x.selection
  BY <1>1, Underway DEF HoldsLease
<1>4. Locked(x.pc) => lock'[x.job] = p
  BY <1>1, Underway
<1> QED
  BY <1>1, <1>2, <1>3, <1>4, StepKeeps

\* A checkpoint that goes through.
LEMMA CheckpointKeeps ==
  ASSUME Inv,
         NEW p \in Runner, runner[p].pc # "idle",
         NEW status \in {"planning", "preparing", "aggregating"},
         NEW progress \in Progress,
         NEW next \in RunnerState,
         KeeperCheckpoint(p, status, progress, next),
         next.pc # "idle", PoolOK(next),
         ShapeOK([next EXCEPT !.status = status, !.progress = progress]),
         next.job = runner[p].job, next.fence = runner[p].fence,
         next.selection = runner[p].selection,
         Locked(next.pc) => Locked(runner[p].pc),
         UNCHANGED <<lock, staging, store>>
  PROVE  Inv'
<1> DEFINE x == [next EXCEPT !.status = status, !.progress = progress]
           j == runner[p].job
           row == [jobs[j] EXCEPT !.status = status, !.progress = progress,
                                  !.left = LeaseTtl]
<1>1. x \in RunnerState
  BY DEF RunnerState, Status
<1>2. /\ x.pc = next.pc /\ x.job = next.job /\ x.fence = next.fence
      /\ x.selection = next.selection /\ x.status = status /\ x.progress = progress
      /\ x.queued = next.queued /\ x.running = next.running
      /\ x.ready = next.ready /\ x.done = next.done
  BY DEF RunnerState
<1>3. PoolOK(x)
  BY <1>2 DEF PoolOK
<1>4. /\ runner' = [runner EXCEPT ![p] = x]
      /\ HoldsLease(j, runner[p].fence)
      /\ CheckpointAllowed(j, status, progress)
      /\ UNCHANGED bundles
  BY DEF KeeperCheckpoint, Checkpoint
<1>5. j \in Job /\ jobs[j] \in JobRow /\ jobs \in [Job -> JobRow]
  BY Underway DEF Inv, TypeOK, RepositoryTypeOK
<1>6. jobs' = [jobs EXCEPT ![j] = row]
  BY <1>5 DEF KeeperCheckpoint, Checkpoint
<1>7. row \in JobRow
  BY <1>5 DEF JobRow, Status
<1>8. /\ row.status = status /\ row.progress = progress
      /\ row.selection = jobs[j].selection /\ row.fence = jobs[j].fence
  BY <1>5 DEF JobRow
<1>9. jobs[j].selection = runner[p].selection /\ jobs[j].status = runner[p].status
  BY <1>4, Underway
<1>10. status = "planning" => row.selection = None
  BY <1>4, <1>5, <1>8 DEF CheckpointAllowed, Inv, Rows
<1>11. RepositoryTypeOK'
  BY <1>4, <1>5, <1>6, <1>7 DEF Inv, TypeOK, RepositoryTypeOK
<1>12. /\ lock' \in [Job -> Runner \cup {None}]
       /\ staging' \in [Job -> Staging] /\ store' \in SUBSET Snapshot
  BY DEF Inv, TypeOK
<1>13. Locked(x.pc) => lock'[x.job] = p
  BY <1>2, Underway
<1>14. \A i \in Job : jobs'[i] # jobs[i] => i = j /\ jobs'[i] = row
  BY <1>5, <1>6
<1>15. jobs'[x.job] = row
  BY <1>2, <1>5, <1>6
<1> HIDE DEF x, row
<1>16. \A i \in Job : jobs'[i] # jobs[i] =>
         /\ i = runner[p].job
         /\ HoldsLease(i, runner[p].fence)
         /\ jobs'[i].fence = jobs[i].fence
         /\ jobs'[i].status # "absent"
         /\ jobs'[i].status = "planning" => jobs'[i].selection = None
  BY <1>4, <1>8, <1>10, <1>14
<1>17. /\ jobs'[x.job].status = x.status
       /\ jobs'[x.job].progress = x.progress
       /\ jobs'[x.job].selection = x.selection
  BY <1>2, <1>8, <1>9, <1>15
<1>18. ShapeOK(x)
  BY DEF x
<1> QED
  BY <1>1, <1>2, <1>3, <1>4, <1>11, <1>12, <1>13, <1>16, <1>17, <1>18, StepKeeps

\* An exception, wherever it is raised.
LEMMA RaiseKeeps ==
  ASSUME Inv, NEW p \in Runner,
         runner[p].pc \notin {"idle", "fail", "drain"},
         NEW latch \in {"ok", "lost", "unavailable", "finalized"},
         Raise(p, latch),
         UNCHANGED <<rows, lock, staging, store>>
  PROVE  Inv'
<1> DEFINE x == [runner[p] EXCEPT !.pc = AfterError(p), !.queued = {}, !.latch = latch]
<1>1. /\ runner[p] \in RunnerState /\ ShapeOK(runner[p]) /\ PoolOK(runner[p])
      /\ runner \in [Runner -> RunnerState]
  BY Underway DEF Inv, TypeOK
<1>2. AfterError(p) \in {"drain", "fail", "unlock"}
  BY DEF AfterError
<1>3. x \in RunnerState
  BY <1>1, <1>2, ZenonT(60) DEF RunnerState, ProgramCounter
<1>4. runner' = [runner EXCEPT ![p] = x]
  BY <1>1 DEF Raise
<1>5. /\ x.pc = AfterError(p) /\ x.job = runner[p].job /\ x.fence = runner[p].fence
      /\ x.status = runner[p].status /\ x.progress = runner[p].progress
      /\ x.selection = runner[p].selection /\ x.queued = {}
      /\ x.running = runner[p].running /\ x.ready = runner[p].ready
      /\ x.done = runner[p].done
  BY <1>1 DEF RunnerState
<1> HIDE DEF x
<1>6. ShapeOK(x)
  BY <1>1, <1>2, <1>5 DEF ShapeOK, Executing, AfterError
<1>7. PoolOK(x)
  BY <1>1, <1>2, <1>5 DEF PoolOK, BeforePool, AfterError
<1>8. Locked(x.pc) => Locked(runner[p].pc)
  BY <1>5 DEF AfterError, Locked
<1>9. staging' \in [Job -> Staging] /\ store' \in SUBSET Snapshot
  BY DEF Inv, TypeOK
<1> QED
  BY <1>2, <1>3, <1>4, <1>5, <1>6, <1>7, <1>8, <1>9, QuietKeeps

\* A checkpoint or a terminal transition that the keeper could not make.
LEMMA KeeperFailsKeeps ==
  ASSUME Inv, NEW p \in Runner,
         runner[p].pc \notin {"idle", "fail", "drain"},
         KeeperFails(p), UNCHANGED <<lock, staging, store>>
  PROVE  Inv'
<1>1. runner[p].latch \in {"ok", "lost", "unavailable", "finalized"}
  BY Underway DEF RunnerState
<1>2. UNCHANGED <<rows, lock, staging, store>>
  BY DEF KeeperFails
<1>3. \E latch \in {"ok", "lost", "unavailable", "finalized"} : Raise(p, latch)
  BY <1>1 DEF KeeperFails
<1> QED
  BY <1>2, <1>3, RaiseKeeps

\* A granted claim: a new fence, which no call has, and a row that says what
\* the keeper of the claimant starts with.
LEMMA ClaimKeeps ==
  ASSUME Inv, NEW p \in Runner, runner[p].pc = "idle",
         NEW j \in Job, NEW sel \in Selection \cup {None}, NEW row \in JobRow,
         jobs' = [jobs EXCEPT ![j] = row], UNCHANGED bundles,
         row.status \in {"planning", "preparing", "aggregating"},
         row.fence = jobs[j].fence + 1,
         row.selection = sel,
         \/ row.status = "planning" /\ sel = None
         \/ row.status # "planning" /\ sel \in Selection,
         Claimed(p, j, sel),
         UNCHANGED <<lock, staging, store>>
  PROVE  Inv'
<1> DEFINE x == [Idle EXCEPT !.pc = "enter", !.job = j, !.selection = sel,
                   !.fence = row.fence, !.status = row.status,
                   !.progress = row.progress, !.stage = row.status]
<1>1. /\ jobs \in [Job -> JobRow] /\ runner \in [Runner -> RunnerState]
      /\ jobs'[j] = row
      /\ \A i \in Job \ {j} : jobs'[i] = jobs[i]
  BY DEF Inv, TypeOK, RepositoryTypeOK
<1>2. runner' = [runner EXCEPT ![p] = x]
  BY <1>1 DEF Claimed
<1>3. /\ x.pc = "enter" /\ x.job = j /\ x.selection = sel /\ x.fence = row.fence
      /\ x.status = row.status /\ x.progress = row.progress
      /\ x.queued = {} /\ x.running = {} /\ x.ready = {} /\ x.done = {}
  BY DEF Idle
<1>4. x \in RunnerState
  <2>1. row.fence \in Nat /\ row.progress \in Progress
    BY DEF JobRow
  <2> QED
    BY <2>1 DEF Idle, RunnerState, ProgramCounter, Status
<1> HIDE DEF x
<1>5. /\ runner'[p] = x
      /\ \A q \in Runner \ {p} : runner'[q] = runner[q]
  BY <1>1, <1>2
<1>6. TypeOK'
  BY <1>1, <1>2, <1>4 DEF Inv, TypeOK, RepositoryTypeOK
<1>7. Shapes'
  BY <1>3, <1>5 DEF Inv, Shapes, ShapeOK, Executing
<1>8. Pools'
  <2>1. PoolOK(x)
    BY <1>3 DEF PoolOK, BeforePool
  <2> QED
    BY <1>5, <2>1 DEF Inv, Pools
<1>9. Locks'
  BY <1>3, <1>5 DEF Inv, Locks
<1>10. Rows'
  BY <1>1 DEF Inv, Rows
<1>11. \A q \in Runner : runner[q].pc # "idle" =>
         runner[q].job \in Job /\ runner[q].fence \in 1..jobs[runner[q].job].fence
  BY DEF Inv, Shapes, ShapeOK, Claims
<1>12. \A i \in Job : jobs[i].fence \in Nat
  BY <1>1 DEF JobRow
<1>13. Claims'
  <2>1. \A q \in Runner : runner'[q].pc # "idle" =>
          runner'[q].fence \in 1..jobs'[runner'[q].job].fence
    <3> SUFFICES ASSUME NEW q \in Runner, runner'[q].pc # "idle"
                 PROVE  runner'[q].fence \in 1..jobs'[runner'[q].job].fence
      OBVIOUS
    <3>1. CASE q = p
      BY <3>1, <1>1, <1>3, <1>5, <1>12
    <3>2. CASE q # p
      <4>1. runner[q].job \in Job /\ runner[q].fence \in 1..jobs[runner[q].job].fence
        BY <3>2, <1>5, <1>11
      <4>2. jobs'[runner[q].job].fence \in {jobs[runner[q].job].fence,
                                            jobs[runner[q].job].fence + 1}
        BY <4>1, <1>1
      <4> QED
        BY <3>2, <4>1, <4>2, <1>5, <1>12
    <3> QED
      BY <3>1, <3>2
  <2>2. \A q \in Runner \ {p} : runner[q].pc # "idle" /\ runner[q].job = j =>
          runner[q].fence # row.fence
    BY <1>11, <1>12
  <2>3. \A q, r \in Runner :
          (/\ q # r
           /\ runner'[q].pc # "idle" /\ runner'[r].pc # "idle"
           /\ runner'[q].job = runner'[r].job)
            => runner'[q].fence # runner'[r].fence
    BY <2>2, <1>3, <1>5 DEF Inv, Claims
  <2> QED
    BY <2>1, <2>3 DEF Claims
<1>14. RowIsKeepers'
  <2> SUFFICES ASSUME NEW q \in Runner, Owns(q)'
               PROVE  /\ jobs'[runner'[q].job].status = runner'[q].status
                      /\ jobs'[runner'[q].job].progress = runner'[q].progress
                      /\ jobs'[runner'[q].job].selection = runner'[q].selection
    BY DEF RowIsKeepers
  <2>1. CASE q = p
    BY <2>1, <1>1, <1>3, <1>5
  <2>2. CASE q # p
    <3>1. runner'[q] = runner[q] /\ runner[q].pc # "idle"
      BY <2>2, <1>5 DEF Owns
    <3>2. jobs'[runner[q].job].fence = runner[q].fence
      BY <3>1 DEF Owns, HoldsLease
    <3>3. runner[q].job # j
      BY <3>1, <3>2, <1>1, <1>11, <1>12
    <3>4. jobs'[runner[q].job] = jobs[runner[q].job]
      BY <3>1, <3>3, <1>1, <1>11
    <3>5. Owns(q)
      BY <3>1, <3>4 DEF Owns, HoldsLease
    <3> QED
      BY <3>1, <3>4, <3>5 DEF Inv, RowIsKeepers
  <2> QED
    BY <2>1, <2>2
<1> QED
  BY <1>6, <1>7, <1>8, <1>9, <1>10, <1>13, <1>14 DEF Inv

\* A row leased to a new claimant.
LEMMA LeasedRow ==
  ASSUME NEW row \in JobRow
  PROVE  /\ Leased(row) \in JobRow
         /\ Leased(row).status = row.status
         /\ Leased(row).selection = row.selection
         /\ Leased(row).fence = row.fence + 1
<1> DEFINE x == [row EXCEPT !.leased = TRUE, !.fence = @ + 1, !.left = LeaseTtl]
<1>1. LeaseTtl \in Nat /\ row.fence + 1 \in Nat
  BY DEF JobRow
<1>2. x \in JobRow
  BY <1>1 DEF JobRow
<1>3. x.status = row.status /\ x.selection = row.selection /\ x.fence = row.fence + 1
  BY DEF JobRow
<1> QED
  BY <1>2, <1>3 DEF Leased

\* start: the claim of the planning lease.
LEMMA StartKeeps ==
  ASSUME Inv, NEW p \in Runner, NEW c \in StartCommand, Start(p, c)
  PROVE  Inv'
<1>1. c.job \in Job /\ c.workbook \in Workbook
  OBVIOUS
<1>2. jobs[c.job] \in JobRow
  BY <1>1 DEF Inv, TypeOK, RepositoryTypeOK
<1>3. CASE jobs[c.job].status = "absent"
  <2> DEFINE new == [NoJob EXCEPT !.status = "planning", !.workbook = c.workbook]
  <2>1. new \in JobRow /\ new.status = "planning" /\ new.selection = None /\ new.fence = 0
    BY <1>1 DEF NoJob, NoProgress, JobRow, Status, Progress
  <2>2. jobs' = [jobs EXCEPT ![c.job] = Leased(new)] /\ UNCHANGED bundles
    BY <1>3 DEF Start, ClaimPlanning
  <2>3. jobs[c.job].fence = 0
    BY <1>1, <1>3 DEF Inv, Rows, NoJob
  <2> HIDE DEF new
  <2>4. /\ Leased(new) \in JobRow /\ Leased(new).status = "planning"
        /\ Leased(new).selection = None
        /\ Leased(new).fence = jobs[c.job].fence + 1
    BY <2>1, <2>3, LeasedRow
  <2> QED
    BY <1>1, <2>2, <2>4, ClaimKeeps DEF Start
<1>4. CASE jobs[c.job].status = "planning"
  <2>1. jobs' = [jobs EXCEPT ![c.job] = Leased(jobs[c.job])] /\ UNCHANGED bundles
    BY <1>4 DEF Start, ClaimPlanning
  <2>2. jobs[c.job].selection = None
    BY <1>1, <1>4 DEF Inv, Rows
  <2>3. /\ Leased(jobs[c.job]) \in JobRow /\ Leased(jobs[c.job]).status = "planning"
        /\ Leased(jobs[c.job]).selection = None
        /\ Leased(jobs[c.job]).fence = jobs[c.job].fence + 1
    BY <1>2, <1>4, <2>2, LeasedRow
  <2> QED
    BY <1>1, <2>1, <2>3, ClaimKeeps DEF Start
<1> QED
  BY <1>3, <1>4 DEF Start, ClaimPlanning

\* select_scope: the claim of the execution lease.
LEMMA SelectScopeKeeps ==
  ASSUME Inv, NEW p \in Runner, NEW c \in ScopeCommand, SelectScope(p, c)
  PROVE  Inv'
<1>1. c.job \in Job /\ c.key \in ExecutionKey /\ c.selection \in Selection
  OBVIOUS
<1>2. jobs[c.job] \in JobRow
  BY <1>1 DEF Inv, TypeOK, RepositoryTypeOK
<1>3. CASE jobs[c.job].status = "awaiting_scope"
  <2> DEFINE new == [jobs[c.job] EXCEPT !.status = "preparing", !.key = c.key,
                       !.selection = c.selection,
                       !.progress = ProgressOf(c.selection, {})]
  <2>1. ProgressOf(c.selection, {}) \in Progress
    BY <1>1, ProgressType
  <2>2. /\ new \in JobRow /\ new.status = "preparing" /\ new.selection = c.selection
        /\ new.fence = jobs[c.job].fence
    BY <1>1, <1>2, <2>1 DEF JobRow, Status
  <2>3. jobs' = [jobs EXCEPT ![c.job] = Leased(new)] /\ UNCHANGED bundles
    BY <1>3 DEF SelectScope, ClaimExecution
  <2> HIDE DEF new
  <2>4. /\ Leased(new) \in JobRow /\ Leased(new).status = "preparing"
        /\ Leased(new).selection = c.selection
        /\ Leased(new).fence = jobs[c.job].fence + 1
    BY <2>2, LeasedRow
  <2> QED
    BY <1>1, <2>3, <2>4, ClaimKeeps DEF SelectScope
<1>4. CASE jobs[c.job].status \in {"preparing", "aggregating"}
  <2>1. /\ jobs' = [jobs EXCEPT ![c.job] = Leased(jobs[c.job])] /\ UNCHANGED bundles
        /\ jobs[c.job].selection = c.selection
    BY <1>4 DEF SelectScope, ClaimExecution, SameBinding
  <2>2. /\ Leased(jobs[c.job]) \in JobRow
        /\ Leased(jobs[c.job]).status \in {"preparing", "aggregating"}
        /\ Leased(jobs[c.job]).selection = c.selection
        /\ Leased(jobs[c.job]).fence = jobs[c.job].fence + 1
    BY <1>2, <1>4, <2>1, LeasedRow
  <2> QED
    BY <1>1, <2>1, <2>2, ClaimKeeps DEF SelectScope
<1> QED
  BY <1>3, <1>4 DEF SelectScope, ClaimExecution

\* Time only shortens leases.
LEMMA TickKeeps ==
  ASSUME Inv, Tick
  PROVE  Inv'
<1>1. jobs \in [Job -> JobRow]
  BY DEF Inv, TypeOK, RepositoryTypeOK
<1>2. /\ jobs' \in [Job -> JobRow]
      /\ \A j \in Job :
           /\ jobs'[j].status = jobs[j].status
           /\ jobs'[j].progress = jobs[j].progress
           /\ jobs'[j].selection = jobs[j].selection
           /\ jobs'[j].fence = jobs[j].fence
           /\ jobs'[j].leased = jobs[j].leased
           /\ jobs'[j].left > 0 => jobs[j].left > 0
  BY <1>1 DEF Tick, JobRow
<1>3. UNCHANGED <<bundles, runner, lock, staging, store>>
  BY DEF Tick
<1>4. \A j \in Job : jobs[j] = NoJob => jobs'[j] = NoJob
  <2>1. \A r \in JobRow : [r EXCEPT !.left = r.left] = r
    BY DEF JobRow
  <2>2. NoJob.left = 0
    BY DEF NoJob
  <2>3. \A j \in Job : jobs[j].left = 0 => jobs'[j] = [jobs[j] EXCEPT !.left = 0]
    BY DEF Tick
  <2> QED
    BY <1>1, <2>1, <2>2, <2>3
<1>5. TypeOK' /\ Shapes' /\ Pools' /\ Locks'
  BY <1>2, <1>3 DEF Inv, TypeOK, RepositoryTypeOK, Shapes, Pools, Locks
<1>6. Rows'
  BY <1>2, <1>4 DEF Inv, Rows
<1>7. \A q \in Runner : runner[q].pc # "idle" => runner[q].job \in Job
  BY DEF Inv, Shapes, ShapeOK
<1>8. Claims'
  BY <1>2, <1>3, <1>7 DEF Inv, Claims
<1>9. RowIsKeepers'
  BY <1>2, <1>3, <1>7 DEF Inv, RowIsKeepers, Owns, HoldsLease
<1> QED
  BY <1>5, <1>6, <1>8, <1>9 DEF Inv

-----------------------------------------------------------------------------
(* Kinds of steps.                                                          *)

\* A call that has returned is well formed.
LEMMA IdleOK == Idle \in RunnerState /\ ShapeOK(Idle) /\ PoolOK(Idle)
<1>1. NoProgress \in Progress
  BY DEF NoProgress, Progress
<1>2. Idle \in RunnerState
  BY <1>1 DEF Idle, RunnerState, ProgramCounter, Status
<1> QED
  BY <1>2 DEF Idle, ShapeOK, PoolOK, Executing, BeforePool

\* A step that only moves a call on, and may write staging or the store.
LEMMA GotoKeeps ==
  ASSUME Inv, NEW p \in Runner, runner[p].pc # "idle",
         NEW pc \in ProgramCounter \ {"idle"}, Goto(p, pc),
         pc \in BeforePool => runner[p].pc \in BeforePool,
         pc \in {"prepare", "drain"} \/ runner[p].running = {},
         pc \in Executing => runner[p].pc \in Executing,
         pc \in {"store", "publish_bundle"} => runner[p].copy \in Snapshot,
         Locked(pc) => Locked(runner[p].pc),
         UNCHANGED <<rows, lock>>,
         staging' \in [Job -> Staging],
         store' \in SUBSET Snapshot
  PROVE  Inv'
<1> DEFINE x == [runner[p] EXCEPT !.pc = pc]
<1>1. /\ runner[p] \in RunnerState /\ ShapeOK(runner[p]) /\ PoolOK(runner[p])
      /\ runner \in [Runner -> RunnerState]
  BY Underway DEF Inv, TypeOK
<1>2. x \in RunnerState
  BY <1>1 DEF RunnerState
<1>3. runner' = [runner EXCEPT ![p] = x]
  BY <1>1 DEF Goto
<1>4. /\ x.pc = pc /\ x.job = runner[p].job /\ x.fence = runner[p].fence
      /\ x.status = runner[p].status /\ x.progress = runner[p].progress
      /\ x.selection = runner[p].selection /\ x.copy = runner[p].copy
      /\ x.queued = runner[p].queued /\ x.running = runner[p].running
      /\ x.ready = runner[p].ready /\ x.done = runner[p].done
  BY <1>1 DEF RunnerState
<1> HIDE DEF x
<1>5. ShapeOK(x)
  BY <1>1, <1>4 DEF ShapeOK
<1>6. PoolOK(x)
  BY <1>1, <1>4 DEF PoolOK
<1> QED
  BY <1>2, <1>3, <1>4, <1>5, <1>6, QuietKeeps

\* The end of a job by its owner: nobody owns it any more.
LEMMA EndKeeps ==
  ASSUME Inv, NEW p \in Runner, runner[p].pc # "idle",
         NEW status \in {"awaiting_scope", "published", "failed"},
         NEW progress \in Progress,
         HoldsLease(runner[p].job, runner[p].fence),
         jobs' = [jobs EXCEPT ![runner[p].job] =
           Released([@ EXCEPT !.status = status, !.progress = progress])],
         bundles' \in [Job -> Snapshot \cup {None}],
         NEW x \in RunnerState, runner' = [runner EXCEPT ![p] = x],
         ShapeOK(x), PoolOK(x),
         x.pc # "idle" => x.job = runner[p].job /\ x.fence = runner[p].fence,
         Locked(x.pc) => Locked(runner[p].pc),
         UNCHANGED <<lock, staging, store>>
  PROVE  Inv'
<1> DEFINE j == runner[p].job
           row == [[jobs[j] EXCEPT !.status = status, !.progress = progress]
                     EXCEPT !.leased = FALSE, !.left = 0]
<1>1. j \in Job /\ jobs[j] \in JobRow /\ jobs \in [Job -> JobRow]
  BY Underway DEF Inv, TypeOK, RepositoryTypeOK
<1>2. jobs' = [jobs EXCEPT ![j] = row]
  BY <1>1 DEF Released
<1>3. row \in JobRow
  BY <1>1 DEF JobRow, Status
<1>4. row.status = status /\ row.fence = jobs[j].fence /\ row.leased = FALSE
  BY <1>1 DEF JobRow
<1> HIDE DEF row
<1>5. RepositoryTypeOK'
  BY <1>1, <1>2, <1>3 DEF RepositoryTypeOK
<1>6. \A i \in Job : jobs'[i] # jobs[i] =>
        /\ i = j /\ HoldsLease(i, runner[p].fence)
        /\ jobs'[i].fence = jobs[i].fence
        /\ jobs'[i].status # "absent" /\ jobs'[i].status # "planning"
  BY <1>1, <1>2, <1>4
<1>7. ~ (x.pc # "idle" /\ HoldsLease(x.job, x.fence)')
  BY <1>1, <1>2, <1>4 DEF HoldsLease
<1>8. Locked(x.pc) => lock'[x.job] = p
  BY Underway DEF Locked
<1>9. /\ lock' \in [Job -> Runner \cup {None}]
      /\ staging' \in [Job -> Staging] /\ store' \in SUBSET Snapshot
  BY DEF Inv, TypeOK
<1> QED
  BY <1>5, <1>6, <1>7, <1>8, <1>9, StepKeeps

\* A step of a call that gives up the lock file, or never had it.
LEMMA LetGoKeeps ==
  ASSUME Inv, NEW p \in Runner, runner[p].pc # "idle",
         NEW x \in RunnerState, runner' = [runner EXCEPT ![p] = x],
         ShapeOK(x), PoolOK(x), ~ Locked(x.pc),
         x.pc # "idle" =>
           /\ x.job = runner[p].job /\ x.fence = runner[p].fence
           /\ x.status = runner[p].status /\ x.progress = runner[p].progress
           /\ x.selection = runner[p].selection,
         lock' \in [Job -> Runner \cup {None}],
         \A j \in Job : lock[j] # p => lock'[j] = lock[j],
         UNCHANGED <<rows, staging, store>>
  PROVE  Inv'
<1>1. UNCHANGED <<jobs, bundles>>
  BY DEF rows
<1>2. /\ RepositoryTypeOK'
      /\ staging' \in [Job -> Staging] /\ store' \in SUBSET Snapshot
  BY <1>1 DEF Inv, TypeOK, RepositoryTypeOK
<1>3. \A q \in Runner \ {p} : Locked(runner[q].pc) =>
        lock'[runner[q].job] = lock[runner[q].job]
  <2> SUFFICES ASSUME NEW q \in Runner \ {p}, Locked(runner[q].pc)
               PROVE  lock'[runner[q].job] = lock[runner[q].job]
    OBVIOUS
  <2>1. runner[q].job \in Job /\ lock[runner[q].job] = q
    BY Underway DEF Locked
  <2> QED
    BY <2>1
<1>4. (x.pc # "idle" /\ HoldsLease(x.job, x.fence)') =>
        /\ jobs'[x.job].status = x.status
        /\ jobs'[x.job].progress = x.progress
        /\ jobs'[x.job].selection = x.selection
  BY <1>1, Underway DEF HoldsLease
<1> QED
  BY <1>1, <1>2, <1>3, <1>4, StepKeeps

-----------------------------------------------------------------------------
(* The steps of a call: its lease and its lock.                             *)

\* The row of an owned job is in one of the states that are executed.
LEMMA OwnedStatus ==
  ASSUME Inv, NEW p \in Runner, runner[p].pc # "idle",
         HoldsLease(runner[p].job, runner[p].fence)
  PROVE  /\ runner[p].status \in {"planning", "preparing", "aggregating"}
         /\ runner[p].progress \in Progress
BY Underway DEF HoldsLease, RunnerState

\* The checkpoint on entry and the heartbeat write what the keeper remembers.
LEMMA RenewKeeps ==
  ASSUME Inv, NEW p \in Runner, runner[p].pc # "idle",
         NEW next \in RunnerState, next.pc # "idle", ShapeOK(next), PoolOK(next),
         next.job = runner[p].job, next.fence = runner[p].fence,
         next.selection = runner[p].selection,
         next.status = runner[p].status, next.progress = runner[p].progress,
         Locked(next.pc) => Locked(runner[p].pc),
         KeeperCheckpoint(p, runner[p].status, runner[p].progress, next),
         UNCHANGED <<lock, staging, store>>
  PROVE  Inv'
<1>1. HoldsLease(runner[p].job, runner[p].fence)
  BY DEF KeeperCheckpoint, Checkpoint
<1>2. /\ runner[p].status \in {"planning", "preparing", "aggregating"}
      /\ runner[p].progress \in Progress
  BY <1>1, OwnedStatus
<1>3. [next EXCEPT !.status = runner[p].status, !.progress = runner[p].progress] = next
  BY DEF RunnerState
<1> QED
  BY <1>2, <1>3, CheckpointKeeps

\* The steps around the lease and the lock file keep the invariant.
LEMMA LeaseStepsKeep ==
  ASSUME Inv, NEW p \in Runner
  PROVE  /\ EnterLease(p) => Inv'
         /\ Heartbeat(p) => Inv'
         /\ HeartbeatFails(p) => Inv'
         /\ AcquireLock(p) => Inv'
         /\ GiveUpLock(p) => Inv'
         /\ LockFails(p) => Inv'
         /\ Unlock(p) => Inv'
         /\ FailQuietly(p) => Inv'
         /\ WorkFails(p) => Inv'
         /\ Crash(p) => Inv'
<1> USE IdleOK
<1>1. /\ runner[p] \in RunnerState /\ runner \in [Runner -> RunnerState]
      /\ ShapeOK(runner[p]) /\ PoolOK(runner[p])
      /\ lock \in [Job -> Runner \cup {None}]
      /\ staging \in [Job -> Staging] /\ store \in SUBSET Snapshot
  BY DEF Inv, TypeOK, Shapes, Pools
<1>2. ASSUME EnterLease(p) PROVE Inv'
  <2>1. CASE KeeperCheckpoint(p, runner[p].status, runner[p].progress,
                              [runner[p] EXCEPT !.pc = "lock"])
    <3> DEFINE x == [runner[p] EXCEPT !.pc = "lock"]
    <3>1. runner[p].pc = "enter" /\ UNCHANGED <<lock, staging, store>>
      BY <1>2 DEF EnterLease
    <3>2. /\ x \in RunnerState /\ x.pc = "lock"
          /\ x.job = runner[p].job /\ x.fence = runner[p].fence
          /\ x.selection = runner[p].selection /\ x.status = runner[p].status
          /\ x.progress = runner[p].progress
          /\ x.queued = runner[p].queued /\ x.running = runner[p].running
          /\ x.ready = runner[p].ready /\ x.done = runner[p].done
      BY <1>1 DEF RunnerState, ProgramCounter
    <3>3. KeeperCheckpoint(p, runner[p].status, runner[p].progress, x)
      BY <2>1
    <3> HIDE DEF x
    <3>4. ShapeOK(x) /\ PoolOK(x) /\ ~ Locked(x.pc)
      BY <1>1, <3>1, <3>2 DEF ShapeOK, PoolOK, Executing, BeforePool, Locked
    <3> QED
      BY <3>1, <3>2, <3>3, <3>4, RenewKeeps
  <2>2. CASE KeeperFails(p)
    BY <1>2, <2>2, KeeperFailsKeeps DEF EnterLease
  <2> QED
    BY <1>2, <2>1, <2>2 DEF EnterLease
<1>3. ASSUME NEW latch \in {"lost", "unavailable"},
             runner[p].pc # "idle", runner' = [runner EXCEPT ![p].latch = latch],
             UNCHANGED <<rows, lock, staging, store>>
      PROVE  Inv'
  <2> DEFINE x == [runner[p] EXCEPT !.latch = latch]
  <2>1. /\ x \in RunnerState /\ x.pc = runner[p].pc
        /\ x.job = runner[p].job /\ x.fence = runner[p].fence
        /\ x.selection = runner[p].selection /\ x.status = runner[p].status
        /\ x.progress = runner[p].progress /\ x.copy = runner[p].copy
        /\ x.queued = runner[p].queued /\ x.running = runner[p].running
        /\ x.ready = runner[p].ready /\ x.done = runner[p].done
    BY <1>1 DEF RunnerState
  <2>2. runner' = [runner EXCEPT ![p] = x]
    BY <1>1, <1>3
  <2> HIDE DEF x
  <2>3. ShapeOK(x) /\ PoolOK(x)
    BY <1>1, <2>1 DEF ShapeOK, PoolOK
  <2>4. UNCHANGED <<rows, lock>> /\ staging' \in [Job -> Staging] /\ store' \in SUBSET Snapshot
    BY <1>1, <1>3
  <2> QED
    BY <1>3, <2>1, <2>2, <2>3, <2>4, QuietKeeps
<1>4. ASSUME Heartbeat(p) PROVE Inv'
  BY <1>1, <1>3, <1>4, RenewKeeps DEF Heartbeat
<1>5. ASSUME HeartbeatFails(p) PROVE Inv'
  BY <1>3, <1>5 DEF HeartbeatFails
<1>6. ASSUME AcquireLock(p) PROVE Inv'
  <2> DEFINE pc == IF runner[p].status = "planning" THEN "materialize" ELSE "existing"
             j == runner[p].job
  <2>0. PICK x : x = [runner[p] EXCEPT !.pc = pc]
    OBVIOUS
  <2>1. /\ runner[p].pc = "lock" /\ lock[j] = None
        /\ lock' = [lock EXCEPT ![j] = p]
        /\ UNCHANGED <<rows, staging, store>>
        /\ runner' = [runner EXCEPT ![p] = x]
    BY <1>1, <1>6, <2>0 DEF AcquireLock, LockFree, Goto
  <2>2. /\ x \in RunnerState /\ x.pc = pc /\ pc \in {"materialize", "existing"}
        /\ x.job = runner[p].job /\ x.fence = runner[p].fence
        /\ x.selection = runner[p].selection /\ x.status = runner[p].status
        /\ x.progress = runner[p].progress /\ x.copy = runner[p].copy
        /\ x.queued = runner[p].queued /\ x.running = runner[p].running
        /\ x.ready = runner[p].ready /\ x.done = runner[p].done
    BY <1>1, <2>0 DEF RunnerState, ProgramCounter
  <2>3. ShapeOK(x)
    BY <1>1, <2>1, <2>2 DEF ShapeOK, Executing
  <2>4. PoolOK(x)
    BY <1>1, <2>1, <2>2 DEF PoolOK, BeforePool
  <2>5. j \in Job
    BY <2>1, Underway
  <2>6. lock'[x.job] = p /\ lock' \in [Job -> Runner \cup {None}]
    BY <1>1, <2>1, <2>2, <2>5
  <2>7. \A q \in Runner \ {p} : Locked(runner[q].pc) =>
          lock'[runner[q].job] = lock[runner[q].job]
    <3> SUFFICES ASSUME NEW q \in Runner \ {p}, Locked(runner[q].pc)
                 PROVE  lock'[runner[q].job] = lock[runner[q].job]
      OBVIOUS
    <3>1. runner[q].job \in Job /\ lock[runner[q].job] = q
      BY Underway DEF Locked
    <3> QED
      BY <1>1, <2>1, <2>5, <3>1
  <2>8. UNCHANGED <<jobs, bundles>>
    BY <2>1 DEF rows
  <2>9. RepositoryTypeOK' /\ staging' \in [Job -> Staging] /\ store' \in SUBSET Snapshot
    BY <1>1, <2>1, <2>8 DEF Inv, TypeOK, RepositoryTypeOK
  <2> HIDE DEF pc
  <2>10. HoldsLease(x.job, x.fence)' =>
           /\ jobs'[x.job].status = x.status
           /\ jobs'[x.job].progress = x.progress
           /\ jobs'[x.job].selection = x.selection
    BY <2>1, <2>2, <2>8, Underway DEF HoldsLease
  <2> QED
    BY <2>1, <2>2, <2>3, <2>4, <2>6, <2>7, <2>8, <2>9, <2>10, StepKeeps
<1>7. ASSUME GiveUpLock(p) PROVE Inv'
  <2>1. /\ runner[p].pc = "lock" /\ Goto(p, "fail")
        /\ UNCHANGED <<rows, lock, staging, store>>
    BY <1>7 DEF GiveUpLock
  <2>2. runner[p].running = {}
    BY <1>1, <2>1 DEF PoolOK
  <2> QED
    BY <1>1, <2>1, <2>2, GotoKeeps DEF ProgramCounter, BeforePool, Executing, Locked
<1>8. ASSUME NEW x \in {Idle, [runner[p] EXCEPT !.pc = "fail"]},
             runner[p].pc # "idle",
             x # Idle => runner[p].running = {},
             runner' = [runner EXCEPT ![p] = x],
             lock' \in [Job -> Runner \cup {None}],
             \A j \in Job : lock[j] # p => lock'[j] = lock[j],
             UNCHANGED <<rows, staging, store>>
      PROVE  Inv'
  <2>1. CASE x = Idle
    BY <1>8, <2>1, LetGoKeeps DEF Idle, Locked
  <2>2. CASE x # Idle
    <3>1. /\ x \in RunnerState /\ x.pc = "fail"
          /\ x.job = runner[p].job /\ x.fence = runner[p].fence
          /\ x.selection = runner[p].selection /\ x.status = runner[p].status
          /\ x.progress = runner[p].progress /\ x.copy = runner[p].copy
          /\ x.queued = runner[p].queued /\ x.running = runner[p].running
          /\ x.ready = runner[p].ready /\ x.done = runner[p].done
      BY <1>1, <1>8, <2>2 DEF RunnerState, ProgramCounter
    <3>2. ShapeOK(x) /\ PoolOK(x)
      BY <1>1, <1>8, <2>2, <3>1 DEF ShapeOK, PoolOK, Executing, BeforePool
    <3> QED
      BY <1>8, <3>1, <3>2, LetGoKeeps DEF Locked
  <2> QED
    BY <2>1, <2>2
<1>9. ASSUME Unlock(p) PROVE Inv'
  <2> DEFINE x == IF runner[p].latch = "finalized" THEN Idle
                  ELSE [runner[p] EXCEPT !.pc = "fail"]
  <2>1. /\ runner[p].pc = "unlock" /\ runner' = [runner EXCEPT ![p] = x]
        /\ lock' = [lock EXCEPT ![runner[p].job] = None]
        /\ UNCHANGED <<rows, staging, store>>
    BY <1>9 DEF Unlock
  <2>2. runner[p].job \in Job /\ lock[runner[p].job] = p
    BY <2>1, Underway DEF Locked
  <2>3. runner[p].running = {}
    BY <1>1, <2>1 DEF PoolOK
  <2>4. /\ lock' \in [Job -> Runner \cup {None}]
        /\ \A j \in Job : lock[j] # p => lock'[j] = lock[j]
    BY <1>1, <2>1, <2>2
  <2> QED
    BY <2>1, <2>3, <2>4, <1>8
<1>10. ASSUME Crash(p) PROVE Inv'
  <2>1. /\ lock' \in [Job -> Runner \cup {None}]
        /\ \A j \in Job : lock[j] # p => lock'[j] = lock[j]
    BY <1>1, <1>10 DEF Crash, LocksAfterDeath
  <2> QED
    BY <2>1, <1>8, <1>10 DEF Crash
<1>11. ASSUME FailQuietly(p) PROVE Inv'
  <2>1. /\ runner[p].pc = "fail" /\ runner' = [runner EXCEPT ![p] = Idle]
        /\ UNCHANGED <<lock, staging, store>>
    BY <1>11 DEF FailQuietly
  <2>2. CASE UNCHANGED rows
    BY <1>1, <1>8, <2>1, <2>2
  <2>3. CASE Fail(runner[p].job, runner[p].fence, runner[p].stage)
    <3> DEFINE row == jobs[runner[p].job]
    <3>1. row \in JobRow /\ row.progress \in Progress
      BY <2>1, Underway DEF JobRow
    <3>2. [row EXCEPT !.status = "failed"]
            = [row EXCEPT !.status = "failed", !.progress = row.progress]
      BY <3>1 DEF JobRow
    <3>3. runner[p].job \in Job /\ jobs \in [Job -> JobRow]
      BY <2>1, Underway DEF Inv, TypeOK, RepositoryTypeOK
    <3>4. jobs' = [jobs EXCEPT ![runner[p].job] =
            Released([@ EXCEPT !.status = "failed", !.progress = row.progress])]
      BY <2>3, <3>2, <3>3 DEF Fail
    <3>5. HoldsLease(runner[p].job, runner[p].fence)
      BY <2>3 DEF Fail, CanFail
    <3>6. bundles' \in [Job -> Snapshot \cup {None}]
      BY <2>3 DEF Fail, Inv, TypeOK, RepositoryTypeOK
    <3>7. Idle.pc = "idle" /\ ~ Locked(Idle.pc)
      BY DEF Idle, Locked
    <3> HIDE DEF row
    <3> QED
      BY <2>1, <3>1, <3>4, <3>5, <3>6, <3>7, EndKeeps
  <2> QED
    BY <1>11, <2>2, <2>3 DEF FailQuietly
<1>12. ASSUME WorkFails(p) PROVE Inv'
  <2>1. runner[p].latch \in {"ok", "lost", "unavailable", "finalized"}
    BY <1>1 DEF RunnerState
  <2> QED
    BY <1>12, <2>1, RaiseKeeps DEF WorkFails
<1>13. ASSUME LockFails(p) PROVE Inv'
  <2>1. runner[p].latch \in {"ok", "lost", "unavailable", "finalized"}
    BY <1>1 DEF RunnerState
  <2> QED
    BY <1>13, <2>1, RaiseKeeps DEF LockFails
<1> QED
  BY <1>2, <1>4, <1>5, <1>6, <1>7, <1>9, <1>10, <1>11, <1>12, <1>13

-----------------------------------------------------------------------------
(* The steps of a call: planning.                                           *)

\* A terminal transition that goes through leaves the call at the lock.
LEMMA FinalizedKeeps ==
  ASSUME Inv, NEW p \in Runner,
         runner[p].pc \in {"publish_plan", "publish_bundle"},
         NEW status \in {"awaiting_scope", "published", "failed"},
         NEW progress \in Progress,
         HoldsLease(runner[p].job, runner[p].fence),
         jobs' = [jobs EXCEPT ![runner[p].job] =
           Released([@ EXCEPT !.status = status, !.progress = progress])],
         bundles' \in [Job -> Snapshot \cup {None}],
         Finalized(p),
         UNCHANGED <<lock, staging, store>>
  PROVE  Inv'
<1>1. /\ runner[p] \in RunnerState /\ runner \in [Runner -> RunnerState]
      /\ ShapeOK(runner[p]) /\ PoolOK(runner[p])
  BY Underway DEF Inv, TypeOK
<1>2. PICK x : x = [runner[p] EXCEPT !.pc = "unlock", !.latch = "finalized"]
  OBVIOUS
<1>3. /\ x \in RunnerState /\ x.pc = "unlock"
      /\ x.job = runner[p].job /\ x.fence = runner[p].fence
      /\ x.selection = runner[p].selection /\ x.status = runner[p].status
      /\ x.queued = runner[p].queued /\ x.running = runner[p].running
      /\ x.ready = runner[p].ready /\ x.done = runner[p].done
  BY <1>1, <1>2, ZenonT(60) DEF RunnerState, ProgramCounter
<1>4. ShapeOK(x) /\ PoolOK(x)
  BY <1>1, <1>3 DEF ShapeOK, PoolOK, Executing, BeforePool
<1>5. runner' = [runner EXCEPT ![p] = x]
  BY <1>1, <1>2 DEF Finalized
<1>6. runner[p].pc # "idle" /\ Locked(runner[p].pc)
  BY DEF Locked
<1> QED
  BY <1>3, <1>4, <1>5, <1>6, EndKeeps

\* The steps of _run_planning keep the invariant.
LEMMA PlanningStepsKeep ==
  ASSUME Inv, NEW p \in Runner, PlanningStep(p)
  PROVE  Inv'
<1>1. /\ runner[p] \in RunnerState /\ runner \in [Runner -> RunnerState]
      /\ ShapeOK(runner[p]) /\ PoolOK(runner[p])
      /\ staging \in [Job -> Staging] /\ store \in SUBSET Snapshot
  BY DEF Inv, TypeOK, Shapes, Pools
<1>2. runner[p].pc \notin {"idle", "prepare", "drain", "fail"} /\ Locked(runner[p].pc)
  BY DEF PlanningStep, Materialize, Convert, MarkPlanning, PlanScopes, FinalizePlan, Locked
<1>3. runner[p].running = {} /\ runner[p].job \in Job
  BY <1>1, <1>2, Underway DEF PoolOK
<1>4. ASSUME NEW pc \in {"mark_source", "mark_package", "publish_plan"}, Goto(p, pc),
             UNCHANGED <<rows, lock>>, staging' \in [Job -> Staging],
             store' \in SUBSET Snapshot
      PROVE  Inv'
  BY <1>1, <1>2, <1>3, <1>4, GotoKeeps
  DEF ProgramCounter, BeforePool, Executing, Locked
<1>5. CASE Materialize(p)
  <2>1. staging' \in [Job -> Staging]
    BY <1>1, <1>3, <1>5, ZenonT(60) DEF Materialize, Staging
  <2> QED
    BY <1>1, <1>4, <1>5, <2>1 DEF Materialize
<1>6. CASE Convert(p)
  <2>1. staging' \in [Job -> Staging]
    BY <1>1, <1>3, <1>6, ZenonT(60) DEF Convert, Staging
  <2> QED
    BY <1>1, <1>4, <1>6, <2>1 DEF Convert
<1>7. CASE PlanScopes(p)
  BY <1>1, <1>4, <1>7 DEF PlanScopes
<1>8. CASE MarkPlanning(p)
  <2>1. CASE KeeperCheckpoint(p, "planning", NoProgress,
          [runner[p] EXCEPT !.pc = IF @ = "mark_source" THEN "convert" ELSE "plan"])
    <3>1. PICK x : x = [runner[p] EXCEPT !.pc = IF @ = "mark_source" THEN "convert" ELSE "plan"]
      OBVIOUS
    <3>2. /\ x \in RunnerState /\ x.pc \in {"convert", "plan"}
          /\ x.job = runner[p].job /\ x.fence = runner[p].fence
          /\ x.selection = runner[p].selection
          /\ x.queued = runner[p].queued /\ x.running = runner[p].running
          /\ x.ready = runner[p].ready /\ x.done = runner[p].done
      BY <1>1, <3>1 DEF RunnerState, ProgramCounter
    <3>3. NoProgress \in Progress
      BY DEF NoProgress, Progress
    <3>4. PICK y : y = [x EXCEPT !.status = "planning", !.progress = NoProgress]
      OBVIOUS
    <3>5. y.pc = x.pc /\ y.job = x.job /\ y.status = "planning"
      BY <3>2, <3>4 DEF RunnerState
    <3>6. ShapeOK(y)
      BY <1>3, <3>2, <3>5 DEF ShapeOK, Executing
    <3>7. PoolOK(x)
      BY <1>1, <1>3, <1>8, <3>2 DEF PoolOK, BeforePool, MarkPlanning
    <3>8. KeeperCheckpoint(p, "planning", NoProgress, x)
      BY <2>1, <3>1
    <3>9. UNCHANGED <<lock, staging, store>>
      BY <1>8 DEF MarkPlanning
    <3> QED
      BY <1>2, <3>2, <3>3, <3>4, <3>6, <3>7, <3>8, <3>9, CheckpointKeeps
  <2>2. CASE KeeperFails(p)
    BY <1>2, <1>8, <2>2, KeeperFailsKeeps DEF MarkPlanning
  <2> QED
    BY <1>8, <2>1, <2>2, SMTT(30) DEF MarkPlanning
<1>9. CASE FinalizePlan(p)
  <2>1. CASE PublishPlan(runner[p].job, runner[p].fence) /\ Finalized(p)
    <3>1. NoProgress \in Progress
      BY DEF NoProgress, Progress
    <3>2. bundles' \in [Job -> Snapshot \cup {None}]
      BY <2>1 DEF PublishPlan, Inv, TypeOK, RepositoryTypeOK
    <3> QED
      BY <1>9, <2>1, <3>1, <3>2, FinalizedKeeps DEF FinalizePlan, PublishPlan
  <2>2. CASE KeeperFails(p)
    BY <1>2, <1>9, <2>2, KeeperFailsKeeps DEF FinalizePlan
  <2> QED
    BY <1>9, <2>1, <2>2 DEF FinalizePlan
<1> QED
  BY <1>5, <1>6, <1>7, <1>8, <1>9 DEF PlanningStep

-----------------------------------------------------------------------------
(* The steps of a call: the thread pool.                                    *)

\* A step of a call in its thread pool that changes no row and keeps the
\* command of the call.
LEMMA PoolKeeps ==
  ASSUME Inv, NEW p \in Runner,
         runner[p].pc \in {"existing", "prepare", "drain"},
         NEW x \in RunnerState, runner' = [runner EXCEPT ![p] = x],
         x.pc \in {"prepare", "drain", "gate"},
         x.job = runner[p].job, x.fence = runner[p].fence,
         x.selection = runner[p].selection, x.status = runner[p].status,
         x.progress = runner[p].progress,
         PoolOK(x),
         UNCHANGED <<rows, lock, store>>,
         staging' \in [Job -> Staging]
  PROVE  Inv'
<1>1. /\ runner[p] \in RunnerState /\ ShapeOK(runner[p])
      /\ store' \in SUBSET Snapshot
      /\ runner[p].pc # "idle" /\ Locked(runner[p].pc)
  BY DEF Inv, TypeOK, Shapes, Locked
<1>2. ShapeOK(x)
  BY <1>1 DEF ShapeOK, Executing
<1>3. UNCHANGED <<rows, lock>> /\ x.pc # "idle"
  OBVIOUS
<1> QED
  BY <1>1, <1>2, <1>3, QuietKeeps

\* The steps of the preparation threads keep the invariant.
LEMMA ThreadStepsKeep ==
  ASSUME Inv, NEW p \in Runner, NEW s \in Sheet \cup {Whole},
         PrepareBegin(p, s) \/ PrepareEnd(p, s) \/ PrepareFails(p, s)
  PROVE  Inv'
<1> DEFINE r == runner[p]
<1>1. /\ r \in RunnerState /\ runner \in [Runner -> RunnerState] /\ PoolOK(r)
      /\ staging \in [Job -> Staging]
  BY DEF Inv, TypeOK, Pools
<1>2. r.pc \in {"prepare", "drain"}
  BY <1>1 DEF PoolOK, PrepareBegin, PrepareEnd, PrepareFails
<1>3. r.job \in Job
  BY <1>2, Underway
<1>4. CASE PrepareBegin(p, s)
  <2>1. PICK x : x = [r EXCEPT !.queued = r.queued \ {s}, !.running = r.running \cup {s},
                        !.ready = r.ready, !.broken = r.broken]
    OBVIOUS
  <2>2. /\ x \in RunnerState /\ x.pc = r.pc
        /\ x.job = r.job /\ x.fence = r.fence /\ x.selection = r.selection
        /\ x.status = r.status /\ x.progress = r.progress
        /\ x.queued = r.queued \ {s} /\ x.running = r.running \cup {s} /\ x.ready = r.ready /\ x.done = r.done
    BY <1>1, <2>1 DEF RunnerState
  <2>3. runner' = [runner EXCEPT ![p] = x]
    BY <1>1, <1>4, <2>1 DEF PrepareBegin, RunnerState
  <2>4. s \in r.queued /\ UNCHANGED <<rows, lock, store>>
    BY <1>4 DEF PrepareBegin
  <2>5. PoolOK(x)
    BY <1>1, <1>2, <2>2, <2>4 DEF PoolOK, BeforePool
  <2>6. staging' \in [Job -> Staging]
    BY <1>1, <1>3, <1>4 DEF PrepareBegin, Staging
  <2> QED
    BY <1>2, <2>2, <2>3, <2>4, <2>5, <2>6, PoolKeeps
<1>5. CASE PrepareEnd(p, s)
  <2>1. PICK x : x = [r EXCEPT !.queued = r.queued, !.running = r.running \ {s},
                        !.ready = r.ready \cup {s}, !.broken = r.broken]
    OBVIOUS
  <2>2. /\ x \in RunnerState /\ x.pc = r.pc
        /\ x.job = r.job /\ x.fence = r.fence /\ x.selection = r.selection
        /\ x.status = r.status /\ x.progress = r.progress
        /\ x.queued = r.queued /\ x.running = r.running \ {s} /\ x.ready = r.ready \cup {s} /\ x.done = r.done
    BY <1>1, <2>1 DEF RunnerState
  <2>3. runner' = [runner EXCEPT ![p] = x]
    BY <1>1, <1>5, <2>1 DEF PrepareEnd, RunnerState
  <2>4. s \in r.running /\ UNCHANGED <<rows, lock, store>>
    BY <1>5 DEF PrepareEnd
  <2>5. PoolOK(x)
    BY <1>1, <1>2, <2>2, <2>4 DEF PoolOK, BeforePool
  <2>6. staging' \in [Job -> Staging]
    BY <1>1, <1>3, <1>5 DEF PrepareEnd, Staging
  <2> QED
    BY <1>2, <2>2, <2>3, <2>4, <2>5, <2>6, PoolKeeps
<1>6. CASE PrepareFails(p, s)
  <2>1. PICK x : x = [r EXCEPT !.queued = r.queued, !.running = r.running \ {s},
                        !.ready = r.ready, !.broken = TRUE]
    OBVIOUS
  <2>2. /\ x \in RunnerState /\ x.pc = r.pc
        /\ x.job = r.job /\ x.fence = r.fence /\ x.selection = r.selection
        /\ x.status = r.status /\ x.progress = r.progress
        /\ x.queued = r.queued /\ x.running = r.running \ {s} /\ x.ready = r.ready /\ x.done = r.done
    BY <1>1, <2>1 DEF RunnerState
  <2>3. runner' = [runner EXCEPT ![p] = x]
    BY <1>1, <1>6, <2>1, ZenonT(60) DEF PrepareFails, RunnerState
  <2>4. s \in r.running /\ UNCHANGED <<rows, lock, store>>
    BY <1>6 DEF PrepareFails
  <2>5. PoolOK(x)
    BY <1>1, <1>2, <2>2, <2>4 DEF PoolOK, BeforePool
  <2>6. staging' \in [Job -> Staging]
    BY <1>1, <1>3, <1>6 DEF PrepareFails, Staging
  <2> QED
    BY <1>2, <2>2, <2>3, <2>4, <2>5, <2>6, PoolKeeps
<1> QED
  BY <1>4, <1>5, <1>6

\* The checkpoints of _run_execution keep the invariant: MarkPreparing fills
\* the queue, Collect takes a ready scope out, MarkAggregating changes neither.
LEMMA MarkKeeps ==
  ASSUME Inv, NEW p \in Runner,
         runner[p].pc \in {"mark_preparing", "prepare", "gate"},
         NEW status \in {"preparing", "aggregating"},
         NEW completed \in SUBSET (Sheet \cup {Whole}),
         NEW next \in RunnerState,
         next.pc \in {"prepare", "gate", "aggregate"}, PoolOK(next),
         next.job = runner[p].job, next.fence = runner[p].fence,
         next.selection = runner[p].selection,
         KeeperCheckpoint(p, status, ProgressOf(runner[p].selection, completed), next),
         UNCHANGED <<lock, staging, store>>
  PROVE  Inv'
<1>1. /\ runner[p] \in RunnerState /\ ShapeOK(runner[p])
      /\ runner[p].pc # "idle" /\ Locked(runner[p].pc) /\ next.pc # "idle"
      /\ runner[p].job \in Job
  BY Underway DEF Locked
<1>2. runner[p].selection \in Selection
  BY <1>1 DEF ShapeOK, Executing
<1>3. PICK progress : progress = ProgressOf(runner[p].selection, completed)
  OBVIOUS
<1>4. progress \in Progress
  BY <1>2, <1>3, ProgressType
<1>5. PICK y : y = [next EXCEPT !.status = status, !.progress = progress]
  OBVIOUS
<1>6. y.pc = next.pc /\ y.job = next.job /\ y.selection = next.selection
  BY <1>5 DEF RunnerState
<1>7. ShapeOK(y)
  BY <1>1, <1>2, <1>6 DEF ShapeOK
<1>8. status \in {"planning", "preparing", "aggregating"}
  OBVIOUS
<1>9. KeeperCheckpoint(p, status, progress, next)
  BY <1>3
<1> QED
  BY <1>1, <1>4, <1>5, <1>7, <1>8, <1>9, CheckpointKeeps

-----------------------------------------------------------------------------
(* The steps of a call: the rest of _run_execution.                         *)

\* The steps of the call that collects what the threads prepare.
LEMMA CollectStepsKeep ==
  ASSUME Inv, NEW p \in Runner,
         \/ ExistingPackage(p) \/ MarkPreparing(p) \/ CollectFailure(p) \/ Drain(p)
         \/ \E s \in Sheet \cup {Whole} : Collect(p, s)
  PROVE  Inv'
<1> DEFINE r == runner[p]
<1>1. /\ r \in RunnerState /\ runner \in [Runner -> RunnerState]
      /\ ShapeOK(r) /\ PoolOK(r) /\ staging \in [Job -> Staging]
      /\ store \in SUBSET Snapshot
  BY DEF Inv, TypeOK, Shapes, Pools
<1>2. r.pc \in {"existing", "mark_preparing", "prepare", "drain"}
  BY DEF ExistingPackage, MarkPreparing, CollectFailure, Drain, Collect
<1>3. r.job \in Job /\ r.selection \in Selection /\ Locked(r.pc)
  BY <1>1, <1>2 DEF ShapeOK, Executing, Locked
<1>4. Scopes(r.selection) \in SUBSET (Sheet \cup {Whole})
  BY <1>3, ScopesType
<1>5. CASE ExistingPackage(p)
  <2>1. /\ r.pc = "existing" /\ UNCHANGED <<rows, lock, staging, store>>
        /\ r.running = {} /\ r.queued = {} /\ r.ready = {}
    BY <1>1, <1>5 DEF ExistingPackage, PoolOK, BeforePool
  <2>2. CASE Goto(p, "mark_preparing")
    BY <1>1, <2>1, <2>2, GotoKeeps
    DEF ProgramCounter, BeforePool, Executing, Locked
  <2>3. CASE runner' = [runner EXCEPT ![p].done = ScopesOf(p), ![p].pc = "gate"]
    <3>1. PICK x : x = [r EXCEPT !.done = ScopesOf(p), !.pc = "gate"]
      OBVIOUS
    <3>2. /\ x \in RunnerState /\ x.pc = "gate"
          /\ x.job = r.job /\ x.fence = r.fence /\ x.selection = r.selection
          /\ x.status = r.status /\ x.progress = r.progress
          /\ x.queued = {} /\ x.running = {} /\ x.ready = {}
      BY <1>1, <1>4, <2>1, <3>1 DEF RunnerState, ProgramCounter, ScopesOf
    <3>3. runner' = [runner EXCEPT ![p] = x]
      BY <1>1, <2>3, <3>1
    <3>4. PoolOK(x)
      BY <3>2 DEF PoolOK, BeforePool
    <3> QED
      BY <1>1, <2>1, <3>2, <3>3, <3>4, PoolKeeps
  <2> QED
    BY <1>5, <2>2, <2>3 DEF ExistingPackage
<1>6. CASE MarkPreparing(p)
  <2>1. r.pc = "mark_preparing" /\ UNCHANGED <<lock, staging, store>>
    BY <1>6 DEF MarkPreparing
  <2>2. CASE KeeperCheckpoint(p, "preparing", ProgressOf(r.selection, {}),
               [r EXCEPT !.pc = "prepare", !.queued = ScopesOf(p)])
    <3>1. PICK x : x = [r EXCEPT !.pc = "prepare", !.queued = ScopesOf(p)]
      OBVIOUS
    <3>2. /\ x \in RunnerState /\ x.pc = "prepare"
          /\ x.job = r.job /\ x.fence = r.fence /\ x.selection = r.selection
          /\ x.queued = Scopes(r.selection)
          /\ x.running = {} /\ x.ready = {} /\ x.done = {}
      BY <1>1, <1>4, <2>1, <3>1, ZenonT(60)
         DEF RunnerState, ProgramCounter, ScopesOf, PoolOK, BeforePool
    <3>3. PoolOK(x)
      BY <3>2 DEF PoolOK, BeforePool
    <3>4. KeeperCheckpoint(p, "preparing", ProgressOf(runner[p].selection, {}), x)
      BY <2>2, <3>1
    <3> QED
      BY <2>1, <3>2, <3>3, <3>4, MarkKeeps
  <2>3. CASE KeeperFails(p)
    BY <2>1, <2>3, KeeperFailsKeeps
  <2> QED
    BY <1>6, <2>2, <2>3 DEF MarkPreparing
<1>7. CASE CollectFailure(p)
  <2>1. runner[p].latch \in {"ok", "lost", "unavailable", "finalized"}
    BY <1>1 DEF RunnerState
  <2> QED
    BY <1>7, <2>1, RaiseKeeps DEF CollectFailure
<1>8. CASE Drain(p)
  <2>1. /\ r.pc = "drain" /\ r.running = {} /\ Goto(p, "unlock")
        /\ UNCHANGED <<rows, lock, staging, store>>
    BY <1>8 DEF Drain, Drained
  <2> QED
    BY <1>1, <2>1, GotoKeeps DEF ProgramCounter, BeforePool, Executing, Locked
<1>9. ASSUME NEW s \in Sheet \cup {Whole}, Collect(p, s) PROVE Inv'
  <2>1. /\ r.pc = "prepare" /\ s \in r.ready /\ UNCHANGED <<lock, staging, store>>
    BY <1>9 DEF Collect
  <2>2. PICK done : done = r.done \cup {s}
    OBVIOUS
  <2>3. done \in SUBSET (Sheet \cup {Whole})
    BY <1>1, <2>2 DEF RunnerState
  <2>4. CASE KeeperCheckpoint(p, "preparing", ProgressOf(r.selection, done),
               [r EXCEPT !.done = done, !.ready = @ \ {s},
                         !.pc = IF done = ScopesOf(p) THEN "gate" ELSE "prepare"])
    <3>1. PICK x : x = [r EXCEPT !.done = done, !.ready = @ \ {s},
                          !.pc = IF done = ScopesOf(p) THEN "gate" ELSE "prepare"]
      OBVIOUS
    <3>2. /\ x \in RunnerState
          /\ x.pc = IF done = ScopesOf(p) THEN "gate" ELSE "prepare"
          /\ x.job = r.job /\ x.fence = r.fence /\ x.selection = r.selection
          /\ x.queued = r.queued /\ x.running = r.running
          /\ x.ready = r.ready \ {s} /\ x.done = done
      BY <1>1, <2>1, <2>3, <3>1 DEF RunnerState, ProgramCounter
    <3>3. done = ScopesOf(p) => r.running = {}
      BY <1>1, <2>1, <2>2 DEF PoolOK, ScopesOf
    <3>4. PoolOK(x)
      BY <1>1, <2>1, <2>2, <3>2, <3>3 DEF PoolOK, BeforePool
    <3>5. KeeperCheckpoint(p, "preparing", ProgressOf(runner[p].selection, done), x)
      BY <2>4, <3>1
    <3> QED
      BY <2>1, <2>3, <3>2, <3>4, <3>5, MarkKeeps
  <2>5. CASE KeeperFails(p)
    BY <2>1, <2>5, KeeperFailsKeeps
  <2> QED
    BY <1>9, <2>2, <2>4, <2>5 DEF Collect
<1> QED
  BY <1>5, <1>6, <1>7, <1>8, <1>9

\* The steps after the thread pool: aggregation and publication.
LEMMA PublicationStepsKeep ==
  ASSUME Inv, NEW p \in Runner,
         \/ SkipAggregation(p) \/ MarkAggregating(p) \/ Aggregate(p)
         \/ VerifyPackage(p) \/ CopyPackage(p) \/ StorePackage(p) \/ FinalizeBundle(p)
  PROVE  Inv'
<1> DEFINE r == runner[p]
<1>1. /\ r \in RunnerState /\ runner \in [Runner -> RunnerState]
      /\ ShapeOK(r) /\ PoolOK(r) /\ staging \in [Job -> Staging]
      /\ store \in SUBSET Snapshot
  BY DEF Inv, TypeOK, Shapes, Pools
<1>2. r.pc \in {"gate", "aggregate", "verify", "copy", "store", "publish_bundle"}
  BY DEF SkipAggregation, MarkAggregating, Aggregate, VerifyPackage, CopyPackage,
         StorePackage, FinalizeBundle
<1>3. /\ r.job \in Job /\ r.selection \in Selection /\ Locked(r.pc)
      /\ r.running = {} /\ r.pc # "idle"
  BY <1>1, <1>2 DEF ShapeOK, Executing, PoolOK, Locked
<1>4. Scopes(r.selection) \in SUBSET (Sheet \cup {Whole}) /\ r.selection.sheets \in SUBSET Sheet
  BY <1>3, ScopesType
<1>5. CASE SkipAggregation(p)
  <2>1. r.pc = "gate" /\ Goto(p, "verify") /\ UNCHANGED <<rows, lock, staging, store>>
    BY <1>5 DEF SkipAggregation
  <2> QED
    BY <1>1, <1>3, <2>1, GotoKeeps DEF ProgramCounter, BeforePool, Executing, Locked
<1>6. CASE MarkAggregating(p)
  <2>1. r.pc = "gate" /\ UNCHANGED <<lock, staging, store>>
    BY <1>6 DEF MarkAggregating
  <2>2. CASE KeeperCheckpoint(p, "aggregating", ProgressOf(r.selection, ScopesOf(p)),
               [r EXCEPT !.pc = "aggregate", !.stage = "aggregating"])
    <3>1. PICK x : x = [r EXCEPT !.pc = "aggregate", !.stage = "aggregating"]
      OBVIOUS
    <3>2. /\ x \in RunnerState /\ x.pc = "aggregate"
          /\ x.job = r.job /\ x.fence = r.fence /\ x.selection = r.selection
          /\ x.queued = r.queued /\ x.running = r.running
          /\ x.ready = r.ready /\ x.done = r.done
      BY <1>1, <3>1, ZenonT(60) DEF RunnerState, ProgramCounter
    <3>3. PoolOK(x)
      BY <1>1, <1>3, <3>2 DEF PoolOK, BeforePool
    <3>4. KeeperCheckpoint(p, "aggregating",
            ProgressOf(runner[p].selection, Scopes(runner[p].selection)), x)
      BY <2>2, <3>1 DEF ScopesOf
    <3> QED
      BY <1>4, <2>1, <3>2, <3>3, <3>4, MarkKeeps
  <2>3. CASE KeeperFails(p)
    BY <2>1, <2>3, KeeperFailsKeeps
  <2> QED
    BY <1>6, <2>2, <2>3 DEF MarkAggregating
<1>7. CASE Aggregate(p)
  <2>1. r.pc = "aggregate" /\ Goto(p, "verify") /\ UNCHANGED <<rows, lock, store>>
    BY <1>7 DEF Aggregate
  <2>2. staging' \in [Job -> Staging]
    BY <1>1, <1>3, <1>4, <1>7 DEF Aggregate, Staging
  <2> QED
    BY <1>1, <1>3, <2>1, <2>2, GotoKeeps DEF ProgramCounter, BeforePool, Executing, Locked
<1>8. ASSUME NEW x \in RunnerState, runner' = [runner EXCEPT ![p] = x],
             x.pc \in {"copy", "store"},
             x.job = r.job, x.fence = r.fence, x.selection = r.selection,
             x.status = r.status, x.progress = r.progress,
             x.queued = r.queued, x.running = r.running,
             x.ready = r.ready, x.done = r.done,
             x.pc = "store" => x.copy \in Snapshot,
             UNCHANGED <<rows, lock, staging, store>>
      PROVE  Inv'
  <2>1. ShapeOK(x)
    BY <1>1, <1>3, <1>8 DEF ShapeOK
  <2>2. PoolOK(x)
    BY <1>1, <1>3, <1>8 DEF PoolOK, BeforePool
  <2>3. /\ UNCHANGED <<rows, lock>> /\ x.pc # "idle"
        /\ staging' \in [Job -> Staging] /\ store' \in SUBSET Snapshot
    BY <1>1, <1>8
  <2> QED
    BY <1>3, <1>8, <2>1, <2>2, <2>3, QuietKeeps
<1>9. CASE VerifyPackage(p)
  <2>1. PICK x : x = [r EXCEPT !.pc = "copy", !.stage = "publishing"]
    OBVIOUS
  <2>2. /\ x \in RunnerState /\ x.pc = "copy"
        /\ x.job = r.job /\ x.fence = r.fence /\ x.selection = r.selection
        /\ x.status = r.status /\ x.progress = r.progress
        /\ x.queued = r.queued /\ x.running = r.running
        /\ x.ready = r.ready /\ x.done = r.done
    BY <1>1, <2>1, ZenonT(60) DEF RunnerState, ProgramCounter
  <2>3. runner' = [runner EXCEPT ![p] = x] /\ UNCHANGED <<rows, lock, staging, store>>
    BY <1>1, <1>9, <2>1 DEF VerifyPackage
  <2> QED
    BY <2>2, <2>3, <1>8
<1>10. CASE CopyPackage(p)
  <2>1. PICK copy : copy = [job |-> r.job, selection |-> r.selection,
                            scopes |-> staging[r.job].prepared,
                            aggregate |-> staging[r.job].aggregate]
    OBVIOUS
  <2>2. copy \in Snapshot
    BY <1>1, <1>3, <2>1 DEF Snapshot, Staging
  <2>3. PICK x : x = [r EXCEPT !.pc = "store", !.copy = copy]
    OBVIOUS
  <2>4. /\ x \in RunnerState /\ x.pc = "store" /\ x.copy = copy
        /\ x.job = r.job /\ x.fence = r.fence /\ x.selection = r.selection
        /\ x.status = r.status /\ x.progress = r.progress
        /\ x.queued = r.queued /\ x.running = r.running
        /\ x.ready = r.ready /\ x.done = r.done
    BY <1>1, <2>2, <2>3, ZenonT(60) DEF RunnerState, ProgramCounter
  <2>5. runner' = [runner EXCEPT ![p] = x] /\ UNCHANGED <<rows, lock, staging, store>>
    BY <1>1, <1>10, <2>1, <2>3 DEF CopyPackage
  <2> QED
    BY <2>2, <2>4, <2>5, <1>8
<1>11. CASE StorePackage(p)
  <2>1. /\ r.pc = "store" /\ Goto(p, "publish_bundle")
        /\ store' = store \cup {r.copy} /\ UNCHANGED <<rows, lock, staging>>
    BY <1>11 DEF StorePackage
  <2>2. r.copy \in Snapshot
    BY <1>1, <2>1 DEF ShapeOK
  <2>3. store' \in SUBSET Snapshot /\ staging' \in [Job -> Staging]
    BY <1>1, <2>1, <2>2
  <2> QED
    BY <1>1, <1>3, <2>1, <2>2, <2>3, GotoKeeps
    DEF ProgramCounter, BeforePool, Executing, Locked
<1>12. CASE FinalizeBundle(p)
  <2>1. r.pc = "publish_bundle" /\ UNCHANGED <<lock, staging, store>>
    BY <1>12 DEF FinalizeBundle
  <2>2. CASE PublishBundle(r.job, r.fence, r.copy) /\ Finalized(p)
    <3>1. PICK row : row = jobs[r.job]
      OBVIOUS
    <3>2. row \in JobRow /\ row.progress \in Progress /\ jobs \in [Job -> JobRow]
      BY <1>3, <3>1 DEF Inv, TypeOK, RepositoryTypeOK, JobRow
    <3>3. [row EXCEPT !.status = "published"]
            = [row EXCEPT !.status = "published", !.progress = row.progress]
      BY <3>2 DEF JobRow
    <3>4. jobs' = [jobs EXCEPT ![r.job] =
            Released([@ EXCEPT !.status = "published", !.progress = row.progress])]
      BY <1>3, <2>2, <3>1, <3>2, <3>3 DEF PublishBundle
    <3>5. HoldsLease(r.job, r.fence)
      BY <2>2 DEF PublishBundle, CanPublishBundle
    <3>6. r.copy \in Snapshot
      BY <1>1, <2>1 DEF ShapeOK
    <3>7. bundles' \in [Job -> Snapshot \cup {None}]
      BY <2>2, <3>6 DEF PublishBundle, Inv, TypeOK, RepositoryTypeOK
    <3> QED
      BY <2>1, <2>2, <3>2, <3>4, <3>5, <3>7, FinalizedKeeps
  <2>3. CASE KeeperFails(p)
    BY <2>1, <2>3, KeeperFailsKeeps
  <2> QED
    BY <1>12, <2>2, <2>3 DEF FinalizeBundle
<1> QED
  BY <1>5, <1>6, <1>7, <1>9, <1>10, <1>11, <1>12

-----------------------------------------------------------------------------
(* The invariant.                                                           *)

\* The invariant holds of the empty repository.
LEMMA InitInv == Init => Inv
<1> SUFFICES ASSUME Init PROVE Inv
  OBVIOUS
<1>1. NoJob \in JobRow /\ NoJob.status = "absent"
  BY DEF NoJob, NoProgress, JobRow, Status, Progress
<1>2. EmptyStaging \in Staging
  BY DEF EmptyStaging, Staging
<1>3. Idle \in RunnerState /\ Idle.pc = "idle" /\ ShapeOK(Idle) /\ PoolOK(Idle)
  BY IdleOK DEF Idle
<1>4. TypeOK
  BY <1>1, <1>2, <1>3 DEF Init, RepositoryInit, TypeOK, RepositoryTypeOK
<1>5. Shapes /\ Pools /\ Locks /\ Claims /\ RowIsKeepers
  BY <1>3 DEF Init, Shapes, Pools, Locks, Claims, RowIsKeepers, Owns
<1>6. Rows
  BY <1>1 DEF Init, RepositoryInit, Rows
<1> QED
  BY <1>4, <1>5, <1>6 DEF Inv

\* Every step keeps the invariant.
LEMMA InvStep == Inv /\ [Next]_vars => Inv'
<1> SUFFICES ASSUME Inv, [Next]_vars PROVE Inv'
  OBVIOUS
<1>1. ASSUME NEW p \in Runner, NEW c \in StartCommand, Start(p, c) PROVE Inv'
  BY <1>1, StartKeeps
<1>2. ASSUME NEW p \in Runner, NEW c \in ScopeCommand, SelectScope(p, c) PROVE Inv'
  BY <1>2, SelectScopeKeeps
<1>3. ASSUME NEW p \in Runner, RunnerStep(p) PROVE Inv'
  <2>1. CASE EnterLease(p) \/ AcquireLock(p) \/ GiveUpLock(p) \/ Unlock(p)
             \/ FailQuietly(p) \/ WorkFails(p)
    BY <2>1, LeaseStepsKeep
  <2>2. CASE PlanningStep(p)
    BY <2>2, PlanningStepsKeep
  <2>3. CASE ExecutionStep(p)
    BY <2>3, CollectStepsKeep, PublicationStepsKeep, ThreadStepsKeep DEF ExecutionStep
  <2> QED
    BY <1>3, <2>1, <2>2, <2>3 DEF RunnerStep
<1>4. ASSUME NEW p \in Runner,
             Heartbeat(p) \/ HeartbeatFails(p) \/ LockFails(p) \/ Crash(p)
      PROVE  Inv'
  BY <1>4, LeaseStepsKeep
<1>5. CASE Tick
  BY <1>5, TickKeeps
<1>6. CASE UNCHANGED vars
  BY <1>6 DEF vars, rows, Inv, TypeOK, RepositoryTypeOK, Shapes, Pools, Locks, Rows,
              Claims, RowIsKeepers, Owns, HoldsLease
<1> QED
  BY <1>1, <1>2, <1>3, <1>4, <1>5, <1>6 DEF Next

\* The inductive invariant of the processing service.
THEOREM Invariance == Spec => []Inv
<1> QED
  BY InitInv, InvStep, PTL DEF Spec

-----------------------------------------------------------------------------
(* What follows from it.                                                    *)

\* Rows, bundles, calls, lock files, staging directories and the store have
\* their types, whatever the calls of the service do.
THEOREM TypeCorrect == Spec => []TypeOK
<1>1. Inv => TypeOK
  BY DEF Inv
<1> QED
  BY <1>1, Invariance, PTL

\* Two calls never work in the staging directory of one job, even when one has
\* taken over the lease of the other while its threads still run.
THEOREM ExclusiveStaging == Spec => []StagingExclusive
<1>1. Inv => StagingExclusive
  <2> SUFFICES ASSUME Inv, NEW p \in Runner, NEW q \in Runner,
                      InStaging(p), InStaging(q), runner[p].job = runner[q].job
               PROVE  p = q
    BY DEF StagingExclusive
  <2>1. ASSUME NEW r \in Runner, InStaging(r) PROVE lock[runner[r].job] = r
    <3>1. PoolOK(runner[r])
      BY DEF Inv, Pools
    <3>2. runner[r].pc \notin {"idle", "enter", "lock", "fail"}
      BY <2>1, <3>1 DEF InStaging, PoolOK
    <3> QED
      BY <3>2 DEF Inv, Locks
  <2> QED
    BY <2>1
<1> QED
  BY <1>1, Invariance, PTL

\* The row of an owned job says what its owner last wrote: no call that was
\* fenced off and no late heartbeat has written it.
THEOREM OwnersRow == Spec => []RowIsKeepers
<1>1. Inv => RowIsKeepers
  BY DEF Inv
<1> QED
  BY <1>1, Invariance, PTL

\* What a call writes after its claim, it writes under its own live lease.
LEMMA OwnerWrites ==
  ASSUME Inv, NEW p \in Runner,
         RunnerStep(p) \/ Heartbeat(p) \/ HeartbeatFails(p) \/ LockFails(p) \/ Crash(p),
         NEW j \in Job, jobs'[j] # jobs[j]
  PROVE  HoldsLease(j, runner[p].fence)
<1>1. jobs \in [Job -> JobRow]
  BY DEF Inv, TypeOK, RepositoryTypeOK
<1>2. \A status, progress, next :
        KeeperCheckpoint(p, status, progress, next) => HoldsLease(j, runner[p].fence)
  BY <1>1 DEF KeeperCheckpoint, Checkpoint
<1>3. \A stage : Fail(runner[p].job, runner[p].fence, stage) => HoldsLease(j, runner[p].fence)
  BY <1>1 DEF Fail, CanFail
<1>4. PublishPlan(runner[p].job, runner[p].fence) => HoldsLease(j, runner[p].fence)
  BY <1>1 DEF PublishPlan
<1>5. \A copy : PublishBundle(runner[p].job, runner[p].fence, copy)
                  => HoldsLease(j, runner[p].fence)
  BY <1>1 DEF PublishBundle, CanPublishBundle
<1>6. ~ UNCHANGED rows
  BY DEF rows
<1>7. ~ KeeperFails(p)
  BY <1>6 DEF KeeperFails
<1>8. CASE Heartbeat(p) \/ HeartbeatFails(p) \/ LockFails(p) \/ Crash(p)
  BY <1>2, <1>6, <1>8 DEF Heartbeat, HeartbeatFails, LockFails, Crash
<1>9. CASE EnterLease(p) \/ AcquireLock(p) \/ GiveUpLock(p) \/ Unlock(p)
           \/ FailQuietly(p) \/ WorkFails(p)
  BY <1>2, <1>3, <1>6, <1>7, <1>9
  DEF EnterLease, AcquireLock, GiveUpLock, Unlock, FailQuietly, WorkFails
<1>10. CASE PlanningStep(p)
  BY <1>2, <1>4, <1>6, <1>7, <1>10
  DEF PlanningStep, Materialize, Convert, MarkPlanning, PlanScopes, FinalizePlan
<1>11. CASE ExecutionStep(p)
  <2>1. CASE \E s \in Sheet \cup {Whole} :
               PrepareBegin(p, s) \/ PrepareEnd(p, s) \/ PrepareFails(p, s) \/ Collect(p, s)
    BY <1>2, <1>6, <1>7, <2>1 DEF PrepareBegin, PrepareEnd, PrepareFails, Collect
  <2>2. CASE ExistingPackage(p) \/ MarkPreparing(p) \/ CollectFailure(p) \/ Drain(p)
             \/ SkipAggregation(p) \/ MarkAggregating(p)
    BY <1>2, <1>6, <1>7, <2>2
    DEF ExistingPackage, MarkPreparing, CollectFailure, Drain, SkipAggregation, MarkAggregating
  <2>3. CASE Aggregate(p) \/ VerifyPackage(p) \/ CopyPackage(p) \/ StorePackage(p)
             \/ FinalizeBundle(p)
    BY <1>5, <1>6, <1>7, <2>3
    DEF Aggregate, VerifyPackage, CopyPackage, StorePackage, FinalizeBundle
  <2> QED
    BY <1>11, <2>1, <2>2, <2>3 DEF ExecutionStep
<1> QED
  BY <1>8, <1>9, <1>10, <1>11 DEF RunnerStep

\* A lapsed lease is never renewed or used to end a job: the next change of the
\* row is a takeover under the next fence.
THEOREM LapsedTakeover == Spec => LapsedOnlyTakenOver
<1>1. ASSUME Inv, [Next]_vars, NEW j \in Job, Lapsed(j), jobs'[j] # jobs[j]
      PROVE  /\ jobs'[j].fence = jobs[j].fence + 1
             /\ jobs'[j] = Leased(jobs[j])
  <2>1. jobs \in [Job -> JobRow] /\ jobs[j] \in JobRow
    BY <1>1 DEF Inv, TypeOK, RepositoryTypeOK
  <2>2. jobs[j].status # "absent"
    BY <1>1 DEF Inv, Rows, Lapsed, NoJob
  <2>3. \A fence : ~ HoldsLease(j, fence)
    BY <1>1 DEF HoldsLease, Lapsed
  <2>4. jobs'[j] = Leased(jobs[j])
    <3>1. ASSUME NEW p \in Runner, NEW c \in StartCommand, Start(p, c)
          PROVE  jobs'[j] = Leased(jobs[j])
      BY <1>1, <2>1, <2>2, <3>1 DEF Start, ClaimPlanning
    <3>2. ASSUME NEW p \in Runner, NEW c \in ScopeCommand, SelectScope(p, c)
          PROVE  jobs'[j] = Leased(jobs[j])
      BY <1>1, <2>1, <3>2 DEF SelectScope, ClaimExecution, Lapsed
    <3>3. ASSUME NEW p \in Runner,
                 RunnerStep(p) \/ Heartbeat(p) \/ HeartbeatFails(p)
                   \/ LockFails(p) \/ Crash(p)
          PROVE  FALSE
      BY <1>1, <2>3, <3>3, OwnerWrites
    <3>4. ASSUME Tick PROVE FALSE
      <4>1. jobs'[j] = [jobs[j] EXCEPT !.left = 0]
        BY <1>1, <2>1, <3>4 DEF Tick, Lapsed
      <4>2. [jobs[j] EXCEPT !.left = jobs[j].left] = jobs[j]
        BY <2>1 DEF JobRow
      <4> QED
        BY <1>1, <4>1, <4>2 DEF Lapsed
    <3>5. CASE UNCHANGED vars
      BY <1>1, <3>5 DEF vars, rows
    <3> QED
      BY <1>1, <3>1, <3>2, <3>3, <3>4, <3>5 DEF Next
  <2> QED
    BY <2>1, <2>4, LeasedRow
<1>2. Inv /\ [Next]_vars =>
        [\A j \in Job :
           Lapsed(j) /\ jobs'[j] # jobs[j] =>
             /\ jobs'[j].fence = jobs[j].fence + 1
             /\ jobs'[j] = Leased(jobs[j])]_vars
  BY <1>1
<1> QED
  BY <1>2, Invariance, PTL DEF Spec, LapsedOnlyTakenOver

-------------------------------------------------------------------------------
(***************************************************************************)
(* Second part. What a job's results are worth: a failure can always       *)
(* be recorded, a published bundle is in the store and holds what was      *)
(* selected, and the service implements its promise.                       *)
(*                                                                         *)
(* The argument.  The stage a call reports follows the status its keeper   *)
(* writes (Stages), and an owner's status is its row's.  What a call has   *)
(* prepared stays in the staging directory, where only it aggregates: from *)
(* one point to the next the package holds more of the selection (Works),  *)
(* up to the copy it stores and publishes.  Of the row, only a few         *)
(* transactions change what the promise speaks of (Transactions).          *)
(***************************************************************************)

\* The points at which a call plans.
Planning ==
  {"materialize", "mark_source", "convert", "mark_package", "plan", "publish_plan"}

\* The stage a call reports is the status its keeper writes, or publishing.
StageOK(r) ==
  r.pc # "idle" =>
    /\ r.status \in {"planning", "preparing", "aggregating"}
    /\ r.stage = r.status \/ (r.stage = "publishing" /\ r.status # "planning")
    /\ r.pc \in Planning => r.status = "planning"
    /\ r.pc \in Executing => r.status # "planning"
    /\ r.pc \in {"mark_preparing", "prepare"} => r.stage = "preparing"

Stages == \A p \in Runner : StageOK(runner[p])

\* The points from which on everything selected is prepared, is aggregated,
\* and is in the copy of the store.
Prepared   == {"gate", "aggregate", "verify", "copy", "store", "publish_bundle"}
Aggregated == {"verify", "copy", "store", "publish_bundle"}
Copied     == {"store", "publish_bundle"}

\* What call r has made of its selection, in staging directory s and store st.
WorkOK(r, s, st) ==
  /\ r.ready \cup r.done \subseteq s.prepared
  /\ r.pc \in Prepared => Scopes(r.selection) \subseteq s.prepared
  /\ r.pc \in Aggregated =>
       (Cardinality(Scopes(r.selection)) > 1 => s.aggregate = r.selection.sheets)
  /\ r.pc \in Copied => HoldsAll(r.copy, r.job, r.selection)
  /\ r.pc = "publish_bundle" => r.copy \in st

Works ==
  \A p \in Runner : runner[p].pc # "idle" =>
    WorkOK(runner[p], staging[runner[p].job], store)

\* A job that is executed or published is bound.
Bindings ==
  \A j \in Job :
    jobs[j].status \in {"preparing", "aggregating", "published"} => jobs[j].key # None

\* The invariant.
Sound == Inv /\ Stages /\ Works /\ Bindings /\ PublishedIsWhole
USE ProcessingAssumption, RunnerAssumption, SnapshotAssumption

-----------------------------------------------------------------------------
(* What a call has made: one step of a call at a time.                      *)

\* What the invariant says of the work of a call under way.
LEMMA Working ==
  ASSUME Sound, NEW p \in Runner, runner[p].pc # "idle"
  PROVE  /\ runner[p] \in RunnerState /\ runner \in [Runner -> RunnerState]
         /\ runner[p].job \in Job
         /\ runner[p].pc \in Executing => runner[p].selection \in Selection
         /\ StageOK(runner[p])
         /\ WorkOK(runner[p], staging[runner[p].job], store)
         /\ staging \in [Job -> Staging] /\ staging[runner[p].job] \in Staging
  BY Underway DEF Sound, Stages, Works, Inv, TypeOK, ShapeOK

\* A step that makes call p x keeps what the calls have made if x is as it
\* should be, nothing prepared or stored is lost, and no other call's package
\* is aggregated anew.
LEMMA WorkStep ==
  ASSUME Sound, NEW p \in Runner, NEW x \in RunnerState,
         runner' = [runner EXCEPT ![p] = x],
         StageOK(x),
         x.pc # "idle" => WorkOK(x, staging'[x.job], store'),
         \A j \in Job : staging[j].prepared \subseteq staging'[j].prepared,
         \A q \in Runner \ {p} : runner[q].pc \in Aggregated =>
           staging'[runner[q].job].aggregate = staging[runner[q].job].aggregate,
         store \subseteq store'
  PROVE  Stages' /\ Works'
<1>1. /\ runner'[p] = x
      /\ \A q \in Runner \ {p} : runner'[q] = runner[q]
  BY DEF Sound, Inv, TypeOK
<1>2. Stages'
  BY <1>1 DEF Sound, Stages
<1>3. Works'
  <2> SUFFICES ASSUME NEW q \in Runner, runner'[q].pc # "idle"
               PROVE  WorkOK(runner'[q], staging'[runner'[q].job], store')
    BY DEF Works
  <2>1. CASE q = p
    BY <1>1, <2>1
  <2>2. CASE q # p
    <3>1. runner'[q] = runner[q] /\ runner[q].pc # "idle"
      BY <1>1, <2>2
    <3>2. runner[q].job \in Job /\ WorkOK(runner[q], staging[runner[q].job], store)
      BY <3>1, Working
    <3>3. staging[runner[q].job].prepared \subseteq staging'[runner[q].job].prepared
      BY <3>2
    <3>4. runner[q].pc \in Aggregated =>
            staging'[runner[q].job].aggregate = staging[runner[q].job].aggregate
      BY <2>2
    <3> QED
      BY <3>1, <3>2, <3>3, <3>4 DEF WorkOK
  <2> QED
    BY <2>1, <2>2
<1> QED
  BY <1>2, <1>3

\* A step of a call that leaves staging and the store alone.
LEMMA WorkStays ==
  ASSUME Sound, NEW p \in Runner, NEW x \in RunnerState,
         runner' = [runner EXCEPT ![p] = x],
         StageOK(x),
         x.pc # "idle" => WorkOK(x, staging[x.job], store),
         UNCHANGED <<staging, store>>
  PROVE  Stages' /\ Works'
  BY WorkStep

\* A step that moves a call on, with what it knows.
LEMMA WorkGoto ==
  ASSUME Sound, NEW p \in Runner, runner[p].pc # "idle",
         NEW pc \in ProgramCounter, Goto(p, pc),
         pc \in Planning => runner[p].status = "planning",
         pc \in Executing => runner[p].status # "planning",
         pc \in {"mark_preparing", "prepare"} => runner[p].stage = "preparing",
         pc # "idle" => WorkOK([runner[p] EXCEPT !.pc = pc],
                               staging'[runner[p].job], store'),
         \A j \in Job : staging[j].prepared \subseteq staging'[j].prepared,
         \A q \in Runner \ {p} : runner[q].pc \in Aggregated =>
           staging'[runner[q].job].aggregate = staging[runner[q].job].aggregate,
         store \subseteq store'
  PROVE  Stages' /\ Works'
<1> DEFINE x == [runner[p] EXCEPT !.pc = pc]
<1>1. /\ runner[p] \in RunnerState /\ runner \in [Runner -> RunnerState]
      /\ StageOK(runner[p])
  BY Working
<1>2. x \in RunnerState
  BY <1>1 DEF RunnerState
<1>3. /\ x.pc = pc /\ x.job = runner[p].job
      /\ x.status = runner[p].status /\ x.stage = runner[p].stage
  BY <1>1 DEF RunnerState
<1>4. runner' = [runner EXCEPT ![p] = x]
  BY <1>1 DEF Goto
<1>5. x.pc # "idle" => WorkOK(x, staging'[x.job], store')
  BY <1>3
<1> HIDE DEF x
<1>6. StageOK(x)
  BY <1>1, <1>3 DEF StageOK
<1> QED
  BY <1>2, <1>4, <1>5, <1>6, WorkStep

\* An exception, wherever it is raised, leaves what has been prepared.
LEMMA WorkRaise ==
  ASSUME Sound, NEW p \in Runner, runner[p].pc # "idle",
         NEW latch \in {"ok", "lost", "unavailable", "finalized"},
         Raise(p, latch),
         UNCHANGED <<staging, store>>
  PROVE  Stages' /\ Works'
<1> DEFINE x == [runner[p] EXCEPT !.pc = AfterError(p), !.queued = {}, !.latch = latch]
<1>1. /\ runner[p] \in RunnerState /\ runner \in [Runner -> RunnerState]
      /\ StageOK(runner[p]) /\ WorkOK(runner[p], staging[runner[p].job], store)
  BY Working
<1>2. AfterError(p) \in {"drain", "fail", "unlock"}
  BY DEF AfterError
<1>3. x \in RunnerState
  BY <1>1, <1>2, ZenonT(60) DEF RunnerState, ProgramCounter
<1>4. runner' = [runner EXCEPT ![p] = x]
  BY <1>1 DEF Raise
<1>5. /\ x.pc = AfterError(p) /\ x.job = runner[p].job
      /\ x.status = runner[p].status /\ x.stage = runner[p].stage
      /\ x.ready = runner[p].ready /\ x.done = runner[p].done
  BY <1>1 DEF RunnerState
<1> HIDE DEF x
<1>6. x.pc = "drain" => runner[p].pc = "prepare"
  BY <1>5 DEF AfterError
<1>7. StageOK(x)
  BY <1>1, <1>2, <1>5, <1>6 DEF StageOK, Planning, Executing
<1>8. WorkOK(x, staging[x.job], store)
  BY <1>1, <1>2, <1>5 DEF WorkOK, Prepared, Aggregated, Copied
<1> QED
  BY <1>3, <1>4, <1>7, <1>8, WorkStays

\* A checkpoint or a terminal transition that the keeper could not make.
LEMMA WorkKeeperFails ==
  ASSUME Sound, NEW p \in Runner, runner[p].pc # "idle",
         KeeperFails(p), UNCHANGED <<staging, store>>
  PROVE  Stages' /\ Works'
<1>1. runner[p].latch \in {"ok", "lost", "unavailable", "finalized"}
  BY Working DEF RunnerState
<1>2. \E latch \in {"ok", "lost", "unavailable", "finalized"} : Raise(p, latch)
  BY <1>1 DEF KeeperFails
<1> QED
  BY <1>2, WorkRaise

\* A checkpoint that goes through: the call continues as next.
LEMMA WorkCheckpoint ==
  ASSUME Sound, NEW p \in Runner, runner[p].pc # "idle",
         NEW status \in {"planning", "preparing", "aggregating"},
         NEW progress \in Progress, NEW next \in RunnerState,
         KeeperCheckpoint(p, status, progress, next),
         next.stage = status \/ (next.stage = "publishing" /\ status # "planning"),
         next.pc \in Planning => status = "planning",
         next.pc \in Executing => status # "planning",
         next.pc \in {"mark_preparing", "prepare"} => next.stage = "preparing",
         next.job = runner[p].job,
         WorkOK(next, staging[next.job], store),
         UNCHANGED <<staging, store>>
  PROVE  Stages' /\ Works'
<1> DEFINE x == [next EXCEPT !.status = status, !.progress = progress]
<1>1. x \in RunnerState
  BY DEF RunnerState, Status
<1>2. /\ x.pc = next.pc /\ x.job = next.job /\ x.stage = next.stage
      /\ x.selection = next.selection /\ x.status = status
      /\ x.ready = next.ready /\ x.done = next.done /\ x.copy = next.copy
  BY DEF RunnerState
<1>3. runner' = [runner EXCEPT ![p] = x]
  BY DEF KeeperCheckpoint
<1> HIDE DEF x
<1>4. StageOK(x)
  BY <1>2 DEF StageOK
<1>5. WorkOK(x, staging[x.job], store)
  BY <1>2 DEF WorkOK
<1> QED
  BY <1>1, <1>3, <1>4, <1>5, WorkStays
-----------------------------------------------------------------------------
(* What a call has made: the steps.                                         *)

\* A call that is claimed starts with the status of its row.
LEMMA WorkClaim ==
  ASSUME Sound, NEW p \in Runner, NEW j \in Job,
         NEW sel \in Selection \cup {None},
         jobs'[j] \in JobRow,
         jobs'[j].status \in {"planning", "preparing", "aggregating"},
         Claimed(p, j, sel), UNCHANGED <<staging, store>>
  PROVE  Stages' /\ Works'
<1> DEFINE x == [Idle EXCEPT !.pc = "enter", !.job = j, !.selection = sel,
                   !.fence = jobs'[j].fence, !.status = jobs'[j].status,
                   !.progress = jobs'[j].progress, !.stage = jobs'[j].status]
<1>1. runner' = [runner EXCEPT ![p] = x]
  BY DEF Claimed
<1>2. /\ x.pc = "enter" /\ x.job = j /\ x.selection = sel
      /\ x.status = jobs'[j].status /\ x.stage = jobs'[j].status
      /\ x.ready = {} /\ x.done = {}
  BY DEF Idle
<1>3. x \in RunnerState
  <2>1. jobs'[j].fence \in Nat /\ jobs'[j].progress \in Progress
    BY DEF JobRow
  <2> QED
    BY <2>1 DEF Idle, RunnerState, ProgramCounter, Status
<1> HIDE DEF x
<1>4. StageOK(x)
  BY <1>2 DEF StageOK, Planning, Executing
<1>5. WorkOK(x, staging[x.job], store)
  BY <1>2 DEF WorkOK, Prepared, Aggregated, Copied
<1> QED
  BY <1>1, <1>3, <1>4, <1>5, WorkStays

\* A call that returns or dies leaves nothing to keep.
LEMMA WorkEnds ==
  ASSUME Sound, NEW p \in Runner, runner' = [runner EXCEPT ![p] = Idle],
         UNCHANGED <<staging, store>>
  PROVE  Stages' /\ Works'
<1>1. StageOK(Idle) /\ Idle.pc = "idle"
  BY DEF StageOK, Idle
<1> QED
  BY <1>1, IdleOK, WorkStays

\* A call that lets go of its lock, or whose keeper latches: its pc and latch.
LEMMA WorkLatch ==
  ASSUME Sound, NEW p \in Runner, runner[p].pc # "idle",
         NEW pc \in {runner[p].pc, "unlock", "fail"},
         NEW latch \in {"ok", "lost", "unavailable", "finalized"},
         runner' = [runner EXCEPT ![p] = [runner[p] EXCEPT !.pc = pc, !.latch = latch]],
         UNCHANGED <<staging, store>>
  PROVE  Stages' /\ Works'
<1> DEFINE x == [runner[p] EXCEPT !.pc = pc, !.latch = latch]
<1>1. /\ runner[p] \in RunnerState
      /\ StageOK(runner[p]) /\ WorkOK(runner[p], staging[runner[p].job], store)
  BY Working
<1>2. x \in RunnerState
  BY <1>1, ZenonT(60) DEF RunnerState, ProgramCounter
<1>3. /\ x.pc = pc /\ x.job = runner[p].job /\ x.selection = runner[p].selection
      /\ x.status = runner[p].status /\ x.stage = runner[p].stage
      /\ x.ready = runner[p].ready /\ x.done = runner[p].done
      /\ x.copy = runner[p].copy
  BY <1>1 DEF RunnerState
<1>4. runner' = [runner EXCEPT ![p] = x]
  OBVIOUS
<1> HIDE DEF x
<1>5. StageOK(x)
  BY <1>1, <1>3 DEF StageOK, Planning, Executing
<1>6. WorkOK(x, staging[x.job], store)
  BY <1>1, <1>3 DEF WorkOK, Prepared, Aggregated, Copied
<1> QED
  BY <1>2, <1>4, <1>5, <1>6, WorkStays

\* A keeper that writes its status again.
LEMMA WorkRenew ==
  ASSUME Sound, NEW p \in Runner, runner[p].pc # "idle",
         NEW next \in {runner[p], [runner[p] EXCEPT !.pc = "lock"]},
         KeeperCheckpoint(p, runner[p].status, runner[p].progress, next),
         UNCHANGED <<staging, store>>
  PROVE  Stages' /\ Works'
<1>1. /\ runner[p] \in RunnerState
      /\ StageOK(runner[p]) /\ WorkOK(runner[p], staging[runner[p].job], store)
  BY Working
<1>2. /\ runner[p].status \in {"planning", "preparing", "aggregating"}
      /\ runner[p].progress \in Progress
  BY <1>1 DEF StageOK, RunnerState
<1>3. /\ next \in RunnerState /\ next.pc \in {runner[p].pc, "lock"}
      /\ next.job = runner[p].job /\ next.selection = runner[p].selection
      /\ next.stage = runner[p].stage /\ next.ready = runner[p].ready
      /\ next.done = runner[p].done /\ next.copy = runner[p].copy
  BY <1>1 DEF RunnerState, ProgramCounter
<1>4. WorkOK(next, staging[next.job], store)
  BY <1>1, <1>3 DEF WorkOK, Prepared, Aggregated, Copied
<1>5. /\ next.stage = runner[p].status
           \/ (next.stage = "publishing" /\ runner[p].status # "planning")
      /\ next.pc \in Planning => runner[p].status = "planning"
      /\ next.pc \in Executing => runner[p].status # "planning"
      /\ next.pc \in {"mark_preparing", "prepare"} => next.stage = "preparing"
  BY <1>1, <1>3 DEF StageOK, Planning, Executing
<1> QED
  BY <1>2, <1>3, <1>4, <1>5, WorkCheckpoint

\* The steps of the lease, the lock file and the end of a call.
LEMMA WorkLeaseSteps ==
  ASSUME Sound, NEW p \in Runner,
         \/ EnterLease(p) \/ AcquireLock(p) \/ GiveUpLock(p) \/ Unlock(p)
         \/ FailQuietly(p) \/ WorkFails(p)
         \/ Heartbeat(p) \/ HeartbeatFails(p) \/ LockFails(p) \/ Crash(p)
  PROVE  Stages' /\ Works'
<1> DEFINE r == runner[p]
<1>1. r.pc # "idle"
  BY DEF EnterLease, AcquireLock, GiveUpLock, Unlock, FailQuietly, WorkFails,
         Heartbeat, HeartbeatFails, LockFails, Crash
<1>2. /\ r \in RunnerState /\ StageOK(r) /\ WorkOK(r, staging[r.job], store)
      /\ runner \in [Runner -> RunnerState]
      /\ r.latch \in {"ok", "lost", "unavailable", "finalized"}
  BY <1>1, Working DEF RunnerState
<1>3. CASE EnterLease(p) \/ Heartbeat(p)
  <2>1. UNCHANGED <<staging, store>>
    BY <1>3 DEF EnterLease, Heartbeat
  <2>2. CASE \E next \in {r, [r EXCEPT !.pc = "lock"]} :
               KeeperCheckpoint(p, r.status, r.progress, next)
    BY <1>1, <2>1, <2>2, WorkRenew
  <2>3. CASE KeeperFails(p)
    BY <1>1, <2>1, <2>3, WorkKeeperFails
  <2>4. CASE runner' = [runner EXCEPT ![p].latch = "lost"]
    <3>1. [r EXCEPT !.latch = "lost"] = [r EXCEPT !.pc = r.pc, !.latch = "lost"]
      BY <1>2 DEF RunnerState
    <3>2. runner' = [runner EXCEPT ![p] = [r EXCEPT !.pc = r.pc, !.latch = "lost"]]
      BY <1>2, <2>4, <3>1
    <3> QED
      BY <1>1, <2>1, <3>2, WorkLatch
  <2> QED
    BY <1>3, <2>2, <2>3, <2>4 DEF EnterLease, Heartbeat
<1>4. CASE HeartbeatFails(p)
  <2>1. [r EXCEPT !.latch = "unavailable"] = [r EXCEPT !.pc = r.pc, !.latch = "unavailable"]
    BY <1>2 DEF RunnerState
  <2>2. /\ runner' = [runner EXCEPT ![p] = [r EXCEPT !.pc = r.pc, !.latch = "unavailable"]]
        /\ UNCHANGED <<staging, store>>
    BY <1>2, <1>4, <2>1 DEF HeartbeatFails
  <2> QED
    BY <1>1, <2>2, WorkLatch
<1>5. CASE AcquireLock(p)
  <2>1. PICK pc : pc = IF r.status = "planning" THEN "materialize" ELSE "existing"
    OBVIOUS
  <2>2. Goto(p, pc) /\ UNCHANGED <<staging, store>>
    BY <1>5, <2>1 DEF AcquireLock
  <2>3. WorkOK([r EXCEPT !.pc = pc], staging[r.job], store)
    BY <1>2, <2>1 DEF WorkOK, Prepared, Aggregated, Copied, RunnerState
  <2>4. /\ pc \in ProgramCounter /\ pc \notin {"mark_preparing", "prepare"}
        /\ pc \in Planning => r.status = "planning"
        /\ pc \in Executing => r.status # "planning"
    BY <2>1 DEF ProgramCounter, Planning, Executing
  <2> QED
    BY <1>1, <2>2, <2>3, <2>4, WorkGoto
<1>6. CASE GiveUpLock(p)
  <2>1. [r EXCEPT !.pc = "fail"] = [r EXCEPT !.pc = "fail", !.latch = r.latch]
    BY <1>2 DEF RunnerState
  <2>2. /\ runner' = [runner EXCEPT ![p] = [r EXCEPT !.pc = "fail", !.latch = r.latch]]
        /\ UNCHANGED <<staging, store>>
    BY <1>2, <1>6, <2>1 DEF GiveUpLock, Goto
  <2> QED
    BY <1>1, <1>2, <2>2, WorkLatch
<1>7. CASE Unlock(p)
  <2>1. UNCHANGED <<staging, store>>
    BY <1>7 DEF Unlock
  <2>2. CASE r.latch = "finalized"
    BY <1>7, <2>1, <2>2, WorkEnds DEF Unlock
  <2>3. CASE r.latch # "finalized"
    <3>1. [r EXCEPT !.pc = "fail"] = [r EXCEPT !.pc = "fail", !.latch = r.latch]
      BY <1>2 DEF RunnerState
    <3>2. runner' = [runner EXCEPT ![p] = [r EXCEPT !.pc = "fail", !.latch = r.latch]]
      BY <1>7, <2>3, <3>1 DEF Unlock
    <3> QED
      BY <1>1, <1>2, <2>1, <3>2, WorkLatch
  <2> QED
    BY <2>2, <2>3
<1>8. CASE FailQuietly(p) \/ Crash(p)
  BY <1>8, WorkEnds DEF FailQuietly, Crash
<1>9. CASE WorkFails(p) \/ LockFails(p)
  BY <1>1, <1>2, <1>9, WorkRaise DEF WorkFails, LockFails
<1> QED
  BY <1>3, <1>4, <1>5, <1>6, <1>7, <1>8, <1>9
\* The steps of planning.
LEMMA WorkPlanningSteps ==
  ASSUME Sound, NEW p \in Runner, PlanningStep(p)
  PROVE  Stages' /\ Works'
<1> DEFINE r == runner[p]
<1>1. r.pc \in Planning /\ r.pc # "idle"
  BY DEF PlanningStep, Materialize, Convert, MarkPlanning, PlanScopes, FinalizePlan, Planning
<1>2. /\ r \in RunnerState /\ StageOK(r) /\ WorkOK(r, staging[r.job], store)
      /\ runner \in [Runner -> RunnerState] /\ r.job \in Job
      /\ staging \in [Job -> Staging] /\ staging[r.job] \in Staging
  BY <1>1, Working
<1>3. r.status = "planning" /\ r.stage = "planning"
  BY <1>1, <1>2 DEF StageOK
<1>4. ASSUME NEW pc \in Planning, Goto(p, pc), UNCHANGED store,
             staging' \in [Job -> Staging],
             \A j \in Job : /\ staging'[j].prepared = staging[j].prepared
                            /\ staging'[j].aggregate = staging[j].aggregate
      PROVE  Stages' /\ Works'
  <2>1. [r EXCEPT !.pc = pc].pc = pc
    BY <1>2 DEF RunnerState
  <2>2. WorkOK([r EXCEPT !.pc = pc], staging'[r.job], store')
    BY <1>2, <1>4, <2>1 DEF WorkOK, Planning, Prepared, Aggregated, Copied, RunnerState
  <2>3. pc \in ProgramCounter /\ pc \notin Executing
        /\ pc \notin {"mark_preparing", "prepare"}
    BY DEF Planning, ProgramCounter, Executing
  <2>4. \A q \in Runner : runner[q].pc \in Aggregated =>
          staging'[runner[q].job].aggregate = staging[runner[q].job].aggregate
    BY <1>4, Working DEF Aggregated
  <2> QED
    BY <1>1, <1>3, <1>4, <2>2, <2>3, <2>4, WorkGoto
<1>5. CASE Materialize(p) \/ Convert(p)
  <2>1. \E s \in {[staging[r.job] EXCEPT !.source = TRUE],
                  [staging[r.job] EXCEPT !.package = TRUE]} :
          staging' = [staging EXCEPT ![r.job] = s]
    BY <1>2, <1>5 DEF Materialize, Convert
  <2>2. \A s \in {[staging[r.job] EXCEPT !.source = TRUE],
                  [staging[r.job] EXCEPT !.package = TRUE]} :
          s \in Staging /\ s.prepared = staging[r.job].prepared
                       /\ s.aggregate = staging[r.job].aggregate
    BY <1>2 DEF Staging
  <2>3. /\ staging' \in [Job -> Staging]
        /\ \A j \in Job : /\ staging'[j].prepared = staging[j].prepared
                          /\ staging'[j].aggregate = staging[j].aggregate
    BY <1>2, <2>1, <2>2
  <2>4. \E pc \in Planning : Goto(p, pc) /\ UNCHANGED store
    BY <1>5 DEF Materialize, Convert, Planning
  <2> QED
    BY <1>4, <2>3, <2>4
<1>6. CASE PlanScopes(p)
  <2>1. Goto(p, "publish_plan") /\ UNCHANGED <<staging, store>>
    BY <1>6 DEF PlanScopes
  <2> QED
    BY <1>2, <1>4, <2>1 DEF Planning
<1>7. CASE MarkPlanning(p)
  <2>1. UNCHANGED <<staging, store>> /\ r.pc \in {"mark_source", "mark_package"}
    BY <1>7 DEF MarkPlanning
  <2>2. CASE KeeperFails(p)
    BY <1>1, <2>1, <2>2, WorkKeeperFails
  <2>3. CASE KeeperCheckpoint(p, "planning", NoProgress,
               [r EXCEPT !.pc = IF @ = "mark_source" THEN "convert" ELSE "plan"])
    <3>1. PICK x : x = [r EXCEPT !.pc = IF @ = "mark_source" THEN "convert" ELSE "plan"]
      OBVIOUS
    <3>2. /\ x \in RunnerState /\ x.pc \in {"convert", "plan"}
          /\ x.job = r.job /\ x.selection = r.selection
          /\ x.stage = r.stage /\ x.ready = r.ready
          /\ x.done = r.done /\ x.copy = r.copy
      BY <1>2, <3>1 DEF RunnerState, ProgramCounter
    <3>3. KeeperCheckpoint(p, "planning", NoProgress, x)
      BY <2>3, <3>1
    <3>4. WorkOK(x, staging[x.job], store)
      BY <1>2, <3>2 DEF WorkOK, Prepared, Aggregated, Copied
    <3>5. NoProgress \in Progress
      BY DEF NoProgress, Progress
    <3>6. x.pc \notin Executing /\ x.pc \notin {"mark_preparing", "prepare"}
      BY <3>2 DEF Executing
    <3> QED
      BY <1>1, <1>3, <2>1, <3>2, <3>3, <3>4, <3>5, <3>6, WorkCheckpoint
  <2> QED
    BY <1>7, <2>2, <2>3 DEF MarkPlanning
<1>8. CASE FinalizePlan(p)
  <2>1. UNCHANGED <<staging, store>>
    BY <1>8 DEF FinalizePlan
  <2>2. CASE KeeperFails(p)
    BY <1>1, <2>1, <2>2, WorkKeeperFails
  <2>3. CASE Finalized(p)
    BY <1>1, <1>2, <2>1, <2>3, WorkLatch DEF Finalized
  <2> QED
    BY <1>8, <2>2, <2>3 DEF FinalizePlan
<1> QED
  BY <1>5, <1>6, <1>7, <1>8 DEF PlanningStep

\* The steps of the thread pool: what is finished is in the staging directory.
LEMMA WorkPoolSteps ==
  ASSUME Sound, NEW p \in Runner,
         \/ ExistingPackage(p) \/ MarkPreparing(p) \/ CollectFailure(p) \/ Drain(p)
         \/ \E s \in Sheet \cup {Whole} :
              PrepareBegin(p, s) \/ PrepareEnd(p, s) \/ PrepareFails(p, s) \/ Collect(p, s)
  PROVE  Stages' /\ Works'
<1> DEFINE r == runner[p]
<1>1. r.pc \in {"existing", "mark_preparing", "prepare", "drain"}
  BY DEF ExistingPackage, MarkPreparing, CollectFailure, Drain, PrepareBegin,
         PrepareEnd, PrepareFails, Collect, Sound, Inv, Pools, PoolOK
<1>2. /\ r.pc # "idle" /\ r.pc \in Executing
      /\ r \in RunnerState /\ StageOK(r) /\ WorkOK(r, staging[r.job], store)
      /\ runner \in [Runner -> RunnerState] /\ r.job \in Job
      /\ staging \in [Job -> Staging] /\ staging[r.job] \in Staging
      /\ r.selection \in Selection
  BY <1>1, Working DEF Executing
<1>3. r.status \in {"preparing", "aggregating"} /\ r.stage # "planning"
      /\ r.ready \cup r.done \subseteq staging[r.job].prepared
  BY <1>2 DEF StageOK, WorkOK
<1>4. Scopes(r.selection) \in SUBSET (Sheet \cup {Whole})
  BY <1>2, ScopesType
<1>5. ASSUME NEW x \in RunnerState, runner' = [runner EXCEPT ![p] = x],
             x.job = r.job, x.selection = r.selection,
             x.status = r.status, x.stage = r.stage,
             x.pc = r.pc \/ (x.pc = "gate" /\ Scopes(r.selection) \subseteq x.done),
             staging' = staging
               \/ \E s \in Sheet \cup {Whole} :
                    staging' = [staging EXCEPT ![r.job].prepared = @ \cup {s}],
             x.ready \cup x.done \subseteq staging'[r.job].prepared,
             UNCHANGED store
      PROVE  Stages' /\ Works'
  <2>1. StageOK(x)
    BY <1>1, <1>2, <1>5 DEF StageOK, Planning, Executing
  <2>2. WorkOK(x, staging'[x.job], store')
    BY <1>1, <1>5 DEF WorkOK, Prepared, Aggregated, Copied
  <2>3. \A j \in Job : /\ staging[j].prepared \subseteq staging'[j].prepared
                       /\ staging'[j].aggregate = staging[j].aggregate
    <3>1. ASSUME NEW s \in Sheet \cup {Whole},
                 staging' = [staging EXCEPT ![r.job].prepared = @ \cup {s}],
                 NEW j \in Job
          PROVE  /\ staging[j].prepared \subseteq staging'[j].prepared
                 /\ staging'[j].aggregate = staging[j].aggregate
      <4>1. staging[j] \in Staging
        BY <1>2
      <4> QED
        BY <1>2, <3>1, <4>1 DEF Staging
    <3> QED
      BY <1>5, <3>1
  <2>4. \A q \in Runner \ {p} : runner[q].pc \in Aggregated =>
          staging'[runner[q].job].aggregate = staging[runner[q].job].aggregate
    BY <2>3, Working DEF Aggregated
  <2> QED
    BY <1>5, <2>1, <2>2, <2>3, <2>4, WorkStep
<1>6. CASE ExistingPackage(p)
  <2>1. UNCHANGED <<staging, store>> /\ r.pc = "existing"
    BY <1>6 DEF ExistingPackage
  <2>2. CASE r.stage = "preparing" /\ Goto(p, "mark_preparing")
    <3>1. [r EXCEPT !.pc = "mark_preparing"].pc = "mark_preparing"
      BY <1>2 DEF RunnerState
    <3>2. WorkOK([r EXCEPT !.pc = "mark_preparing"], staging'[r.job], store')
      BY <1>2, <2>1, <3>1 DEF WorkOK, Prepared, Aggregated, Copied, RunnerState
    <3> QED
      BY <1>2, <1>3, <2>1, <2>2, <3>2, WorkGoto DEF ProgramCounter, Planning
  <2>3. CASE /\ ScopesOf(p) \subseteq staging[r.job].prepared
             /\ runner' = [runner EXCEPT ![p].done = ScopesOf(p), ![p].pc = "gate"]
    <3>1. PICK x : x = [r EXCEPT !.done = ScopesOf(p), !.pc = "gate"]
      OBVIOUS
    <3>2. /\ x \in RunnerState /\ x.pc = "gate" /\ x.job = r.job
          /\ x.selection = r.selection /\ x.status = r.status /\ x.stage = r.stage
          /\ x.ready = r.ready /\ x.done = Scopes(r.selection)
      BY <1>2, <1>4, <3>1 DEF RunnerState, ProgramCounter, ScopesOf
    <3>3. runner' = [runner EXCEPT ![p] = x]
      BY <1>2, <2>3, <3>1
    <3>4. x.ready \cup x.done \subseteq staging'[r.job].prepared
      BY <1>3, <2>1, <2>3, <3>2 DEF ScopesOf
    <3> QED
      BY <1>5, <2>1, <3>2, <3>3, <3>4
  <2> QED
    BY <1>6, <2>2, <2>3 DEF ExistingPackage
<1>7. CASE MarkPreparing(p)
  <2>1. UNCHANGED <<staging, store>> /\ r.pc = "mark_preparing" /\ r.stage = "preparing"
    BY <1>2, <1>7 DEF MarkPreparing, StageOK
  <2>2. CASE KeeperFails(p)
    BY <1>2, <2>1, <2>2, WorkKeeperFails
  <2>3. CASE KeeperCheckpoint(p, "preparing", ProgressOf(r.selection, {}),
               [r EXCEPT !.pc = "prepare", !.queued = ScopesOf(p)])
    <3>1. PICK x : x = [r EXCEPT !.pc = "prepare", !.queued = ScopesOf(p)]
      OBVIOUS
    <3>2. /\ x \in RunnerState /\ x.pc = "prepare"
          /\ x.job = r.job /\ x.selection = r.selection
          /\ x.stage = "preparing" /\ x.ready = r.ready
          /\ x.done = r.done /\ x.copy = r.copy
      BY <1>2, <1>4, <2>1, <3>1 DEF RunnerState, ProgramCounter, ScopesOf
    <3>3. KeeperCheckpoint(p, "preparing", ProgressOf(r.selection, {}), x)
      BY <2>3, <3>1
    <3>4. WorkOK(x, staging[x.job], store)
      BY <1>2, <3>2 DEF WorkOK, Prepared, Aggregated, Copied
    <3>5. ProgressOf(r.selection, {}) \in Progress
      BY <1>2, ProgressType
    <3>6. x.pc \notin Planning
      BY <3>2 DEF Planning
    <3> QED
      BY <1>2, <2>1, <3>2, <3>3, <3>4, <3>5, <3>6, WorkCheckpoint
  <2> QED
    BY <1>7, <2>2, <2>3 DEF MarkPreparing
<1>8. CASE CollectFailure(p)
  BY <1>2, <1>8, WorkRaise DEF CollectFailure, RunnerState
<1>9. CASE Drain(p)
  <2>1. [r EXCEPT !.pc = "unlock"] = [r EXCEPT !.pc = "unlock", !.latch = r.latch]
    BY <1>2 DEF RunnerState
  <2>2. /\ runner' = [runner EXCEPT ![p] = [r EXCEPT !.pc = "unlock", !.latch = r.latch]]
        /\ UNCHANGED <<staging, store>>
    BY <1>2, <1>9, <2>1 DEF Drain, Goto
  <2>3. r.latch \in {"ok", "lost", "unavailable", "finalized"}
    BY <1>2 DEF RunnerState
  <2> QED
    BY <1>2, <2>2, <2>3, WorkLatch
<1>10. ASSUME NEW s \in Sheet \cup {Whole}, PrepareBegin(p, s)
       PROVE  Stages' /\ Works'
  <2>1. PICK x : x = [r EXCEPT !.queued = @ \ {s}, !.running = @ \cup {s}]
    OBVIOUS
  <2>2. /\ x \in RunnerState /\ x.pc = r.pc /\ x.job = r.job
        /\ x.selection = r.selection /\ x.status = r.status /\ x.stage = r.stage
        /\ x.ready = r.ready /\ x.done = r.done
    BY <1>2, <1>10, <2>1 DEF RunnerState
  <2>3. runner' = [runner EXCEPT ![p] = x] /\ UNCHANGED <<staging, store>>
    BY <1>2, <1>10, <2>1 DEF PrepareBegin
  <2> QED
    BY <1>3, <1>5, <2>2, <2>3
<1>11. ASSUME NEW s \in Sheet \cup {Whole}, PrepareFails(p, s)
       PROVE  Stages' /\ Works'
  <2>1. PICK x : x = [r EXCEPT !.running = @ \ {s}, !.broken = TRUE]
    OBVIOUS
  <2>2. /\ x \in RunnerState /\ x.pc = r.pc /\ x.job = r.job
        /\ x.selection = r.selection /\ x.status = r.status /\ x.stage = r.stage
        /\ x.ready = r.ready /\ x.done = r.done
    BY <1>2, <1>11, <2>1 DEF RunnerState
  <2>3. runner' = [runner EXCEPT ![p] = x] /\ UNCHANGED <<staging, store>>
    BY <1>2, <1>11, <2>1 DEF PrepareFails
  <2> QED
    BY <1>3, <1>5, <2>2, <2>3
<1>12. ASSUME NEW s \in Sheet \cup {Whole}, PrepareEnd(p, s)
       PROVE  Stages' /\ Works'
  <2>1. PICK x : x = [r EXCEPT !.running = @ \ {s}, !.ready = @ \cup {s}]
    OBVIOUS
  <2>2. /\ x \in RunnerState /\ x.pc = r.pc /\ x.job = r.job
        /\ x.selection = r.selection /\ x.status = r.status /\ x.stage = r.stage
        /\ x.ready = r.ready \cup {s} /\ x.done = r.done
    BY <1>2, <1>12, <2>1 DEF RunnerState
  <2>3. /\ runner' = [runner EXCEPT ![p] = x] /\ UNCHANGED store
        /\ staging' = [staging EXCEPT ![r.job].prepared = @ \cup {s}]
    BY <1>2, <1>12, <2>1 DEF PrepareEnd
  <2>4. staging'[r.job].prepared = staging[r.job].prepared \cup {s}
    BY <1>2, <2>3 DEF Staging
  <2> QED
    BY <1>3, <1>5, <2>2, <2>3, <2>4
<1>13. ASSUME NEW s \in Sheet \cup {Whole}, Collect(p, s)
       PROVE  Stages' /\ Works'
  <2>1. /\ r.pc = "prepare" /\ s \in r.ready /\ UNCHANGED <<staging, store>>
        /\ r.stage = "preparing"
    BY <1>2, <1>13 DEF Collect, StageOK
  <2>2. PICK done : done = r.done \cup {s}
    OBVIOUS
  <2>3. done \in SUBSET (Sheet \cup {Whole})
    BY <1>2, <2>2 DEF RunnerState
  <2>4. CASE KeeperFails(p)
    BY <1>2, <2>1, <2>4, WorkKeeperFails
  <2>5. CASE KeeperCheckpoint(p, "preparing", ProgressOf(r.selection, done),
               [r EXCEPT !.done = done, !.ready = @ \ {s},
                         !.pc = IF done = ScopesOf(p) THEN "gate" ELSE "prepare"])
    <3>1. PICK x : x = [r EXCEPT !.done = done, !.ready = @ \ {s},
                          !.pc = IF done = ScopesOf(p) THEN "gate" ELSE "prepare"]
      OBVIOUS
    <3>2. /\ x \in RunnerState
          /\ x.pc = IF done = ScopesOf(p) THEN "gate" ELSE "prepare"
          /\ x.job = r.job /\ x.selection = r.selection /\ x.stage = "preparing"
          /\ x.ready = r.ready \ {s} /\ x.done = done
      BY <1>2, <2>1, <2>3, <3>1 DEF RunnerState, ProgramCounter
    <3>3. KeeperCheckpoint(p, "preparing", ProgressOf(r.selection, done), x)
      BY <2>5, <3>1
    <3>4. x.ready \cup x.done \subseteq staging[x.job].prepared
      BY <1>3, <2>1, <2>2, <3>2
    <3>5. x.pc = "prepare" \/ (x.pc = "gate" /\ Scopes(x.selection) \subseteq x.done)
      BY <3>2 DEF ScopesOf
    <3>6. WorkOK(x, staging[x.job], store)
      BY <3>4, <3>5 DEF WorkOK, Prepared, Aggregated, Copied
    <3>7. ProgressOf(r.selection, done) \in Progress
      BY <1>2, <2>3, ProgressType
    <3>8. x.pc \notin Planning
      BY <3>5 DEF Planning
    <3> QED
      BY <1>2, <2>1, <3>2, <3>3, <3>6, <3>7, <3>8, WorkCheckpoint
  <2> QED
    BY <1>13, <2>2, <2>4, <2>5 DEF Collect
<1> QED
  BY <1>6, <1>7, <1>8, <1>9, <1>10, <1>11, <1>12, <1>13
\* The steps after the thread pool: the package is aggregated by the call that
\* holds the lock file, and the copy that is stored holds all of it.
LEMMA WorkPublicationSteps ==
  ASSUME Sound, NEW p \in Runner,
         \/ SkipAggregation(p) \/ MarkAggregating(p) \/ Aggregate(p)
         \/ VerifyPackage(p) \/ CopyPackage(p) \/ StorePackage(p) \/ FinalizeBundle(p)
  PROVE  Stages' /\ Works'
<1> DEFINE r == runner[p]
           s == staging[r.job]
<1>1. r.pc \in Prepared
  BY DEF SkipAggregation, MarkAggregating, Aggregate, VerifyPackage, CopyPackage,
         StorePackage, FinalizeBundle, Prepared
<1>2. /\ r.pc # "idle" /\ r.pc \in Executing
      /\ r \in RunnerState /\ StageOK(r) /\ WorkOK(r, s, store)
      /\ runner \in [Runner -> RunnerState] /\ r.job \in Job
      /\ staging \in [Job -> Staging] /\ s \in Staging
      /\ r.selection \in Selection
  BY <1>1, Working DEF Executing, Prepared
<1>3. /\ r.status \in {"preparing", "aggregating"} /\ r.stage # "planning"
      /\ r.ready \cup r.done \subseteq s.prepared
      /\ Scopes(r.selection) \subseteq s.prepared
  BY <1>1, <1>2 DEF StageOK, WorkOK
<1>4. /\ Scopes(r.selection) \in SUBSET (Sheet \cup {Whole})
      /\ r.selection.sheets \in SUBSET Sheet
  BY <1>2, ScopesType
<1>5. CASE SkipAggregation(p)
  <2>1. /\ r.pc = "gate" /\ Goto(p, "verify") /\ UNCHANGED <<staging, store>>
        /\ Cardinality(Scopes(r.selection)) = 1
    BY <1>5 DEF SkipAggregation, ScopesOf
  <2>2. /\ [r EXCEPT !.pc = "verify"].pc = "verify"
        /\ [r EXCEPT !.pc = "verify"].selection = r.selection
        /\ [r EXCEPT !.pc = "verify"].ready = r.ready
        /\ [r EXCEPT !.pc = "verify"].done = r.done
    BY <1>2 DEF RunnerState
  <2>3. WorkOK([r EXCEPT !.pc = "verify"], staging'[r.job], store')
    BY <1>3, <2>1, <2>2 DEF WorkOK, Copied
  <2> QED
    BY <1>2, <1>3, <2>1, <2>3, WorkGoto DEF ProgramCounter, Planning
<1>6. CASE MarkAggregating(p)
  <2>1. r.pc = "gate" /\ UNCHANGED <<staging, store>>
    BY <1>6 DEF MarkAggregating
  <2>2. CASE KeeperFails(p)
    BY <1>2, <2>1, <2>2, WorkKeeperFails
  <2>3. CASE KeeperCheckpoint(p, "aggregating", ProgressOf(r.selection, ScopesOf(p)),
               [r EXCEPT !.pc = "aggregate", !.stage = "aggregating"])
    <3>1. PICK x : x = [r EXCEPT !.pc = "aggregate", !.stage = "aggregating"]
      OBVIOUS
    <3>2. /\ x \in RunnerState /\ x.pc = "aggregate"
          /\ x.job = r.job /\ x.selection = r.selection /\ x.stage = "aggregating"
          /\ x.ready = r.ready /\ x.done = r.done
      BY <1>2, <3>1 DEF RunnerState, ProgramCounter
    <3>3. KeeperCheckpoint(p, "aggregating", ProgressOf(r.selection, ScopesOf(p)), x)
      BY <2>3, <3>1
    <3>4. WorkOK(x, staging[x.job], store)
      BY <1>3, <3>2 DEF WorkOK, Aggregated, Copied
    <3>5. ProgressOf(r.selection, ScopesOf(p)) \in Progress
      BY <1>2, <1>4, ProgressType DEF ScopesOf
    <3>6. x.pc \notin Planning
      BY <3>2 DEF Planning
    <3> QED
      BY <1>2, <2>1, <3>2, <3>3, <3>4, <3>5, <3>6, WorkCheckpoint
  <2> QED
    BY <1>6, <2>2, <2>3 DEF MarkAggregating
<1>7. CASE Aggregate(p)
  <2>1. /\ r.pc = "aggregate" /\ Goto(p, "verify") /\ UNCHANGED <<store, lock>>
        /\ staging' = [staging EXCEPT ![r.job].aggregate = r.selection.sheets]
    BY <1>7 DEF Aggregate
  <2>2. PICK t : t = [s EXCEPT !.aggregate = r.selection.sheets]
    OBVIOUS
  <2>3. /\ t.prepared = s.prepared /\ t.aggregate = r.selection.sheets
        /\ staging' = [staging EXCEPT ![r.job] = t]
    BY <1>2, <2>1, <2>2 DEF Staging
  <2>4. /\ [r EXCEPT !.pc = "verify"].pc = "verify"
        /\ [r EXCEPT !.pc = "verify"].selection = r.selection
        /\ [r EXCEPT !.pc = "verify"].ready = r.ready
        /\ [r EXCEPT !.pc = "verify"].done = r.done
    BY <1>2 DEF RunnerState
  <2>5. WorkOK([r EXCEPT !.pc = "verify"], staging'[r.job], store')
    BY <1>2, <1>3, <2>3, <2>4 DEF WorkOK, Copied
  <2>6. \A j \in Job : staging[j].prepared \subseteq staging'[j].prepared
    BY <1>2, <2>3
  <2>7. ASSUME NEW q \in Runner \ {p}, runner[q].pc \in Aggregated
        PROVE  staging'[runner[q].job].aggregate = staging[runner[q].job].aggregate
    <3>1. lock[r.job] = p /\ lock[runner[q].job] = q
      BY <2>1, <2>7 DEF Sound, Inv, Locks, Aggregated
    <3>2. runner[q].job \in Job
      BY <2>7, Working DEF Aggregated
    <3> QED
      BY <1>2, <2>3, <3>1, <3>2
  <2> QED
    BY <1>2, <1>3, <2>1, <2>5, <2>6, <2>7, WorkGoto DEF ProgramCounter, Planning
<1>8. ASSUME NEW x \in RunnerState, runner' = [runner EXCEPT ![p] = x],
             x.pc \in {"copy", "store"}, x.job = r.job, x.selection = r.selection,
             x.status = r.status, x.stage \in {r.stage, "publishing"},
             x.ready = r.ready, x.done = r.done,
             r.pc \in Aggregated,
             x.pc = "store" => HoldsAll(x.copy, x.job, x.selection),
             UNCHANGED <<staging, store>>
      PROVE  Stages' /\ Works'
  <2>1. StageOK(x)
    BY <1>2, <1>3, <1>8 DEF StageOK, Planning, Executing
  <2>2. WorkOK(x, staging[x.job], store)
    BY <1>2, <1>3, <1>8 DEF WorkOK, Copied, Aggregated, Prepared
  <2> QED
    BY <1>8, <2>1, <2>2, WorkStays
<1>9. CASE VerifyPackage(p)
  <2>1. PICK x : x = [r EXCEPT !.pc = "copy", !.stage = "publishing"]
    OBVIOUS
  <2>2. /\ x \in RunnerState /\ x.pc = "copy" /\ x.job = r.job
        /\ x.selection = r.selection /\ x.status = r.status /\ x.stage = "publishing"
        /\ x.ready = r.ready /\ x.done = r.done
    BY <1>2, <2>1 DEF RunnerState, ProgramCounter
  <2>3. /\ runner' = [runner EXCEPT ![p] = x] /\ UNCHANGED <<staging, store>>
        /\ r.pc \in Aggregated
    BY <1>2, <1>9, <2>1 DEF VerifyPackage, Aggregated
  <2> QED
    BY <1>8, <2>2, <2>3
<1>10. CASE CopyPackage(p)
  <2>1. PICK copy : copy = [job |-> r.job, selection |-> r.selection,
                            scopes |-> s.prepared, aggregate |-> s.aggregate]
    OBVIOUS
  <2>2. copy \in Snapshot
    BY <1>2, <2>1 DEF Snapshot, Staging
  <2>3. PICK x : x = [r EXCEPT !.pc = "store", !.copy = copy]
    OBVIOUS
  <2>4. /\ x \in RunnerState /\ x.pc = "store" /\ x.copy = copy /\ x.job = r.job
        /\ x.selection = r.selection /\ x.status = r.status /\ x.stage = r.stage
        /\ x.ready = r.ready /\ x.done = r.done
    BY <1>2, <2>2, <2>3 DEF RunnerState, ProgramCounter
  <2>5. /\ runner' = [runner EXCEPT ![p] = x] /\ UNCHANGED <<staging, store>>
        /\ r.pc \in Aggregated
    BY <1>2, <1>10, <2>1, <2>3 DEF CopyPackage, Aggregated
  <2>6. Cardinality(Scopes(r.selection)) > 1 => s.aggregate = r.selection.sheets
    BY <1>2, <2>5 DEF WorkOK
  <2>7. HoldsAll(copy, r.job, r.selection)
    BY <1>3, <2>1, <2>6 DEF HoldsAll
  <2> QED
    BY <1>8, <2>4, <2>5, <2>7
<1>11. CASE StorePackage(p)
  <2>1. /\ r.pc = "store" /\ Goto(p, "publish_bundle")
        /\ store' = store \cup {r.copy} /\ UNCHANGED staging
    BY <1>11 DEF StorePackage
  <2>2. /\ [r EXCEPT !.pc = "publish_bundle"].pc = "publish_bundle"
        /\ [r EXCEPT !.pc = "publish_bundle"].selection = r.selection
        /\ [r EXCEPT !.pc = "publish_bundle"].job = r.job
        /\ [r EXCEPT !.pc = "publish_bundle"].copy = r.copy
        /\ [r EXCEPT !.pc = "publish_bundle"].ready = r.ready
        /\ [r EXCEPT !.pc = "publish_bundle"].done = r.done
    BY <1>2 DEF RunnerState
  <2>3. /\ Cardinality(Scopes(r.selection)) > 1 => s.aggregate = r.selection.sheets
        /\ HoldsAll(r.copy, r.job, r.selection)
    BY <1>2, <2>1 DEF WorkOK, Aggregated, Copied
  <2>4. r.copy \in store'
    BY <2>1
  <2>5. WorkOK([r EXCEPT !.pc = "publish_bundle"], staging'[r.job], store')
    BY <1>3, <2>1, <2>2, <2>3, <2>4 DEF WorkOK
  <2>6. store \subseteq store'
    BY <2>1
  <2> QED
    BY <1>2, <1>3, <2>1, <2>5, <2>6, WorkGoto DEF ProgramCounter, Planning
<1>12. CASE FinalizeBundle(p)
  <2>1. UNCHANGED <<staging, store>>
    BY <1>12 DEF FinalizeBundle
  <2>2. CASE KeeperFails(p)
    BY <1>2, <2>1, <2>2, WorkKeeperFails
  <2>3. CASE Finalized(p)
    BY <1>2, <2>1, <2>3, WorkLatch DEF Finalized
  <2> QED
    BY <1>12, <2>2, <2>3 DEF FinalizeBundle
<1> QED
  BY <1>5, <1>6, <1>7, <1>9, <1>10, <1>11, <1>12

-----------------------------------------------------------------------------
(* What happens to the rows.                                                *)

\* The transactions that change a row, and time.  Everything else a call does
\* leaves the tables alone.
Transactions ==
  \/ \E c \in StartCommand : ClaimPlanning(c.job, c.workbook)
  \/ \E c \in ScopeCommand : ClaimExecution(c.job, c.key, c.selection)
  \/ \E j \in Job, fence \in Nat :
       \/ PublishPlan(j, fence)
       \/ \E status \in {"planning", "preparing", "aggregating"}, progress \in Progress :
            Checkpoint(j, fence, status, progress)
       \/ \E stage \in {"planning", "preparing", "aggregating", "publishing"} :
            Fail(j, fence, stage)
       \/ \E copy \in store :
            /\ HoldsAll(copy, j, copy.selection) /\ copy # None
            /\ PublishBundle(j, fence, copy)
  \/ Tick

\* Every step is one of these transactions, or changes no row.
LEMMA EveryTransaction ==
  ASSUME Sound, [Next]_vars
  PROVE  Transactions \/ UNCHANGED rows
<1> USE DEF Transactions
<1>1. ASSUME NEW p \in Runner, runner[p].pc # "idle"
      PROVE  runner[p].job \in Job /\ runner[p].fence \in Nat
             /\ runner[p].progress \in Progress
             /\ runner[p].status \in {"planning", "preparing", "aggregating"}
             /\ runner[p].stage \in {"planning", "preparing", "aggregating", "publishing"}
  BY <1>1, Working DEF RunnerState, StageOK
<1>2. ASSUME NEW p \in Runner, runner[p].pc # "idle",
             NEW status \in {"planning", "preparing", "aggregating"},
             NEW progress \in Progress, NEW next,
             KeeperCheckpoint(p, status, progress, next)
      PROVE  Transactions
  BY <1>1, <1>2 DEF KeeperCheckpoint
<1>3. ASSUME NEW p \in Runner, KeeperFails(p) PROVE UNCHANGED rows
  BY <1>3 DEF KeeperFails
<1>4. ASSUME NEW p \in Runner, NEW c \in StartCommand, Start(p, c) PROVE Transactions
  BY <1>4 DEF Start
<1>5. ASSUME NEW p \in Runner, NEW c \in ScopeCommand, SelectScope(p, c) PROVE Transactions
  BY <1>5 DEF SelectScope
<1>6. ASSUME NEW p \in Runner, EnterLease(p) \/ Heartbeat(p)
      PROVE  Transactions \/ UNCHANGED rows
  BY <1>1, <1>2, <1>3, <1>6 DEF EnterLease, Heartbeat
<1>7. ASSUME NEW p \in Runner, FailQuietly(p) PROVE Transactions \/ UNCHANGED rows
  BY <1>1, <1>7 DEF FailQuietly
<1>8. ASSUME NEW p \in Runner, MarkPlanning(p) \/ FinalizePlan(p)
      PROVE  Transactions \/ UNCHANGED rows
  <2>1. NoProgress \in Progress /\ runner[p].pc # "idle"
    BY <1>8 DEF MarkPlanning, FinalizePlan, NoProgress, Progress
  <2>2. CASE MarkPlanning(p)
    BY <1>2, <1>3, <2>1, <2>2 DEF MarkPlanning
  <2>3. CASE FinalizePlan(p)
    BY <1>1, <1>3, <2>1, <2>3 DEF FinalizePlan
  <2> QED
    BY <1>8, <2>2, <2>3
<1>9. ASSUME NEW p \in Runner,
             \/ MarkPreparing(p) \/ MarkAggregating(p)
             \/ \E s \in Sheet \cup {Whole} : Collect(p, s)
      PROVE  Transactions \/ UNCHANGED rows
  <2>1. /\ runner[p].pc # "idle" /\ runner[p].selection \in Selection
        /\ runner[p].done \in SUBSET (Sheet \cup {Whole})
    BY <1>9, Working DEF MarkPreparing, MarkAggregating, Collect, Executing, RunnerState
  <2>2. \A done \in SUBSET (Sheet \cup {Whole}) :
          ProgressOf(runner[p].selection, done) \in Progress
    BY <2>1, ProgressType
  <2>3. ScopesOf(p) \in SUBSET (Sheet \cup {Whole})
    BY <2>1, ScopesType DEF ScopesOf
  <2>4. CASE MarkPreparing(p)
    BY <1>2, <1>3, <2>1, <2>2, <2>4 DEF MarkPreparing
  <2>5. CASE MarkAggregating(p)
    BY <1>2, <1>3, <2>1, <2>2, <2>3, <2>5 DEF MarkAggregating
  <2>6. ASSUME NEW s \in Sheet \cup {Whole}, Collect(p, s)
        PROVE  Transactions \/ UNCHANGED rows
    <3>1. ProgressOf(runner[p].selection, runner[p].done \cup {s}) \in Progress
      BY <2>1, <2>2
    <3> QED
      BY <1>2, <1>3, <2>1, <2>6, <3>1 DEF Collect
  <2> QED
    BY <1>9, <2>4, <2>5, <2>6, SMTT(30)
<1>10. ASSUME NEW p \in Runner, FinalizeBundle(p) PROVE Transactions \/ UNCHANGED rows
  <2>1. runner[p].pc = "publish_bundle"
    BY <1>10 DEF FinalizeBundle
  <2>2. /\ runner[p].copy \in store
        /\ HoldsAll(runner[p].copy, runner[p].job, runner[p].selection)
    BY <2>1, Working DEF WorkOK, Copied
  <2>3. runner[p].copy # None
    BY <2>2 DEF Sound, Inv, TypeOK
  <2>4. HoldsAll(runner[p].copy, runner[p].job, runner[p].copy.selection)
    BY <2>2 DEF HoldsAll
  <2> QED
    BY <1>1, <1>3, <1>10, <2>1, <2>2, <2>3, <2>4 DEF FinalizeBundle
<1>11. ASSUME NEW p \in Runner,
              \/ AcquireLock(p) \/ GiveUpLock(p) \/ Unlock(p) \/ WorkFails(p)
              \/ HeartbeatFails(p) \/ LockFails(p) \/ Crash(p)
              \/ Materialize(p) \/ Convert(p) \/ PlanScopes(p)
       PROVE  UNCHANGED rows
  BY <1>11, SMTT(30)
     DEF AcquireLock, GiveUpLock, Unlock, WorkFails, HeartbeatFails, LockFails,
               Crash, Materialize, Convert, PlanScopes
<1>12. ASSUME NEW p \in Runner,
              \/ ExistingPackage(p) \/ CollectFailure(p) \/ Drain(p) \/ SkipAggregation(p)
              \/ Aggregate(p) \/ VerifyPackage(p) \/ CopyPackage(p) \/ StorePackage(p)
              \/ \E s \in Sheet \cup {Whole} :
                   PrepareBegin(p, s) \/ PrepareEnd(p, s) \/ PrepareFails(p, s)
       PROVE  UNCHANGED rows
  BY <1>12 DEF ExistingPackage, CollectFailure, Drain, SkipAggregation, Aggregate,
               VerifyPackage, CopyPackage, StorePackage, PrepareBegin, PrepareEnd,
               PrepareFails
<1>13. ASSUME NEW p \in Runner, RunnerStep(p) PROVE Transactions \/ UNCHANGED rows
  BY <1>6, <1>7, <1>8, <1>9, <1>10, <1>11, <1>12, <1>13
  DEF RunnerStep, PlanningStep, ExecutionStep
<1>14. CASE UNCHANGED vars
  BY <1>14 DEF vars
<1> QED
  BY <1>4, <1>5, <1>6, <1>11, <1>13, <1>14 DEF Next
\* What the promise speaks of is the same for job i after the step.
Kept(i) ==
  /\ \/ jobs'[i].status = jobs[i].status
     \/ {jobs[i].status, jobs'[i].status} \subseteq {"preparing", "aggregating"}
  /\ jobs'[i].workbook = jobs[i].workbook
  /\ jobs'[i].key = jobs[i].key
  /\ jobs'[i].selection = jobs[i].selection
  /\ bundles'[i] = bundles[i]

\* The five ways in which a job moves on.
Submitted(j) ==
  /\ jobs[j].status = "absent" /\ jobs'[j].status = "planning"
  /\ jobs'[j].workbook \in Workbook
  /\ jobs'[j].key = jobs[j].key /\ jobs'[j].selection = jobs[j].selection
  /\ bundles'[j] = bundles[j]

Planned(j) ==
  /\ jobs[j].status = "planning" /\ jobs'[j].status = "awaiting_scope"
  /\ jobs'[j].workbook = jobs[j].workbook
  /\ jobs'[j].key = jobs[j].key /\ jobs'[j].selection = jobs[j].selection
  /\ bundles'[j] = bundles[j]

Bound(j) ==
  /\ jobs[j].status = "awaiting_scope" /\ jobs'[j].status = "preparing"
  /\ jobs'[j].workbook = jobs[j].workbook
  /\ jobs'[j].key \in ExecutionKey /\ jobs'[j].selection \in Selection
  /\ bundles'[j] = bundles[j]

Published(j) ==
  /\ jobs[j].status \in {"preparing", "aggregating"} /\ jobs'[j].status = "published"
  /\ jobs'[j].workbook = jobs[j].workbook
  /\ jobs'[j].key = jobs[j].key /\ jobs'[j].selection = jobs[j].selection
  /\ bundles'[j] \in store /\ bundles'[j] # None
  /\ HoldsAll(bundles'[j], j, jobs[j].selection)

GivenUp(j) ==
  /\ jobs[j].status \in {"planning", "preparing", "aggregating"}
  /\ jobs'[j].status = "failed"
  /\ jobs'[j].workbook = jobs[j].workbook
  /\ jobs'[j].key = jobs[j].key /\ jobs'[j].selection = jobs[j].selection
  /\ bundles'[j] = bundles[j]

\* A claim or a release of a row changes nothing the promise speaks of.
LEMMA LeaseFields ==
  ASSUME NEW row \in JobRow
  PROVE  /\ Leased(row).status = row.status /\ Leased(row).workbook = row.workbook
         /\ Leased(row).key = row.key /\ Leased(row).selection = row.selection
         /\ Released(row).status = row.status /\ Released(row).workbook = row.workbook
         /\ Released(row).key = row.key /\ Released(row).selection = row.selection
  BY DEF Leased, Released, JobRow

\* A step moves at most one job on, in one of the five ways.
LEMMA OneJobMoves ==
  ASSUME Sound, Transactions
  PROVE  \E j \in Job :
           /\ \/ Kept(j) \/ Submitted(j) \/ Planned(j) \/ Bound(j)
              \/ Published(j) \/ GivenUp(j)
           /\ \A i \in Job \ {j} : Kept(i)
<1>1. jobs \in [Job -> JobRow] /\ bundles \in [Job -> Snapshot \cup {None}]
  BY DEF Sound, Inv, TypeOK, RepositoryTypeOK
<1>2. ASSUME NEW c \in StartCommand, ClaimPlanning(c.job, c.workbook)
      PROVE  /\ Kept(c.job) \/ Submitted(c.job)
             /\ \A i \in Job \ {c.job} : Kept(i)
  <2>1. c.job \in Job /\ c.workbook \in Workbook /\ UNCHANGED bundles
    BY <1>2 DEF ClaimPlanning
  <2>2. jobs[c.job] \in JobRow
    BY <1>1, <2>1
  <2>3. CASE jobs[c.job].status = "absent"
    <3>1. PICK new : new = [NoJob EXCEPT !.status = "planning", !.workbook = c.workbook]
      OBVIOUS
    <3>2. /\ new \in JobRow /\ new.status = "planning" /\ new.workbook = c.workbook
          /\ new.key = None /\ new.selection = None
      BY <2>1, <3>1 DEF NoJob, NoProgress, JobRow, Status, Progress
    <3>3. jobs' = [jobs EXCEPT ![c.job] = Leased(new)]
      BY <1>2, <2>3, <3>1 DEF ClaimPlanning
    <3>4. jobs[c.job].key = None /\ jobs[c.job].selection = None
      BY <2>1, <2>3 DEF Sound, Inv, Rows, NoJob
    <3> QED
      BY <1>1, <2>1, <2>3, <3>2, <3>3, <3>4, LeaseFields DEF Kept, Submitted
  <2>4. CASE jobs' = [jobs EXCEPT ![c.job] = Leased(@)]
    <3>1. jobs' = [jobs EXCEPT ![c.job] = Leased(jobs[c.job])]
      BY <2>4
    <3> QED
      BY <1>1, <2>1, <2>2, <3>1, LeaseFields DEF Kept
  <2> QED
    BY <1>2, <2>3, <2>4 DEF ClaimPlanning
<1>3. ASSUME NEW c \in ScopeCommand, ClaimExecution(c.job, c.key, c.selection)
      PROVE  /\ Kept(c.job) \/ Bound(c.job)
             /\ \A i \in Job \ {c.job} : Kept(i)
  <2>1. /\ c.job \in Job /\ c.key \in ExecutionKey /\ c.selection \in Selection
        /\ UNCHANGED bundles
    BY <1>3 DEF ClaimExecution
  <2>2. jobs[c.job] \in JobRow
    BY <1>1, <2>1
  <2>3. CASE jobs[c.job].status = "awaiting_scope"
    <3>1. PICK new : new = [jobs[c.job] EXCEPT !.status = "preparing", !.key = c.key,
                              !.selection = c.selection,
                              !.progress = ProgressOf(c.selection, {})]
      OBVIOUS
    <3>2. ProgressOf(c.selection, {}) \in Progress
      BY <2>1, ProgressType
    <3>3. /\ new \in JobRow /\ new.status = "preparing"
          /\ new.workbook = jobs[c.job].workbook
          /\ new.key = c.key /\ new.selection = c.selection
      BY <2>1, <2>2, <3>1, <3>2 DEF JobRow, Status
    <3>4. jobs' = [jobs EXCEPT ![c.job] = Leased(new)]
      BY <1>3, <2>3, <3>1 DEF ClaimExecution
    <3> QED
      BY <1>1, <2>1, <2>3, <3>3, <3>4, LeaseFields DEF Kept, Bound
  <2>4. CASE jobs' = [jobs EXCEPT ![c.job] = Leased(@)]
    <3>1. jobs' = [jobs EXCEPT ![c.job] = Leased(jobs[c.job])]
      BY <2>4
    <3> QED
      BY <1>1, <2>1, <2>2, <3>1, LeaseFields DEF Kept
  <2> QED
    BY <1>3, <2>3, <2>4 DEF ClaimExecution
<1>4. ASSUME NEW j \in Job, NEW new \in JobRow,
             jobs' = [jobs EXCEPT ![j] = new] \/ jobs' = [jobs EXCEPT ![j] = Released(new)]
      PROVE  /\ jobs'[j].status = new.status /\ jobs'[j].workbook = new.workbook
             /\ jobs'[j].key = new.key /\ jobs'[j].selection = new.selection
             /\ \A i \in Job \ {j} : jobs'[i] = jobs[i]
  BY <1>1, <1>4, LeaseFields
<1>5. ASSUME NEW j \in Job, NEW fence \in Nat, PublishPlan(j, fence)
      PROVE  Planned(j) /\ \A i \in Job \ {j} : Kept(i)
  <2>1. PICK new : new = [jobs[j] EXCEPT !.status = "awaiting_scope", !.progress = NoProgress]
    OBVIOUS
  <2>2. /\ new \in JobRow /\ new.status = "awaiting_scope"
        /\ new.workbook = jobs[j].workbook
        /\ new.key = jobs[j].key /\ new.selection = jobs[j].selection
    <3>1. NoProgress \in Progress /\ jobs[j] \in JobRow
      BY <1>1 DEF NoProgress, Progress
    <3> QED
      BY <2>1, <3>1 DEF JobRow, Status
  <2>3. /\ jobs' = [jobs EXCEPT ![j] = Released(new)] /\ UNCHANGED bundles
        /\ jobs[j].status = "planning"
    BY <1>5, <2>1 DEF PublishPlan
  <2> QED
    BY <1>4, <2>2, <2>3 DEF Planned, Kept
<1>6. ASSUME NEW j \in Job, NEW fence \in Nat,
             NEW status \in {"planning", "preparing", "aggregating"},
             NEW progress \in Progress, Checkpoint(j, fence, status, progress)
      PROVE  Kept(j) /\ \A i \in Job \ {j} : Kept(i)
  <2>1. PICK new : new = [jobs[j] EXCEPT !.status = status, !.progress = progress,
                                         !.left = LeaseTtl]
    OBVIOUS
  <2>2. /\ new \in JobRow /\ new.status = status
        /\ new.workbook = jobs[j].workbook
        /\ new.key = jobs[j].key /\ new.selection = jobs[j].selection
    BY <1>1, <2>1, ZenonT(60) DEF JobRow, Status
  <2>3. /\ jobs' = [jobs EXCEPT ![j] = new] /\ UNCHANGED bundles
        /\ \/ jobs[j].status = status
           \/ jobs[j].status = "preparing" /\ status = "aggregating"
    BY <1>1, <1>6, <2>1 DEF Checkpoint, CheckpointAllowed
  <2> QED
    BY <1>4, <2>2, <2>3 DEF Kept
<1>7. ASSUME NEW j \in Job, NEW fence \in Nat,
             NEW stage \in {"planning", "preparing", "aggregating", "publishing"},
             Fail(j, fence, stage)
      PROVE  GivenUp(j) /\ \A i \in Job \ {j} : Kept(i)
  <2>1. PICK new : new = [jobs[j] EXCEPT !.status = "failed"]
    OBVIOUS
  <2>2. /\ new \in JobRow /\ new.status = "failed"
        /\ new.workbook = jobs[j].workbook
        /\ new.key = jobs[j].key /\ new.selection = jobs[j].selection
    BY <1>1, <2>1 DEF JobRow, Status
  <2>3. /\ jobs' = [jobs EXCEPT ![j] = Released(new)] /\ UNCHANGED bundles
        /\ jobs[j].status \in {"planning", "preparing", "aggregating"}
    BY <1>7, <2>1 DEF Fail, CanFail, HoldsLease
  <2> QED
    BY <1>4, <2>2, <2>3 DEF GivenUp, Kept
<1>8. ASSUME NEW j \in Job, NEW fence \in Nat, NEW copy \in store,
             HoldsAll(copy, j, copy.selection), copy # None, PublishBundle(j, fence, copy)
      PROVE  Published(j) /\ \A i \in Job \ {j} : Kept(i)
  <2>1. PICK new : new = [jobs[j] EXCEPT !.status = "published"]
    OBVIOUS
  <2>2. /\ new \in JobRow /\ new.status = "published"
        /\ new.workbook = jobs[j].workbook
        /\ new.key = jobs[j].key /\ new.selection = jobs[j].selection
    BY <1>1, <2>1 DEF JobRow, Status
  <2>3. /\ jobs' = [jobs EXCEPT ![j] = Released(new)]
        /\ bundles'[j] = copy /\ \A i \in Job \ {j} : bundles'[i] = bundles[i]
        /\ jobs[j].status \in {"preparing", "aggregating"}
        /\ copy.selection = jobs[j].selection
    BY <1>1, <1>8, <2>1 DEF PublishBundle, CanPublishBundle
  <2> QED
    BY <1>4, <1>8, <2>2, <2>3 DEF Published, Kept
<1>9. CASE Tick
  <2>1. \E j \in Job : TRUE
    BY <1>9 DEF Tick
  <2>2. \A i \in Job : Kept(i)
    <3> SUFFICES ASSUME NEW i \in Job PROVE Kept(i)
      OBVIOUS
    <3>1. jobs[i] \in JobRow
      BY <1>1
    <3>2. jobs'[i] = [jobs[i] EXCEPT !.left = IF @ > 0 THEN @ - 1 ELSE 0] /\ UNCHANGED bundles
      BY <1>9 DEF Tick
    <3> QED
      BY <3>1, <3>2 DEF Kept, JobRow
  <2> QED
    BY <2>1, <2>2
<1>10. ASSUME NEW c \in StartCommand PROVE c.job \in Job
  OBVIOUS
<1>11. ASSUME NEW c \in ScopeCommand PROVE c.job \in Job
  OBVIOUS
<1> QED
  BY <1>2, <1>3, <1>5, <1>6, <1>7, <1>8, <1>9, <1>10, <1>11 DEF Transactions

\* No package is ever removed from the store.
LEMMA StoreGrows ==
  ASSUME [Next]_vars
  PROVE  store \subseteq store'
<1>1. ASSUME NEW p \in Runner, RunnerStep(p) PROVE store \subseteq store'
  BY <1>1 DEF RunnerStep, EnterLease, AcquireLock, GiveUpLock, Unlock, FailQuietly,
              WorkFails, PlanningStep, Materialize, Convert, MarkPlanning, PlanScopes,
              FinalizePlan, ExecutionStep, ExistingPackage, MarkPreparing,
              CollectFailure, Drain, SkipAggregation, MarkAggregating, Aggregate,
              VerifyPackage, CopyPackage, StorePackage, FinalizeBundle, PrepareBegin,
              PrepareEnd, PrepareFails, Collect
<1> QED
  BY <1>1 DEF Next, Start, SelectScope, Heartbeat, HeartbeatFails, LockFails, Crash,
              Tick, vars
-----------------------------------------------------------------------------
(* The invariant.                                                           *)

\* The invariant holds of the empty repository.
LEMMA InitSound == Init => Sound
<1> SUFFICES ASSUME Init PROVE Sound
  OBVIOUS
<1>1. Idle.pc = "idle" /\ NoJob.status = "absent"
  BY DEF Idle, NoJob
<1>2. Stages /\ Works
  BY <1>1 DEF Init, Stages, StageOK, Works
<1>3. Bindings /\ PublishedIsWhole
  BY <1>1 DEF Init, RepositoryInit, Bindings, PublishedIsWhole
<1> QED
  BY <1>2, <1>3, InitInv DEF Sound

\* Every step keeps what the calls have made.
LEMMA WorkKept ==
  ASSUME Sound, [Next]_vars
  PROVE  Stages' /\ Works'
<1>1. jobs \in [Job -> JobRow] /\ jobs' \in [Job -> JobRow]
  BY InvStep DEF Sound, Inv, TypeOK, RepositoryTypeOK
<1>2. ASSUME NEW p \in Runner, NEW c \in StartCommand, Start(p, c)
      PROVE  Stages' /\ Works'
  <2>1. c.job \in Job /\ Claimed(p, c.job, None) /\ UNCHANGED <<staging, store>>
    BY <1>2 DEF Start
  <2>2. jobs'[c.job].status = "planning"
    <3>1. CASE jobs[c.job].status = "absent"
      <4>1. PICK new : new = [NoJob EXCEPT !.status = "planning", !.workbook = c.workbook]
        OBVIOUS
      <4>2. new \in JobRow /\ new.status = "planning"
        BY <2>1, <4>1 DEF NoJob, NoProgress, JobRow, Status, Progress
      <4>3. jobs' = [jobs EXCEPT ![c.job] = Leased(new)]
        BY <1>2, <3>1, <4>1 DEF Start, ClaimPlanning
      <4> QED
        BY <1>1, <2>1, <4>2, <4>3, LeaseFields
    <3>2. CASE jobs[c.job].status = "planning"
      <4>1. jobs'[c.job] = Leased(jobs[c.job]) /\ jobs[c.job] \in JobRow
        BY <1>1, <1>2, <2>1, <3>2 DEF Start, ClaimPlanning
      <4> QED
        BY <3>2, <4>1, LeaseFields
    <3> QED
      BY <1>2, <3>1, <3>2 DEF Start, ClaimPlanning
  <2> QED
    BY <1>1, <2>1, <2>2, WorkClaim
<1>3. ASSUME NEW p \in Runner, NEW c \in ScopeCommand, SelectScope(p, c)
      PROVE  Stages' /\ Works'
  <2>1. /\ c.job \in Job /\ c.key \in ExecutionKey /\ c.selection \in Selection
        /\ Claimed(p, c.job, c.selection) /\ UNCHANGED <<staging, store>>
    BY <1>3 DEF SelectScope
  <2>2. jobs[c.job] \in JobRow
    BY <1>1, <2>1
  <2>3. jobs'[c.job].status \in {"preparing", "aggregating"}
    <3>1. CASE jobs[c.job].status = "awaiting_scope"
      <4>1. PICK new : new = [jobs[c.job] EXCEPT !.status = "preparing", !.key = c.key,
                                !.selection = c.selection,
                                !.progress = ProgressOf(c.selection, {})]
        OBVIOUS
      <4>2. ProgressOf(c.selection, {}) \in Progress
        BY <2>1, ProgressType
      <4>3. new \in JobRow /\ new.status = "preparing"
        BY <2>1, <2>2, <4>1, <4>2 DEF JobRow, Status
      <4>4. jobs' = [jobs EXCEPT ![c.job] = Leased(new)]
        BY <1>3, <3>1, <4>1 DEF SelectScope, ClaimExecution
      <4> QED
        BY <1>1, <2>1, <4>3, <4>4, LeaseFields
    <3>2. CASE jobs[c.job].status \in {"preparing", "aggregating"}
      <4>1. jobs'[c.job] = Leased(jobs[c.job])
        BY <1>1, <1>3, <2>1, <3>2 DEF SelectScope, ClaimExecution
      <4> QED
        BY <2>2, <3>2, <4>1, LeaseFields
    <3> QED
      BY <1>3, <3>1, <3>2 DEF SelectScope, ClaimExecution
  <2> QED
    BY <1>1, <2>1, <2>3, WorkClaim
<1>4. ASSUME NEW p \in Runner, RunnerStep(p)
      PROVE  Stages' /\ Works'
  <2>1. CASE EnterLease(p) \/ AcquireLock(p) \/ GiveUpLock(p) \/ Unlock(p)
             \/ FailQuietly(p) \/ WorkFails(p)
    BY <2>1, WorkLeaseSteps
  <2>2. CASE PlanningStep(p)
    BY <2>2, WorkPlanningSteps
  <2>3. CASE ExecutionStep(p)
    BY <2>3, WorkPoolSteps, WorkPublicationSteps DEF ExecutionStep
  <2> QED
    BY <1>4, <2>1, <2>2, <2>3 DEF RunnerStep
<1>5. ASSUME NEW p \in Runner,
             Heartbeat(p) \/ HeartbeatFails(p) \/ LockFails(p) \/ Crash(p)
      PROVE  Stages' /\ Works'
  BY <1>5, WorkLeaseSteps
<1>6. CASE Tick \/ UNCHANGED vars
  <2>1. UNCHANGED <<runner, staging, store>>
    BY <1>6 DEF Tick, vars
  <2> QED
    BY <2>1 DEF Sound, Stages, Works
<1> QED
  BY <1>2, <1>3, <1>4, <1>5, <1>6 DEF Next

\* Every step moves at most one job on, in one of the five ways.
LEMMA Movement ==
  ASSUME Sound, [Next]_vars
  PROVE  \/ \A i \in Job : Kept(i)
         \/ \E j \in Job :
              /\ \/ Submitted(j) \/ Planned(j) \/ Bound(j) \/ Published(j) \/ GivenUp(j)
              /\ \A i \in Job \ {j} : Kept(i)
<1>1. CASE Transactions
  BY <1>1, OneJobMoves
<1>2. CASE UNCHANGED rows
  BY <1>2 DEF rows, Kept
<1> QED
  BY <1>1, <1>2, EveryTransaction

\* Every step keeps the invariant.
LEMMA SoundStep == Sound /\ [Next]_vars => Sound'
<1> SUFFICES ASSUME Sound, [Next]_vars PROVE Sound'
  OBVIOUS
<1>1. \A j \in Job : \/ Kept(j) \/ Submitted(j) \/ Planned(j) \/ Bound(j)
                     \/ Published(j) \/ GivenUp(j)
  BY Movement
<1>2. Bindings'
  BY <1>1 DEF Sound, Bindings, Kept, Submitted, Planned, Bound, Published, GivenUp
<1>3. PublishedIsWhole'
  <2> SUFFICES ASSUME NEW j \in Job
               PROVE  /\ jobs'[j].status = "published" <=> bundles'[j] # None
                      /\ bundles'[j] # None =>
                           /\ bundles'[j] \in store'
                           /\ HoldsAll(bundles'[j], j, jobs'[j].selection)
    BY DEF PublishedIsWhole
  <2>1. /\ jobs[j].status = "published" <=> bundles[j] # None
        /\ bundles[j] # None =>
             bundles[j] \in store /\ HoldsAll(bundles[j], j, jobs[j].selection)
    BY DEF Sound, PublishedIsWhole
  <2>2. store \subseteq store'
    BY StoreGrows
  <2>3. CASE Kept(j)
    BY <2>1, <2>2, <2>3 DEF Kept
  <2>4. CASE Published(j)
    BY <2>2, <2>4 DEF Published
  <2>5. CASE Submitted(j) \/ Planned(j) \/ Bound(j) \/ GivenUp(j)
    BY <2>1, <2>5 DEF Submitted, Planned, Bound, GivenUp
  <2> QED
    BY <1>1, <2>3, <2>4, <2>5
<1> QED
  BY <1>2, <1>3, WorkKept, InvStep DEF Sound

\* The inductive invariant: the stage of every call fits its status, what it
\* has prepared is in its staging directory, and published jobs are whole.
THEOREM Soundness == Spec => []Sound
<1> QED
  BY InitSound, SoundStep, PTL DEF Spec

-----------------------------------------------------------------------------
(* What follows from it.                                                    *)

\* When an owner gives up, its failure can be recorded: the stage it reports to
\* fail is one the status of its row allows.
THEOREM FailureRecorded == Spec => []FailureFits
<1>1. Sound => FailureFits
  <2> SUFFICES ASSUME Sound, NEW p \in Runner, Owns(p)
               PROVE  CanFail(runner[p].job, runner[p].fence, runner[p].stage)
    BY DEF FailureFits
  <2>1. /\ runner[p].pc # "idle"
        /\ HoldsLease(runner[p].job, runner[p].fence)
        /\ jobs[runner[p].job].status = runner[p].status
    BY DEF Owns, Sound, Inv, RowIsKeepers
  <2>2. StageOK(runner[p])
    BY DEF Sound, Stages
  <2> QED
    BY <2>1, <2>2 DEF StageOK, CanFail, FailureStages
<1> QED
  BY <1>1, Soundness, PTL

\* A job is published exactly when it has a bundle row, and the bundle's
\* package is in the store and holds all that was selected.
THEOREM PublishedWhole == Spec => []PublishedIsWhole
<1>1. Sound => PublishedIsWhole
  BY DEF Sound
<1> QED
  BY <1>1, Soundness, PTL
-----------------------------------------------------------------------------
(* The promise.                                                             *)

\* What the promise sees of the four tables.
phaseOf   == [j \in Job |-> Phase(j)]
subjectOf == [j \in Job |-> jobs[j].workbook]
bindingOf == [j \in Job |-> IF jobs[j].key = None THEN None
                            ELSE <<jobs[j].key, jobs[j].selection>>]

\* A job that is kept shows the same.
LEMMA KeptShows ==
  ASSUME NEW i \in Job, Kept(i)
  PROVE  /\ phaseOf'[i] = phaseOf[i]
         /\ subjectOf'[i] = subjectOf[i]
         /\ bindingOf'[i] = bindingOf[i]
         /\ bundles'[i] = bundles[i]
<1>1. Phase(i)' = Phase(i)
  BY DEF Kept, Phase
<1> QED
  BY <1>1 DEF Kept, phaseOf, subjectOf, bindingOf

\* A step that moves no job on changes nothing the promise speaks of.
LEMMA NothingMoves ==
  ASSUME Sound, Inv', \A i \in Job : Kept(i)
  PROVE  UNCHANGED <<phaseOf, subjectOf, bindingOf, bundles>>
<1>1. bundles = [i \in Job |-> bundles[i]] /\ bundles' = [i \in Job |-> bundles'[i]]
  BY DEF Sound, Inv, TypeOK, RepositoryTypeOK
<1>2. \A i \in Job : /\ phaseOf'[i] = phaseOf[i]
                     /\ subjectOf'[i] = subjectOf[i]
                     /\ bindingOf'[i] = bindingOf[i]
                     /\ bundles'[i] = bundles[i]
  BY KeptShows
<1> QED
  BY <1>1, <1>2 DEF phaseOf, subjectOf, bindingOf

\* What a step shows that moves job j on.
LEMMA OneMoves ==
  ASSUME Sound, Inv', NEW j \in Job, \A i \in Job \ {j} : Kept(i)
  PROVE  /\ phaseOf' = [phaseOf EXCEPT ![j] = phaseOf'[j]]
         /\ subjectOf' = [subjectOf EXCEPT ![j] = subjectOf'[j]]
         /\ bindingOf' = [bindingOf EXCEPT ![j] = bindingOf'[j]]
         /\ bundles' = [bundles EXCEPT ![j] = bundles'[j]]
<1>1. bundles = [i \in Job |-> bundles[i]] /\ bundles' = [i \in Job |-> bundles'[i]]
  BY DEF Sound, Inv, TypeOK, RepositoryTypeOK
<1>2. \A i \in Job \ {j} : /\ phaseOf'[i] = phaseOf[i]
                           /\ subjectOf'[i] = subjectOf[i]
                           /\ bindingOf'[i] = bindingOf[i]
                           /\ bundles'[i] = bundles[i]
  BY KeptShows
<1>3. phaseOf' = [phaseOf EXCEPT ![j] = phaseOf'[j]]
  BY <1>2 DEF phaseOf
<1>4. subjectOf' = [subjectOf EXCEPT ![j] = subjectOf'[j]]
  BY <1>2 DEF subjectOf
<1>5. bindingOf' = [bindingOf EXCEPT ![j] = bindingOf'[j]]
  BY <1>2 DEF bindingOf
<1>6. bundles' = [bundles EXCEPT ![j] = bundles'[j]]
  BY <1>1, <1>2
<1> QED
  BY <1>3, <1>4, <1>5, <1>6

\* Each of the five ways is a step of the promise.
LEMMA MovesKeepPromise ==
  ASSUME Sound, Inv', NEW j \in Job, \A i \in Job \ {j} : Kept(i),
         Submitted(j) \/ Planned(j) \/ Bound(j) \/ Published(j) \/ GivenUp(j)
  PROVE  Promise!PNext
<1> DEFINE ph == phaseOf
           sb == subjectOf
           bd == bindingOf
<1>1. /\ ph' = [ph EXCEPT ![j] = ph'[j]]
      /\ sb' = [sb EXCEPT ![j] = sb'[j]]
      /\ bd' = [bd EXCEPT ![j] = bd'[j]]
      /\ bundles' = [bundles EXCEPT ![j] = bundles'[j]]
  BY OneMoves
<1>2. /\ ph[j] = Phase(j) /\ ph'[j] = Phase(j)'
      /\ sb[j] = jobs[j].workbook /\ sb'[j] = jobs'[j].workbook
      /\ bd[j] = IF jobs[j].key = None THEN None ELSE <<jobs[j].key, jobs[j].selection>>
      /\ bd'[j] = IF jobs'[j].key = None THEN None ELSE <<jobs'[j].key, jobs'[j].selection>>
  BY DEF phaseOf, subjectOf, bindingOf
<1>3. /\ [ph EXCEPT ![j] = ph[j]] = ph /\ [sb EXCEPT ![j] = sb[j]] = sb
      /\ [bd EXCEPT ![j] = bd[j]] = bd /\ [bundles EXCEPT ![j] = bundles[j]] = bundles
  BY DEF phaseOf, subjectOf, bindingOf, Sound, Inv, TypeOK, RepositoryTypeOK
<1>4. CASE Submitted(j)
  <2>1. /\ ph[j] = "absent" /\ ph' = [ph EXCEPT ![j] = "planning"]
        /\ bd' = bd /\ bundles' = bundles
    BY <1>1, <1>2, <1>3, <1>4 DEF Submitted, Phase
  <2>2. \E w \in Workbook : sb' = [sb EXCEPT ![j] = w]
    BY <1>1, <1>2, <1>4 DEF Submitted
  <2>3. \E w \in Workbook : Promise!PSubmit(j, w)
    BY <2>1, <2>2
    DEF Promise!PSubmit, Promise!Become, phaseOf, subjectOf, bindingOf
  <2> QED
    BY <2>3 DEF Promise!PNext
<1>5. CASE Planned(j)
  <2>1. /\ ph[j] = "planning" /\ ph' = [ph EXCEPT ![j] = "awaiting"]
        /\ sb' = sb /\ bd' = bd /\ bundles' = bundles
    BY <1>1, <1>2, <1>3, <1>5 DEF Planned, Phase
  <2>2. Promise!PPlan(j)
    BY <2>1 DEF Promise!PPlan, Promise!Become, phaseOf, subjectOf, bindingOf
  <2> QED
    BY <2>2 DEF Promise!PNext
<1>6. CASE Bound(j)
  <2>1. /\ ph[j] = "awaiting" /\ ph' = [ph EXCEPT ![j] = "executing"]
        /\ sb' = sb /\ bundles' = bundles
    BY <1>1, <1>2, <1>3, <1>6 DEF Bound, Phase
  <2>2. /\ jobs'[j].key \in ExecutionKey /\ jobs'[j].selection \in Selection
        /\ bd' = [bd EXCEPT ![j] = <<jobs'[j].key, jobs'[j].selection>>]
    BY <1>1, <1>2, <1>6 DEF Bound
  <2>3. \E key \in ExecutionKey, sel \in Selection :
          bd' = [bd EXCEPT ![j] = <<key, sel>>]
    BY <2>2
  <2>4. \E key \in ExecutionKey, sel \in Selection : Promise!PBind(j, key, sel)
    BY <2>1, <2>3 DEF Promise!PBind, Promise!Become, phaseOf, subjectOf, bindingOf
  <2> QED
    BY <2>4 DEF Promise!PNext
<1>7. CASE Published(j)
  <2>1. /\ ph[j] = "executing" /\ ph' = [ph EXCEPT ![j] = "published"]
        /\ sb' = sb /\ bd' = bd
    BY <1>1, <1>2, <1>3, <1>7 DEF Published, Phase
  <2>2. jobs[j].key # None
    BY <1>7 DEF Published, Sound, Bindings
  <2>3. bd[j][2] = jobs[j].selection
    BY <1>2, <2>2
  <2>4. /\ bundles'[j] # None /\ HoldsAll(bundles'[j], j, bd[j][2])
        /\ bundles' = [bundles EXCEPT ![j] = bundles'[j]]
    BY <1>1, <1>7, <2>3 DEF Published
  <2>5. Promise!PPublish(j)
    BY <2>1, <2>4 DEF Promise!PPublish, Promise!Become, phaseOf, subjectOf, bindingOf
  <2> QED
    BY <2>5 DEF Promise!PNext
<1>8. CASE GivenUp(j)
  <2>1. /\ ph[j] \in {"planning", "executing"} /\ ph' = [ph EXCEPT ![j] = "failed"]
        /\ sb' = sb /\ bd' = bd /\ bundles' = bundles
    BY <1>1, <1>2, <1>3, <1>8 DEF GivenUp, Phase
  <2>2. Promise!PGiveUp(j)
    BY <2>1 DEF Promise!PGiveUp, Promise!Become, phaseOf, subjectOf, bindingOf
  <2> QED
    BY <2>2 DEF Promise!PNext
<1> QED
  BY <1>4, <1>5, <1>6, <1>7, <1>8

\* The service implements its promise: a job is planned once for one workbook,
\* bound once to one selection and ends once, as a failure or with one bundle
\* of exactly what was selected; everything else a call does does not show.
THEOREM JobRefinement == Spec => KeepsPromise
<1>1. Init => Promise!PInit
  <2> SUFFICES ASSUME Init PROVE Promise!PInit
    OBVIOUS
  <2>1. /\ NoJob.status = "absent" /\ NoJob.workbook = None /\ NoJob.key = None
        /\ \A j \in Job : jobs[j] = NoJob
        /\ bundles = [j \in Job |-> None]
    BY DEF NoJob, Init, RepositoryInit
  <2>2. \A j \in Job : Phase(j) = "absent"
    BY <2>1 DEF Phase
  <2> QED
    BY <2>1, <2>2 DEF Promise!PInit
<1>2. Sound /\ Sound' /\ [Next]_vars => [Promise!PNext]_(Promise!promised)
  <2> SUFFICES ASSUME Sound, [Next]_vars PROVE [Promise!PNext]_(Promise!promised)
    OBVIOUS
  <2>1. Inv'
    BY InvStep DEF Sound
  <2>2. CASE \A i \in Job : Kept(i)
    <3>1. UNCHANGED <<phaseOf, subjectOf, bindingOf, bundles>>
      BY <2>1, <2>2, NothingMoves
    <3> QED
      BY <3>1 DEF Promise!promised, phaseOf, subjectOf, bindingOf
  <2>3. CASE \E j \in Job :
               /\ \/ Submitted(j) \/ Planned(j) \/ Bound(j) \/ Published(j) \/ GivenUp(j)
               /\ \A i \in Job \ {j} : Kept(i)
    BY <2>1, <2>3, MovesKeepPromise
  <2> QED
    BY <2>2, <2>3, Movement
<1> QED
  BY <1>1, <1>2, Soundness, PTL DEF Spec, KeepsPromise, Promise!PSpec

===============================================================================
