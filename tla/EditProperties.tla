---------------------------- MODULE EditProperties ----------------------------
(***************************************************************************)
(* Correctness properties of the approved-edit service.                    *)
(***************************************************************************)
EXTENDS EditService

\* States in which an execution still owns its live workbook: it may write, or
\* its write is unverified, failed, of unknown outcome, or not yet published.
Holding(w) ==
  \/ w.state \in {"claimed", "apply_started", "verification_failed", "indeterminate"}
  \/ w.state = "session_verified" /\ w.required /\ w.publication = 0

\* The active row of a workbook is exactly the one workflow that still holds
\* it, under its execution id and fence: no second execution is ever admitted,
\* no row is left behind by a finished one, and no holder loses its row.
HolderIsExact ==
  \A b \in Book, i \in Key :
    (workflows[i].state # "absent" /\ workflows[i].binding.book = b) =>
      (Holding(workflows[i]) <=> (active[b].id = i /\ ActiveMatches(i, workflows[i])))

\* The compare-and-swap on the version is enough to protect the whole document:
\* a copy whose version is still current is the current document, so a command
\* that publishes never overwrites a change its worker has not seen.
CurrentVersionIsCurrentCopy ==
  \A p \in Worker :
    LET w == worker[p].copy IN
    (w.version > 0 /\ workflows[worker[p].request.id].version = w.version)
      => workflows[worker[p].request.id] = w

\* While an execution holds a workbook nobody moves the published head from
\* under it, so the snapshot it publishes is the successor of the head.
HeldOnItsBase ==
  \A b \in Book : active[b].id # None =>
    heads[b] \in {0, workflows[active[b].id].binding.rev}

\* A fencing token names one execution of a workbook, and is never newer than
\* the last one issued.
FenceNamesOneExecution ==
  \A i, j \in Key :
    (workflows[i].fence > 0 /\ workflows[j].fence > 0
       /\ workflows[i].binding.book = workflows[j].binding.book) =>
      /\ workflows[i].fence <= fences[workflows[i].binding.book]
      /\ workflows[i].fence = workflows[j].fence => i = j

\* Two edits of a workbook are never published from one base revision: the
\* published snapshots form a chain.  Each is in the asset store before the
\* head refers to it.
PublishedChain ==
  \A i, j \in Key :
    (workflows[i].publication > 0 /\ workflows[j].publication > 0
       /\ workflows[i].binding.book = workflows[j].binding.book) =>
      /\ workflows[i].binding.rev = workflows[j].binding.rev => i = j
      /\ <<workflows[i].binding.book, workflows[i].publication>> \in assets
      /\ heads[workflows[i].binding.book] >= workflows[i].publication

\* One approval executes once: an execution id belongs to one workflow, and
\* that workflow has spent its approval.
ApprovalSpentOnce ==
  \A i \in Key : workflows[i].exec # None =>
    /\ workflows[i].consumed
    /\ \A j \in Key : workflows[j].exec = workflows[i].exec => j = i

-----------------------------------------------------------------------------

\* A write whose outcome is unknown or wrong keeps its workbook.  A started
\* write can only become verified, wrong or unknown; from wrong or unknown no
\* report, abort or command leads anywhere, and neither this workflow nor that
\* of another client changes the row that blocks the workbook.
Unsafe == {"verification_failed", "indeterminate"}
QuarantineHolds ==
  [][\A i \in Key :
       LET b == workflows[i].binding.book IN
       /\ workflows[i].state \in Unsafe =>
            /\ workflows'[i] = workflows[i]
            /\ active[b].id = i /\ active'[b] = active[b]
       /\ workflows[i].state = "apply_started" =>
            /\ workflows'[i].state \in Unsafe \cup {"apply_started", "session_verified"}
            /\ active[b].id = i
            /\ workflows'[i].state # "session_verified" => active'[b] = active[b]]_vars

\* A command whose validation saw a live approval or lease may commit later,
\* but by less than the life of its command claim: the claim lease bounds how
\* stale the check of the clock can be.
LateByLessThanTheClaim ==
  [][\A i \in Key :
       /\ (workflows[i].state = "approved" /\ workflows'[i].state = "claimed")
            => clock < workflows[i].expires + CommandTtl
       /\ (workflows[i].state = "claimed" /\ workflows'[i].state = "apply_started")
            => clock < workflows[i].expires + CommandTtl
       /\ (workflows[i].state = "apply_started" /\ workflows'[i].state = "session_verified")
            => clock < workflows[i].deadline + CommandTtl]_vars

-----------------------------------------------------------------------------
(* EditService implements ApprovedEdit: workers, leases, versions, retries  *)
(* and crashes are hidden, and each committed transaction is one step.      *)

EditView(w) ==
  [state |-> w.state, binding |-> w.binding, exec |-> w.exec, fence |-> w.fence,
   required |-> w.required, publication |-> w.publication]

ReceiptView(c) ==
  IF c.status = "completed"
  THEN [id |-> c.receipt.id, state |-> c.receipt.state, fence |-> c.receipt.fence]
  ELSE None

Promise == INSTANCE ApprovedEdit WITH
  edit     <- [k \in Key |-> EditView(workflows[k])],
  holder   <- [b \in Book |-> active[b].exec],
  fence    <- fences,
  head     <- heads,
  receipts <- [k \in Key |-> ReceiptView(commands[k])]

\* Every behaviour of the service is one the promise allows.
KeepsPromise == Promise!ASpec

-----------------------------------------------------------------------------
(* Liveness.                                                                *)

\* Request threads run, time passes, and clients repeat a command until it is
\* answered.
Fairness ==
  /\ WF_vars(Tick)
  /\ \A p \in Worker : WF_vars(WorkerStep(p))
  /\ \A r \in Request : SF_vars(\E p \in Worker : Begin(p, r))

\* Storage and provider outages end: from some time on a worker unwinds only
\* where a check of its own fails.
OutagesEnd == <>[][\A p \in Worker : Fault(p) => WorkerStep(p)]_vars

\* A claim whose worker died does not block its command for ever: the claim
\* lapses and a repetition of the command takes it over.
OrphansAreTakenOver == \A k \in Key : (k \in Orphans) ~> (k \notin Orphans)

\* A verified write keeps its workbook until its snapshot is published, and it
\* is published as long as the saved workbook is the successor of the base,
\* whatever publishers died and whatever publication claims they left.
DueSnapshotIsPublished ==
  \A i \in Key :
    (/\ workflows[i].state = "session_verified"
     /\ workflows[i].required
     /\ saved[workflows[i].binding.book] = workflows[i].binding.rev + 1)
      ~> (workflows[i].publication > 0)
=============================================================================
