----------------------------- MODULE EditService -----------------------------
(***************************************************************************)
(* The approved-edit service (audit/workbook_edit_service.py) over its     *)
(* durable repository.  A command is executed by a worker (a request       *)
(* thread of the web host) as a chain of separate repository transactions  *)
(* and registry reads:                                                     *)
(*                                                                         *)
(*   claim_command ; get_workflow ; resolve ; assert_snapshot_head ;       *)
(*   validate against the copy and the clock ; resolve ;                   *)
(*   assert_snapshot_head ; publish_transition                             *)
(*                                                                         *)
(* so workers interleave between any two of them, leases lapse in between, *)
(* and a worker may die anywhere, leaving its pending claim behind.        *)
(***************************************************************************)
EXTENDS EditRepository, FiniteSets

CONSTANTS
  Worker,          \* concurrent request threads
  ApprovalTtl,     \* approval_ttl
  ExecutionTtl,    \* execution_ttl
  PublicationTtl,  \* publication_claim_ttl
  MaxRev,          \* bound on the revisions of a saved workbook
  MaxOrphans       \* bound on the pending claims no live worker owns

ASSUME ServiceTtlAssumption ==
  /\ ApprovalTtl \in Nat \ {0}
  /\ ExecutionTtl \in Nat \ {0}
  /\ PublicationTtl \in Nat \ {0}
  /\ MaxRev \in Nat \ {0}
  /\ MaxOrphans \in Nat

VARIABLES
  worker,    \* [Worker -> the command a worker executes]
  registry,  \* [Session -> Binding or None]: the Office session registry
  saved,     \* [Book -> revision of the workbook saved at the provider]
  assets     \* revisions in the immutable asset store

outside == <<registry, saved, assets>>
vars == <<tables, clock, worker, outside>>

ProgramCounter ==
  {"idle", "load", "session", "head", "validate", "session2", "head2",
   "commit", "claim", "acquire", "store", "release", "abort"}

\* copy is the document the worker loaded (or built, for propose), stamp the
\* expiry it computed from its own reading of the clock, rev the saved
\* revision it reacquired.
WorkerState ==
  [pc : ProgramCounter, request : Request \cup {None},
   token : Token \cup {None}, copy : Workflow, stamp : Nat, rev : Nat]

Idle == [pc |-> "idle", request |-> None, token |-> None,
         copy |-> NoWorkflow, stamp |-> 0, rev |-> 0]

TypeOK ==
  /\ RepositoryTypeOK
  /\ worker \in [Worker -> WorkerState]
  /\ registry \in [Session -> Binding \cup {None}]
  /\ saved \in [Book -> Nat]
  /\ assets \subseteq Book \X Nat

Init ==
  /\ RepositoryInit
  /\ worker = [p \in Worker |-> Idle]
  /\ registry = [s \in Session |-> None]
  /\ saved = [b \in Book |-> 1]
  /\ assets = {}

-----------------------------------------------------------------------------
(* What a command computes from its copy of the workflow.                   *)

\* _validate_execution.  The challenge and the fence are secrets of the claim
\* receipt of one execution, so the execution names all three.
ExecutionMatches(w, r) == w.exec # None /\ w.exec = r.exec

\* Commands that load the document without requiring a live session binding.
StoredOnly(r) ==
  r.op \in {"abort_claim", "verify_execution", "publish_verified_snapshot"}

\* verify_execution_witness
VerifiedState(x) ==
  CASE x.outcome = "stale_precondition" -> "stale_precondition"
    [] x.outcome = "indeterminate"      -> "indeterminate"
    [] OTHER -> IF x.before /\ x.after THEN "session_verified"
                                       ELSE "verification_failed"

\* The validation of each command, on the copy and the clock as read now.
ValidClaim(w, r) ==
  /\ r.session = w.binding.session
  /\ w.state = "approved"
  /\ ~ w.consumed
  /\ clock < w.expires

ValidStart(w, r) ==
  /\ w.state = "claimed"
  /\ ExecutionMatches(w, r)
  /\ clock < w.expires

\* A later report settles an outcome that was unknown.
FaultReportsAgain(w, r) ==
  /\ IF r.witness.outcome = "stale_precondition"
     THEN w.state = "claimed" /\ ~ r.witness.before
     ELSE w.state \in {"apply_started", "indeterminate"}
  /\ r.witness.outcome = "applied" => clock < w.deadline
  /\ ExecutionMatches(w, r)
ValidWitness(w, r) ==
  /\ IF r.witness.outcome = "stale_precondition"
     THEN w.state = "claimed" /\ ~ r.witness.before
     ELSE w.state = "apply_started"
  /\ r.witness.outcome = "applied" => clock < w.deadline
  /\ ExecutionMatches(w, r)

ValidPublication(w, r) ==
  /\ w.state = "session_verified"
  /\ w.publication = 0
  /\ w.required
  /\ ExecutionMatches(w, r)

Valid(w, r) ==
  CASE r.op = "preview"                   -> w.state = "proposed"
    [] r.op \in {"approve", "reject"}     -> w.state = "previewed"
    [] r.op = "claim_execution"           -> ValidClaim(w, r)
    [] r.op = "mark_apply_started"        -> ValidStart(w, r)
    [] r.op = "abort_claim"               -> w.state = "claimed" /\ ExecutionMatches(w, r)
    [] r.op = "verify_execution"          -> ValidWitness(w, r)
    [] r.op = "publish_verified_snapshot" -> ValidPublication(w, r)
    [] OTHER                              -> FALSE

Stamp(r) ==
  CASE r.op = "approve"                   -> clock + ApprovalTtl
    [] r.op = "mark_apply_started"        -> clock + ExecutionTtl
    [] r.op = "publish_verified_snapshot" -> clock + PublicationTtl
    [] OTHER                              -> 0

Proposed(b) == [NoWorkflow EXCEPT !.state = "proposed", !.binding = b]

NextState(r) ==
  CASE r.op = "propose"            -> "proposed"
    [] r.op = "preview"            -> "previewed"
    [] r.op = "approve"            -> "approved"
    [] r.op = "reject"             -> "rejected"
    [] r.op = "mark_apply_started" -> "apply_started"
    [] r.op = "abort_claim"        -> "aborted_before_apply"
    [] OTHER                       -> VerifiedState(r.witness)

\* The document _publish writes: the copy with the state of the command.
Updated(w, r, stamp) ==
  [w EXCEPT !.state = NextState(r),
            !.version = @ + 1,
            !.expires = IF r.op = "approve" THEN stamp ELSE @,
            !.deadline = IF r.op = "mark_apply_started" THEN stamp ELSE @]

\* A stale precondition does not free it.
FaultKeepsStale(w) ==
  \/ w.state = "aborted_before_apply"
  \/ w.state = "session_verified" /\ ~ w.required

\* Does the transition give the live workbook back?  A verified write whose
\* snapshot must be published keeps it; so does every write whose outcome is
\* not known to be the approved one.
ReleasesBook(w) ==
  \/ w.state = "aborted_before_apply"
  \/ w.state = "stale_precondition"
  \/ w.state = "session_verified" /\ ~ w.required

RequiresActive(r) ==
  r.op \in {"mark_apply_started", "abort_claim", "verify_execution"}

\* The workflow a command writes: propose derives its id from the key.
Target(r) == IF r.op = "propose" THEN r.key ELSE r.id

-----------------------------------------------------------------------------
(* Steps of a worker.                                                       *)

\* secrets.token_hex: a token nothing in the system refers to.  One of them is
\* as good as another.
Fresh(t) ==
  /\ \A k \in Key : commands[k].token # t
  /\ \A b \in Book : active[b].token # t
  /\ \A p \in Worker : worker[p].token # t

NewToken == CHOOSE t \in Token : Fresh(t)

Goto(p, pc) == worker' = [worker EXCEPT ![p].pc = pc]

\* The except clauses: release the publication claim if this command took
\* one, then abort the command.
Unwind(p) ==
  Goto(p, IF worker[p].request.op = "publish_verified_snapshot"
               /\ worker[p].pc \in {"acquire", "store", "commit"}
          THEN "release" ELSE "abort")

\* _begin
Begin(p, r) ==
  /\ worker[p].pc = "idle"
  /\ \E t \in Token : Fresh(t)
  /\ ClaimCommand(r, NewToken)
  /\ worker' = [worker EXCEPT ![p] =
       [Idle EXCEPT !.pc = IF r.op = "propose" THEN "session" ELSE "load",
                    !.request = r, !.token = NewToken]]
  /\ UNCHANGED <<clock, outside>>

\* _stored: get_workflow
Load(p) ==
  LET r == worker[p].request IN
  /\ worker[p].pc = "load"
  /\ IF workflows[r.id].state = "absent"
     THEN Unwind(p)
     ELSE worker' = [worker EXCEPT
            ![p].pc = IF StoredOnly(r) THEN "validate" ELSE "session",
            ![p].copy = workflows[r.id]]
  /\ UNCHANGED <<tables, clock, outside>>

\* propose: _binding, and the document built on it
Bind(p) ==
  LET r == worker[p].request IN
  /\ worker[p].pc = "session"
  /\ r.op = "propose"
  /\ IF registry[r.session] = None
     THEN Unwind(p)
     ELSE worker' = [worker EXCEPT ![p].pc = "session2",
                                   ![p].copy = Proposed(registry[r.session])]
  /\ UNCHANGED <<tables, clock, outside>>

\* _assert_binding_current: the registry read
Resolve(p) ==
  /\ \/ worker[p].pc = "session" /\ worker[p].request.op # "propose"
     \/ worker[p].pc = "session2"
  /\ IF registry[worker[p].copy.binding.session] = worker[p].copy.binding
     THEN Goto(p, IF worker[p].pc = "session" THEN "head" ELSE "head2")
     ELSE Unwind(p)
  /\ UNCHANGED <<tables, clock, outside>>

\* _assert_binding_current: assert_snapshot_head
CheckHead(p) ==
  /\ worker[p].pc \in {"head", "head2"}
  /\ IF HeadIs(worker[p].copy.binding)
     THEN Goto(p, IF worker[p].pc = "head" THEN "validate" ELSE "commit")
     ELSE Unwind(p)
  /\ UNCHANGED <<tables, clock, outside>>

\* The checks between the two reads, and the expiry computed with them.
Validate(p) ==
  LET r == worker[p].request IN
  /\ worker[p].pc = "validate"
  /\ IF Valid(worker[p].copy, r)
     THEN worker' = [worker EXCEPT
            ![p].stamp = Stamp(r),
            ![p].pc = CASE r.op = "publish_verified_snapshot" -> "claim"
                        [] r.op \in {"abort_claim", "verify_execution"} -> "commit"
                        [] OTHER -> "session2"]
     ELSE Unwind(p)
  /\ UNCHANGED <<tables, clock, outside>>

Done(p) == worker' = [worker EXCEPT ![p] = Idle]

\* _publish: publish_transition, for every command but the two below
Publish(p) ==
  LET r == worker[p].request
      w == Updated(worker[p].copy, r, worker[p].stamp)
  IN
  /\ worker[p].pc = "commit"
  /\ r.op \notin {"claim_execution", "publish_verified_snapshot"}
  /\ IF CanPublishTransition(r, worker[p].token, Target(r),
                             worker[p].copy.version, w, RequiresActive(r))
     THEN PublishTransition(r, Target(r), w, ReleasesBook(w)) /\ Done(p)
     ELSE UNCHANGED tables /\ Unwind(p)
  /\ UNCHANGED <<clock, outside>>

\* claim_execution: the fenced claim of the live workbook
Claim(p) ==
  LET r == worker[p].request IN
  /\ worker[p].pc = "commit"
  /\ r.op = "claim_execution"
  /\ IF CanClaimExecution(r, worker[p].token, r.id, worker[p].copy.version)
     THEN ClaimExecution(r, r.id, r.key, r.required) /\ Done(p)
     ELSE UNCHANGED tables /\ Unwind(p)
  /\ UNCHANGED <<clock, outside>>

\* publish_verified_snapshot: claim_snapshot_publication
TakePublicationClaim(p) ==
  LET r == worker[p].request
      w == worker[p].copy
  IN
  /\ worker[p].pc = "claim"
  /\ IF CanClaimPublication(r.id, r.exec, w.fence, worker[p].stamp)
     THEN /\ ClaimPublication(r.id, worker[p].token, worker[p].stamp)
          /\ worker' = [worker EXCEPT ![p].pc = "acquire", ![p].stamp = 0]
     ELSE UNCHANGED tables /\ Unwind(p)
  /\ UNCHANGED <<clock, outside>>

\* reacquire_saved_workbook, validate_saved_workbook_manifest: the provider's
\* workbook must be the direct successor of the base revision.
Acquire(p) ==
  LET b == worker[p].copy.binding IN
  /\ worker[p].pc = "acquire"
  /\ IF saved[b.book] = b.rev + 1
     THEN worker' = [worker EXCEPT ![p].pc = "store", ![p].rev = saved[b.book]]
     ELSE Unwind(p)
  /\ UNCHANGED <<tables, clock, outside>>

\* The asset is left to be stored after the head has moved.
FaultStoreLater(p) ==
  /\ worker[p].pc = "store"
  /\ Goto(p, "commit")
  /\ UNCHANGED <<tables, clock, outside>>

\* store_acquired_workbook: content-addressed, so storing twice is the same
Store(p) ==
  /\ worker[p].pc = "store"
  /\ assets' = assets \cup {<<worker[p].copy.binding.book, worker[p].rev>>}
  /\ Goto(p, "commit")
  /\ UNCHANGED <<tables, clock, registry, saved>>

\* publish_snapshot
PublishHead(p) ==
  LET r == worker[p].request IN
  /\ worker[p].pc = "commit"
  /\ r.op = "publish_verified_snapshot"
  /\ IF CanPublishSnapshot(r, worker[p].token, r.id, worker[p].copy.version,
                           r.exec, worker[p].copy.fence)
     THEN PublishSnapshot(r, r.id, worker[p].rev) /\ Done(p)
     ELSE UNCHANGED tables /\ Unwind(p)
  /\ UNCHANGED <<clock, outside>>

\* Pending claims left behind by dead workers and by failed aborts.
Orphans == {k \in Key : /\ commands[k].status = "pending"
                        /\ \A p \in Worker : worker[p].token # commands[k].token}

\* Claims are lost only while the clock can still reach their expiry.
MayLose == clock + CommandTtl <= MaxClock /\ clock + PublicationTtl <= MaxClock

MayOrphan == MayLose /\ Cardinality(Orphans) < MaxOrphans

\* _release_publication_claim: a failure is swallowed and the claim survives.
ReleaseClaim(p) ==
  /\ worker[p].pc = "release"
  /\ \/ ReleasePublication(worker[p].request.id, worker[p].request.exec,
                           worker[p].copy.fence, worker[p].token)
     \/ /\ ~ HoldsPublicationClaim(worker[p].copy.binding.book, worker[p].token)
           \/ MayLose
        /\ UNCHANGED tables
  /\ Goto(p, "abort")
  /\ UNCHANGED <<clock, outside>>

\* _abort_pending: a failure is swallowed and the pending row survives.
Abort(p) ==
  /\ worker[p].pc = "abort"
  /\ \/ AbortCommand(worker[p].request, worker[p].token)
     \/ /\ ~ HoldsCommand(worker[p].request, worker[p].token) \/ MayOrphan
        /\ UNCHANGED tables
  /\ Done(p)
  /\ UNCHANGED <<clock, outside>>

\* A storage or provider error, or a document the edit contract refuses.
Fault(p) ==
  /\ worker[p].pc \notin {"idle", "release", "abort"}
  /\ Unwind(p)
  /\ UNCHANGED <<tables, clock, outside>>

\* The worker dies: whatever it had committed stays, its claims too.
Crash(p) ==
  /\ worker[p].pc # "idle"
  /\ MayOrphan
  /\ Done(p)
  /\ UNCHANGED <<tables, clock, outside>>

-----------------------------------------------------------------------------
(* The host, the workbook provider, time.                                   *)

\* The host (re)registers a session on the workbook as it is saved now.
Register(s, b) ==
  /\ registry' = [registry EXCEPT ![s] =
                    [session |-> s, book |-> b, rev |-> saved[b]]]
  /\ UNCHANGED <<tables, clock, worker, saved, assets>>

Unregister(s) ==
  /\ registry' = [registry EXCEPT ![s] = None]
  /\ UNCHANGED <<tables, clock, worker, saved, assets>>

\* Somebody saves the workbook: the executor, or a coauthor.
Save(b) ==
  /\ saved[b] < MaxRev
  /\ saved' = [saved EXCEPT ![b] = @ + 1]
  /\ UNCHANGED <<tables, clock, worker, registry, assets>>

Tick ==
  /\ clock < MaxClock
  /\ clock' = clock + 1
  /\ UNCHANGED <<tables, worker, outside>>

WorkerStep(p) ==
  \/ Load(p) \/ Bind(p) \/ Resolve(p) \/ CheckHead(p) \/ Validate(p)
  \/ Publish(p) \/ Claim(p) \/ TakePublicationClaim(p) \/ Acquire(p)
  \/ Store(p) \/ PublishHead(p) \/ ReleaseClaim(p) \/ Abort(p)

Next ==
  \/ \E p \in Worker, r \in Request : Begin(p, r)
  \/ \E p \in Worker : WorkerStep(p) \/ Fault(p) \/ Crash(p)
  \/ \E s \in Session, b \in Book : Register(s, b)
  \/ \E s \in Session : Unregister(s)
  \/ \E b \in Book : Save(b)
  \/ Tick

Spec == Init /\ [][Next]_vars
=============================================================================
