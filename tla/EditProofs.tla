------------------------------ MODULE EditProofs ------------------------------
(***************************************************************************)
(* Machine-checked proofs about the approved-edit service, for every set   *)
(* of workers, requests, keys and workbooks and every lease duration.      *)
(*                                                                         *)
(* The argument.  A worker acts on a copy of the workflow, read earlier.   *)
(* Versions only grow, by one, so a copy whose version is still current is *)
(* the current document (WorkerOK); what the worker validated of its copy  *)
(* is then true of the table when the compare-and-swap succeeds.  With     *)
(* that, every transaction keeps the rows of active_workbooks and the      *)
(* documents in holding states in one-to-one correspondence (Rows).        *)
(***************************************************************************)
EXTENDS EditProperties, TLAPS

\* The states before an execution is claimed.
Unclaimed == {"absent", "proposed", "previewed", "approved", "rejected"}

\* A document exists from its first version on, and is bound to a workbook; it
\* names its execution from the claim on; only a verified one is published.
DocumentOK(w) ==
  /\ w.version = 0 <=> w.state = "absent"
  /\ w.state # "absent" => w.binding \in Binding
  /\ w.exec # None <=> w.state \notin Unclaimed
  /\ w.exec # None <=> w.fence > 0
  /\ w.exec # None => w.consumed
  /\ w.publication # 0 => w.state = "session_verified"

Documents == \A i \in Key : DocumentOK(workflows[i])

\* Every row is the row of a workflow that holds the workbook, and every
\* holding workflow has its row.
Rows ==
  /\ \A b \in Book : active[b].id = None => active[b] = NoActive
  /\ \A b \in Book : active[b].id # None =>
       /\ Holding(workflows[active[b].id])
       /\ workflows[active[b].id].binding.book = b
       /\ workflows[active[b].id].exec = active[b].exec
       /\ workflows[active[b].id].fence = active[b].fence
  /\ \A i \in Key : Holding(workflows[i]) =>
       active[workflows[i].binding.book].id = i

\* What a worker has established about its copy, the clock left aside.
SoundCopy(w, r) ==
  /\ r.op = "preview" => w.state = "proposed"
  /\ r.op \in {"approve", "reject"} => w.state = "previewed"
  /\ r.op = "claim_execution" => w.state = "approved"
  /\ r.op \in {"mark_apply_started", "abort_claim"} => w.state = "claimed"
  /\ r.op = "verify_execution" =>
       w.state = IF r.witness.outcome = "stale_precondition"
                 THEN "claimed" ELSE "apply_started"
  /\ r.op = "publish_verified_snapshot" =>
       w.state = "session_verified" /\ w.publication = 0 /\ w.required

CopyOK(x) ==
  x.copy.version > 0 =>
    /\ x.request \in Request
    /\ x.copy.binding \in Binding
    /\ x.copy.version <= workflows[x.request.id].version
    /\ x.copy.version = workflows[x.request.id].version
         => x.copy = workflows[x.request.id]

StageOK(x) ==
  /\ x.pc # "idle" => x.request \in Request
  /\ x.pc = "load" => x.request.op # "propose"
  /\ x.pc \in {"claim", "acquire", "store", "release"} =>
       x.request.op = "publish_verified_snapshot"
  /\ x.pc \in {"session", "head", "session2", "head2"} => ~ StoredOnly(x.request)
  /\ (x.pc \notin {"idle", "load", "abort"} /\ x.request.op # "propose")
       => x.copy.version > 0
  /\ (x.pc \in {"session2", "head2", "commit"} /\ x.request.op = "propose")
       => x.copy.binding \in Binding /\ x.copy = Proposed(x.copy.binding)
  /\ (x.pc \in {"session2", "head2", "commit", "claim", "acquire", "store"}
        /\ x.request.op # "propose")
       => SoundCopy(x.copy, x.request)
  /\ (x.pc = "store" \/ (x.pc = "commit" /\ x.request.op = "publish_verified_snapshot"))
       => x.rev = x.copy.binding.rev + 1

WorkerOK(x) == StageOK(x) /\ CopyOK(x)

Workers == \A p \in Worker : WorkerOK(worker[p])

Inv == TypeOK /\ Documents /\ Rows /\ Workers

USE RequestAssumption, NoneAssumption, TtlAssumption, ClockAssumption,
    ServiceTtlAssumption

-----------------------------------------------------------------------------
(* Lemmas about the operators.                                              *)

\* The state a witness is given is a workflow state.
LEMMA VerifiedStateType ==
  ASSUME NEW x \in Witness
  PROVE  VerifiedState(x) \in {"session_verified", "verification_failed",
                               "indeterminate", "stale_precondition"}
BY DEF VerifiedState, Witness

\* Changing those four fields of a workflow leaves a workflow.
LEMMA FieldsType ==
  ASSUME NEW w \in Workflow, NEW s \in WorkflowState,
         NEW v \in Nat, NEW e \in Nat, NEW d \in Nat
  PROVE  [w EXCEPT !.state = s, !.version = v, !.expires = e, !.deadline = d]
           \in Workflow
BY DEF Workflow

\* So does claiming it.
LEMMA ClaimedType ==
  ASSUME NEW w \in Workflow, NEW v \in Nat, NEW e \in Key, NEW n \in Nat,
         NEW required \in BOOLEAN
  PROVE  [w EXCEPT !.state = "claimed", !.version = v, !.consumed = TRUE,
                   !.exec = e, !.fence = n, !.required = required] \in Workflow
BY DEF Workflow, WorkflowState

\* So does recording its publication.
LEMMA PublishedType ==
  ASSUME NEW w \in Workflow, NEW v \in Nat, NEW rev \in Nat
  PROVE  [w EXCEPT !.version = v, !.publication = rev] \in Workflow
BY DEF Workflow

\* The document a transition writes is a workflow, one version later.
LEMMA UpdatedType ==
  ASSUME NEW w \in Workflow, NEW r \in Request, NEW stamp \in Nat
  PROVE  /\ Updated(w, r, stamp) \in Workflow
         /\ Updated(w, r, stamp).version = w.version + 1
         /\ Updated(w, r, stamp).state = NextState(r)
         /\ Updated(w, r, stamp).binding = w.binding
         /\ Updated(w, r, stamp).exec = w.exec
         /\ Updated(w, r, stamp).fence = w.fence
         /\ Updated(w, r, stamp).required = w.required
         /\ Updated(w, r, stamp).publication = w.publication
         /\ Updated(w, r, stamp).consumed = w.consumed
<1>1. r.witness \in Witness
  BY DEF RequestType
<1>2. NextState(r) \in WorkflowState \ {"absent", "claimed"}
  BY <1>1, VerifiedStateType DEF NextState, WorkflowState
<1> DEFINE u == Updated(w, r, stamp)
<1>3. u.state = NextState(r) /\ u.version = w.version + 1
  BY DEF Updated, Workflow
<1>4. /\ u.binding = w.binding /\ u.exec = w.exec /\ u.fence = w.fence
      /\ u.required = w.required /\ u.publication = w.publication
      /\ u.consumed = w.consumed
  BY DEF Updated, Workflow
<1>5. /\ w.version \in Nat /\ w.expires \in Nat /\ w.deadline \in Nat
  BY DEF Workflow
<1>6. u \in Workflow
  <2> DEFINE e == IF r.op = "approve" THEN stamp ELSE w.expires
             d == IF r.op = "mark_apply_started" THEN stamp ELSE w.deadline
  <2>1. e \in Nat /\ d \in Nat /\ w.version + 1 \in Nat
    BY <1>5
  <2>2. u = [w EXCEPT !.state = NextState(r), !.version = w.version + 1,
                      !.expires = e, !.deadline = d]
    BY DEF Updated
  <2> HIDE DEF u, e, d
  <2> QED BY <1>2, <2>1, <2>2, FieldsType
<1> QED BY <1>3, <1>4, <1>6

\* Validation establishes what SoundCopy records of it.
LEMMA ValidIsSound ==
  ASSUME NEW w, NEW r \in Request, Valid(w, r)
  PROVE  SoundCopy(w, r)
<1>1. r.op \in Operation
  BY DEF RequestType
<1> QED BY <1>1 DEF Valid, ValidClaim, ValidStart, ValidWitness,
                    ValidPublication, SoundCopy, Operation

\* The idle worker, and every worker whose copy is empty, is well-formed.
LEMMA IdleOK == Idle \in WorkerState /\ WorkerOK(Idle)
BY DEF Idle, WorkerState, ProgramCounter, NoWorkflow, Workflow, WorkflowState,
       WorkerOK, StageOK, CopyOK

-----------------------------------------------------------------------------
(* Frames.                                                                  *)

\* A step of one worker that writes no document leaves the others as they are.
LEMMA WorkerFrame ==
  ASSUME Inv, NEW p \in Worker, NEW x \in WorkerState, WorkerOK(x),
         worker' = [worker EXCEPT ![p] = x], UNCHANGED workflows
  PROVE  Workers'
<1> SUFFICES ASSUME NEW q \in Worker PROVE WorkerOK(worker[q])'
  BY DEF Workers
<1>1. worker'[q] = IF q = p THEN x ELSE worker[q]
  BY DEF Inv, TypeOK
<1>2. WorkerOK(worker[q])
  BY DEF Inv, Workers
<1> QED BY <1>1, <1>2 DEF WorkerOK, StageOK, CopyOK, SoundCopy

\* A step of one worker that writes at most the commands table keeps the
\* invariant if the worker's new state is well-formed.
LEMMA ReadStep ==
  ASSUME Inv, NEW p \in Worker, NEW x \in WorkerState, WorkerOK(x),
         worker' = [worker EXCEPT ![p] = x],
         commands' \in [Key -> CommandRow],
         UNCHANGED <<workflows, active, fences, heads, clock, registry, saved>>,
         assets' \subseteq Book \X Nat
  PROVE  Inv'
<1>1. TypeOK'
  BY DEF Inv, TypeOK, RepositoryTypeOK
<1>2. Documents' /\ Rows'
  BY DEF Inv, Documents, Rows, DocumentOK, Holding, Binding, NoActive
<1>3. Workers'
  BY WorkerFrame
<1> QED BY <1>1, <1>2, <1>3 DEF Inv

\* A transaction that replaces one document by its next version leaves no
\* worker with a stale copy it takes for current.
LEMMA VersionStep ==
  ASSUME Inv, NEW p \in Worker, NEW i \in Key, NEW w \in Workflow,
         worker' = [worker EXCEPT ![p] = Idle],
         workflows' = [workflows EXCEPT ![i] = w],
         w.version = workflows[i].version + 1
  PROVE  Workers'
<1> SUFFICES ASSUME NEW q \in Worker PROVE WorkerOK(worker[q])'
  BY DEF Workers
<1> DEFINE x == worker[q]
<1>1. worker'[q] = IF q = p THEN Idle ELSE x
  BY DEF Inv, TypeOK
<1>2. CASE q = p
  BY <1>1, <1>2, IdleOK DEF WorkerOK, StageOK, CopyOK, Idle, NoWorkflow
<1>3. CASE q # p
  <2>1. worker'[q] = x /\ WorkerOK(x) /\ x \in WorkerState
    BY <1>1, <1>3 DEF Inv, Workers, TypeOK
  <2>2. StageOK(worker[q])'
    BY <2>1 DEF WorkerOK, StageOK, SoundCopy
  <2>3. CopyOK(worker[q])'
    <3> SUFFICES ASSUME x.copy.version > 0 PROVE CopyOK(worker[q])'
      BY <2>1 DEF CopyOK
    <3>1. /\ x.request \in Request /\ x.copy.binding \in Binding
          /\ x.copy.version <= workflows[x.request.id].version
          /\ x.copy.version = workflows[x.request.id].version
               => x.copy = workflows[x.request.id]
      BY <2>1 DEF WorkerOK, CopyOK
    <3>2. x.request.id \in Key /\ workflows[x.request.id].version \in Nat
          /\ workflows[i].version \in Nat /\ x.copy.version \in Nat
      BY <3>1, <2>1 DEF RequestType, Inv, TypeOK, RepositoryTypeOK, Workflow, WorkerState
    <3>3. workflows'[x.request.id] = IF x.request.id = i THEN w
                                     ELSE workflows[x.request.id]
      BY <3>2 DEF Inv, TypeOK, RepositoryTypeOK
    <3> QED BY <2>1, <3>1, <3>2, <3>3 DEF CopyOK
  <2> QED BY <2>2, <2>3 DEF WorkerOK
<1> QED BY <1>2, <1>3

-----------------------------------------------------------------------------
(* Steps that write no document.                                            *)

THEOREM InitInv == Init => Inv
<1> SUFFICES ASSUME Init PROVE Inv
  OBVIOUS
<1> USE DEF Init, RepositoryInit
<1>1. NoWorkflow \in Workflow /\ NoCommand \in CommandRow /\ NoActive \in ActiveRow
  BY DEF NoWorkflow, Workflow, WorkflowState, NoCommand, CommandRow, NoActive, ActiveRow
<1>2. TypeOK
  BY <1>1, IdleOK DEF TypeOK, RepositoryTypeOK
<1>3. Documents
  BY DEF Documents, DocumentOK, NoWorkflow, Unclaimed
<1>4. Rows
  BY DEF Rows, NoActive, Holding, NoWorkflow
<1>5. Workers
  BY IdleOK DEF Workers
<1> QED BY <1>2, <1>3, <1>4, <1>5 DEF Inv

LEMMA BeginStep ==
  ASSUME Inv, NEW p \in Worker, NEW r \in Request, Begin(p, r)
  PROVE  Inv'
<1> DEFINE x == [Idle EXCEPT !.pc = IF r.op = "propose" THEN "session" ELSE "load",
                             !.request = r, !.token = NewToken]
<1>1. NewToken \in Token
  BY DEF Begin, NewToken
<1>2. x \in WorkerState
  BY <1>1, IdleOK DEF Idle, WorkerState, ProgramCounter
<1>3. WorkerOK(x)
  BY DEF Idle, NoWorkflow, WorkerOK, StageOK, CopyOK, StoredOnly
<1>4. r.key \in Key /\ clock \in Nat
  BY DEF RequestType, Inv, TypeOK, RepositoryTypeOK
<1>5. commands' \in [Key -> CommandRow]
  BY <1>1, <1>4 DEF Begin, ClaimCommand, CommandRow, Inv, TypeOK, RepositoryTypeOK
<1>6. assets \subseteq Book \X Nat
  BY DEF Inv, TypeOK
<1> QED BY <1>2, <1>3, <1>5, <1>6, ReadStep DEF Begin, ClaimCommand, outside

\* Facts about the worker that takes a step.
LEMMA WorkerFacts ==
  ASSUME Inv, NEW p \in Worker
  PROVE  /\ worker[p] \in WorkerState
         /\ WorkerOK(worker[p])
         /\ commands \in [Key -> CommandRow]
         /\ assets \subseteq Book \X Nat
BY DEF Inv, TypeOK, RepositoryTypeOK, Workers

\* Moving on to a stage the copy is already good for.
LEMMA GotoStep ==
  ASSUME Inv, NEW p \in Worker, NEW pc \in ProgramCounter, Goto(p, pc),
         worker[p].pc # "idle",
         StageOK([worker[p] EXCEPT !.pc = pc]),
         commands' \in [Key -> CommandRow],
         UNCHANGED <<workflows, active, fences, heads, clock, registry, saved>>,
         assets' \subseteq Book \X Nat
  PROVE  Inv'
<1> DEFINE x == [worker[p] EXCEPT !.pc = pc]
<1>1. x \in WorkerState /\ WorkerOK(x)
  BY WorkerFacts DEF WorkerState, WorkerOK, CopyOK
<1>2. worker' = [worker EXCEPT ![p] = x]
  BY DEF Goto
<1> QED BY <1>1, <1>2, ReadStep

LEMMA UnwindStep ==
  ASSUME Inv, NEW p \in Worker, Unwind(p), worker[p].pc \notin {"idle", "release"},
         UNCHANGED <<tables, clock, outside>>
  PROVE  Inv'
<1> DEFINE pc == IF worker[p].request.op = "publish_verified_snapshot"
                     /\ worker[p].pc \in {"acquire", "store", "commit"}
                 THEN "release" ELSE "abort"
<1>1. Goto(p, pc) /\ pc \in ProgramCounter
  BY DEF Unwind, ProgramCounter
<1>2. StageOK([worker[p] EXCEPT !.pc = pc])
  BY WorkerFacts DEF WorkerState, WorkerOK, StageOK
<1> QED BY <1>1, <1>2, GotoStep, WorkerFacts DEF tables, outside

LEMMA DoneStep ==
  ASSUME Inv, NEW p \in Worker, Done(p), commands' \in [Key -> CommandRow],
         UNCHANGED <<workflows, active, fences, heads, clock, outside>>
  PROVE  Inv'
BY ReadStep, IdleOK, WorkerFacts DEF Done, outside

LEMMA LoadStep ==
  ASSUME Inv, NEW p \in Worker, Load(p)
  PROVE  Inv'
<1> DEFINE r == worker[p].request
           w == workflows[r.id]
           x == [worker[p] EXCEPT !.pc = IF StoredOnly(r) THEN "validate" ELSE "session",
                                  !.copy = w]
<1>1. CASE w.state = "absent"
  BY <1>1, UnwindStep DEF Load
<1>2. CASE w.state # "absent"
  <2>1. worker[p] \in WorkerState /\ r \in Request /\ r.op # "propose" /\ r.id \in Key
    BY WorkerFacts DEF Load, WorkerOK, StageOK, RequestType
  <2>2. w \in Workflow /\ w.binding \in Binding /\ w.version > 0
    BY <2>1, <1>2 DEF Inv, TypeOK, RepositoryTypeOK, Documents, DocumentOK, Workflow
  <2>3. x \in WorkerState
    BY <2>1, <2>2 DEF WorkerState, ProgramCounter
  <2>4. x.request = r /\ x.copy = w /\ x.pc \in {"validate", "session"}
    BY <2>1 DEF WorkerState
  <2>5. StageOK(x)
    BY <2>1, <2>2, <2>4 DEF StageOK, StoredOnly
  <2>6. CopyOK(x)
    BY <2>1, <2>2, <2>4 DEF CopyOK, Workflow
  <2>7. worker' = [worker EXCEPT ![p] = x]
    BY <1>2 DEF Load
  <2> QED BY <2>3, <2>5, <2>6, <2>7, ReadStep, WorkerFacts DEF Load, WorkerOK, tables, outside
<1> QED BY <1>1, <1>2

LEMMA BindStep ==
  ASSUME Inv, NEW p \in Worker, Bind(p)
  PROVE  Inv'
<1> DEFINE r == worker[p].request
           b == registry[r.session]
           x == [worker[p] EXCEPT !.pc = "session2", !.copy = Proposed(b)]
<1>1. CASE b = None
  BY <1>1, UnwindStep DEF Bind
<1>2. CASE b # None
  <2>1. worker[p] \in WorkerState /\ r \in Request /\ r.session \in Session
    BY WorkerFacts DEF Bind, WorkerOK, StageOK, RequestType
  <2>2. b \in Binding
    BY <2>1, <1>2 DEF Inv, TypeOK
  <2>3. Proposed(b) \in Workflow /\ Proposed(b).version = 0 /\ Proposed(b).binding = b
    BY <2>2 DEF Proposed, NoWorkflow, Workflow, WorkflowState
  <2>4. x \in WorkerState /\ x.request = r /\ x.copy = Proposed(b) /\ x.pc = "session2"
    BY <2>1, <2>3 DEF WorkerState, ProgramCounter
  <2>5. WorkerOK(x)
    BY <2>1, <2>2, <2>3, <2>4, SMTT(30) DEF Bind, WorkerOK, StageOK, CopyOK, StoredOnly
  <2>6. worker' = [worker EXCEPT ![p] = x]
    BY <1>2 DEF Bind
  <2> QED BY <2>4, <2>5, <2>6, ReadStep, WorkerFacts DEF Bind, tables, outside
<1> QED BY <1>1, <1>2

LEMMA ResolveStep ==
  ASSUME Inv, NEW p \in Worker, Resolve(p)
  PROVE  Inv'
<1> DEFINE pc == IF worker[p].pc = "session" THEN "head" ELSE "head2"
<1>1. CASE Unwind(p)
  BY <1>1, UnwindStep DEF Resolve
<1>2. CASE Goto(p, pc)
  <2>1. StageOK([worker[p] EXCEPT !.pc = pc])
    BY WorkerFacts DEF Resolve, WorkerState, WorkerOK, StageOK
  <2> QED BY <1>2, <2>1, GotoStep, WorkerFacts DEF Resolve, ProgramCounter, tables, outside
<1> QED BY <1>1, <1>2 DEF Resolve

LEMMA CheckHeadStep ==
  ASSUME Inv, NEW p \in Worker, CheckHead(p)
  PROVE  Inv'
<1> DEFINE pc == IF worker[p].pc = "head" THEN "validate" ELSE "commit"
<1>1. CASE Unwind(p)
  BY <1>1, UnwindStep DEF CheckHead
<1>2. CASE Goto(p, pc)
  <2>1. StageOK([worker[p] EXCEPT !.pc = pc])
    BY WorkerFacts DEF CheckHead, WorkerState, WorkerOK, StageOK, StoredOnly
  <2> QED BY <1>2, <2>1, GotoStep, WorkerFacts DEF CheckHead, ProgramCounter, tables, outside
<1> QED BY <1>1, <1>2 DEF CheckHead

LEMMA ValidateStep ==
  ASSUME Inv, NEW p \in Worker, Validate(p)
  PROVE  Inv'
<1> DEFINE r == worker[p].request
           pc == CASE r.op = "publish_verified_snapshot" -> "claim"
                   [] r.op \in {"abort_claim", "verify_execution"} -> "commit"
                   [] OTHER -> "session2"
           x == [worker[p] EXCEPT !.stamp = Stamp(r), !.pc = pc]
<1>1. CASE Unwind(p)
  BY <1>1, UnwindStep DEF Validate
<1>2. CASE Valid(worker[p].copy, r) /\ worker' = [worker EXCEPT ![p] = x]
  <2>1. /\ worker[p] \in WorkerState /\ r \in Request /\ r.op \in Operation
        /\ WorkerOK(worker[p])
    BY WorkerFacts DEF Validate, WorkerOK, StageOK, RequestType
  <2>2. SoundCopy(worker[p].copy, r)
    BY <1>2, <2>1, ValidIsSound
  <2>3. r.op # "propose"
    BY <1>2 DEF Valid
  <2>4. Stamp(r) \in Nat
    BY DEF Stamp, Inv, TypeOK, RepositoryTypeOK
  <2>5. pc \in {"claim", "commit", "session2"}
    OBVIOUS
  <2>6. x \in WorkerState /\ x.pc = pc /\ x.copy = worker[p].copy /\ x.request = r
    BY <2>1, <2>4, <2>5 DEF WorkerState, ProgramCounter
  <2>7. StageOK(x)
    BY <2>1, <2>2, <2>3, <2>5, <2>6 DEF Validate, WorkerOK, StageOK, StoredOnly, Operation
  <2>8. CopyOK(x)
    BY <2>1, <2>6 DEF WorkerOK, CopyOK
  <2> QED BY <1>2, <2>6, <2>7, <2>8, ReadStep, WorkerFacts DEF Validate, WorkerOK, tables, outside
<1> QED BY <1>1, <1>2 DEF Validate

LEMMA AcquireStep ==
  ASSUME Inv, NEW p \in Worker, Acquire(p)
  PROVE  Inv'
<1> DEFINE b == worker[p].copy.binding
           x == [worker[p] EXCEPT !.pc = "store", !.rev = saved[b.book]]
<1>1. CASE Unwind(p)
  BY <1>1, UnwindStep DEF Acquire
<1>2. CASE saved[b.book] = b.rev + 1 /\ worker' = [worker EXCEPT ![p] = x]
  <2>1. /\ worker[p] \in WorkerState /\ WorkerOK(worker[p])
        /\ worker[p].request \in Request
        /\ worker[p].request.op = "publish_verified_snapshot"
    BY WorkerFacts DEF Acquire, WorkerOK, StageOK
  <2>2. b \in Binding
    BY <2>1 DEF Acquire, WorkerOK, StageOK, CopyOK
  <2>3. b.rev + 1 \in Nat
    BY <2>2 DEF Binding
  <2>4. x \in WorkerState /\ x.pc = "store" /\ x.copy = worker[p].copy
        /\ x.request = worker[p].request /\ x.rev = b.rev + 1
    BY <1>2, <2>1, <2>3 DEF WorkerState, ProgramCounter
  <2>5. WorkerOK(x)
    BY <2>1, <2>4 DEF Acquire, WorkerOK, StageOK, CopyOK
  <2> QED BY <1>2, <2>4, <2>5, ReadStep, WorkerFacts DEF Acquire, tables, outside
<1> QED BY <1>1, <1>2 DEF Acquire

LEMMA StoreStep ==
  ASSUME Inv, NEW p \in Worker, Store(p)
  PROVE  Inv'
<1>1. worker[p].copy.binding \in Binding /\ worker[p].rev \in Nat
  BY WorkerFacts DEF Store, WorkerOK, StageOK, CopyOK, WorkerState
<1>2. assets' \subseteq Book \X Nat
  BY <1>1, WorkerFacts DEF Store, Binding
<1>3. StageOK([worker[p] EXCEPT !.pc = "commit"])
  BY WorkerFacts DEF Store, WorkerState, WorkerOK, StageOK
<1> QED BY <1>2, <1>3, GotoStep, WorkerFacts DEF Store, ProgramCounter, tables

LEMMA AbortStep ==
  ASSUME Inv, NEW p \in Worker, Abort(p)
  PROVE  Inv'
<1>1. NoCommand \in CommandRow
  BY DEF NoCommand, CommandRow
<1>2. commands' \in [Key -> CommandRow]
  BY <1>1, WorkerFacts DEF Abort, AbortCommand, tables
<1> QED BY <1>2, DoneStep DEF Abort, AbortCommand, tables

LEMMA FaultAndCrashStep ==
  ASSUME Inv, NEW p \in Worker, Fault(p) \/ Crash(p)
  PROVE  Inv'
BY UnwindStep, DoneStep, WorkerFacts DEF Fault, Crash, tables

LEMMA EnvironmentStep ==
  ASSUME Inv,
         \/ \E s \in Session, b \in Book : Register(s, b)
         \/ \E s \in Session : Unregister(s)
         \/ \E b \in Book : Save(b)
         \/ Tick
  PROVE  Inv'
<1>1. TypeOK'
  BY DEF Inv, TypeOK, RepositoryTypeOK, Register, Unregister, Save, Tick, tables,
         outside, Binding
<1>2. UNCHANGED <<tables, worker>>
  BY DEF Register, Unregister, Save, Tick
<1>3. Documents' /\ Rows'
  BY <1>2 DEF Inv, Documents, Rows, tables, DocumentOK, Holding, Binding, NoActive
<1>4. Workers'
  BY <1>2 DEF Inv, Workers, tables, WorkerOK, StageOK, CopyOK, SoundCopy
<1> QED BY <1>1, <1>3, <1>4 DEF Inv

-----------------------------------------------------------------------------
(* Steps that write the row of a publication claim.                         *)

\* Rows speaks of the holder of a row only.
LEMMA SameRows ==
  ASSUME Rows, Documents, UNCHANGED workflows,
         \A c \in Book : /\ active'[c].id = active[c].id
                         /\ active'[c].exec = active[c].exec
                         /\ active'[c].fence = active[c].fence
                         /\ active[c].id = None => active'[c] = active[c]
  PROVE  Rows'
<1>1. \A c \in Book : active'[c].id = None => active'[c] = NoActive
  BY DEF Rows
<1>2. \A c \in Book : active'[c].id # None =>
        /\ Holding(workflows[active'[c].id])
        /\ workflows[active'[c].id].binding.book = c
        /\ workflows[active'[c].id].exec = active'[c].exec
        /\ workflows[active'[c].id].fence = active'[c].fence
  BY DEF Rows
<1>3. \A i \in Key : Holding(workflows[i]) => workflows[i].binding.book \in Book
  BY DEF Documents, DocumentOK, Holding, Binding
<1>4. \A i \in Key : Holding(workflows[i]) => active'[workflows[i].binding.book].id = i
  BY <1>3 DEF Rows
<1> QED BY <1>1, <1>2, <1>4 DEF Rows, Holding, NoActive

\* Changing the claim of a row changes neither its holder nor, for a row that
\* has one, whether it is there.
LEMMA RowClaimStep ==
  ASSUME Inv, NEW b \in Book, NEW t \in Token \cup {None}, NEW e \in Nat,
         active[b].id # None,
         active' = [active EXCEPT ![b].token = t, ![b].expires = e],
         UNCHANGED workflows
  PROVE  active' \in [Book -> ActiveRow] /\ Documents' /\ Rows'
<1>1. active \in [Book -> ActiveRow]
  BY DEF Inv, TypeOK, RepositoryTypeOK
<1>2. active' \in [Book -> ActiveRow]
  BY <1>1 DEF ActiveRow
<1>3. \A c \in Book : /\ active'[c].id = active[c].id
                      /\ active'[c].exec = active[c].exec
                      /\ active'[c].fence = active[c].fence
                      /\ active[c].id = None => active'[c] = active[c]
  BY <1>1 DEF ActiveRow
<1>4. Documents'
  BY DEF Inv, Documents, DocumentOK, Binding
<1>5. Rows'
  BY <1>3, SameRows DEF Inv
<1> QED BY <1>2, <1>4, <1>5

LEMMA TakePublicationClaimStep ==
  ASSUME Inv, NEW p \in Worker, TakePublicationClaim(p)
  PROVE  Inv'
<1> DEFINE r == worker[p].request
           b == workflows[r.id].binding.book
           x == [worker[p] EXCEPT !.pc = "acquire", !.stamp = 0]
<1>1. CASE UNCHANGED tables /\ Unwind(p)
  BY <1>1, UnwindStep DEF TakePublicationClaim
<1>2. CASE /\ CanClaimPublication(r.id, r.exec, worker[p].copy.fence, worker[p].stamp)
           /\ ClaimPublication(r.id, worker[p].token, worker[p].stamp)
           /\ worker' = [worker EXCEPT ![p] = x]
  <2>1. /\ worker[p] \in WorkerState /\ WorkerOK(worker[p]) /\ r \in Request
        /\ r.id \in Key /\ r.op = "publish_verified_snapshot"
        /\ worker[p].token \in Token \cup {None} /\ worker[p].stamp \in Nat
    BY WorkerFacts DEF TakePublicationClaim, WorkerOK, StageOK, RequestType, WorkerState
  <2>2. b \in Book /\ active[b].id = r.id
    BY <1>2, <2>1 DEF CanClaimPublication, PublicationBasis, ActiveMatches, Inv,
                      Documents, DocumentOK, Binding
  <2>3. active[b].id # None
    BY <2>1, <2>2
  <2>4. /\ active' = [active EXCEPT ![b].token = worker[p].token,
                                    ![b].expires = worker[p].stamp]
        /\ UNCHANGED <<commands, workflows, fences, heads, clock, outside>>
    BY <1>2 DEF ClaimPublication, TakePublicationClaim
  <2>5. active' \in [Book -> ActiveRow] /\ Documents' /\ Rows'
    BY <2>1, <2>2, <2>3, <2>4, RowClaimStep
  <2>6. x \in WorkerState /\ x.pc = "acquire" /\ x.copy = worker[p].copy /\ x.request = r
    BY <2>1 DEF WorkerState, ProgramCounter
  <2>7. WorkerOK(x)
    BY <2>1, <2>6 DEF TakePublicationClaim, WorkerOK, StageOK, CopyOK
  <2>8. TypeOK'
    BY <1>2, <2>4, <2>5, <2>6 DEF Inv, TypeOK, RepositoryTypeOK, outside
  <2>9. Workers'
    <3> HIDE DEF x
    <3> QED BY <1>2, <2>4, <2>6, <2>7, WorkerFrame
  <2> QED BY <2>5, <2>8, <2>9 DEF Inv
<1> QED BY <1>1, <1>2 DEF TakePublicationClaim

LEMMA ReleaseClaimStep ==
  ASSUME Inv, NEW p \in Worker, ReleaseClaim(p)
  PROVE  Inv'
<1> DEFINE r == worker[p].request
           b == workflows[r.id].binding.book
           x == [worker[p] EXCEPT !.pc = "abort"]
<1>1. /\ worker[p] \in WorkerState /\ WorkerOK(worker[p]) /\ r \in Request
      /\ r.id \in Key /\ worker' = [worker EXCEPT ![p] = x]
  BY WorkerFacts DEF ReleaseClaim, WorkerOK, StageOK, RequestType, Goto
<1>2. x \in WorkerState /\ x.pc = "abort" /\ x.copy = worker[p].copy /\ x.request = r
  BY <1>1 DEF WorkerState, ProgramCounter
<1>3. WorkerOK(x)
  BY <1>1, <1>2 DEF ReleaseClaim, WorkerOK, StageOK, CopyOK
<1>4. CASE UNCHANGED tables
  BY <1>1, <1>2, <1>3, <1>4, ReadStep, WorkerFacts DEF ReleaseClaim, tables, outside
<1>5. CASE ReleasePublication(r.id, r.exec, worker[p].copy.fence, worker[p].token)
  <2>1. active[b].id = r.id
    BY <1>5 DEF ReleasePublication
  <2>2. /\ active' = [active EXCEPT ![b].token = None, ![b].expires = 0]
        /\ UNCHANGED <<commands, workflows, fences, heads, clock, outside>>
    BY <1>5 DEF ReleasePublication, ReleaseClaim
  <2>3. active' \in [Book -> ActiveRow] /\ Documents' /\ Rows'
    <3>1. CASE b \in Book
      BY <1>1, <2>1, <2>2, <3>1, RowClaimStep
    <3>2. CASE b \notin Book
      <4>1. active' = active
        BY <2>2, <3>2 DEF Inv, TypeOK, RepositoryTypeOK
      <4>2. Documents'
        BY <2>2 DEF Inv, Documents, DocumentOK, Binding
      <4> QED BY <2>2, <4>1, <4>2, SameRows DEF Inv, TypeOK, RepositoryTypeOK
    <3> QED BY <3>1, <3>2
  <2>4. TypeOK'
    BY <1>1, <1>2, <2>2, <2>3 DEF Inv, TypeOK, RepositoryTypeOK, outside
  <2>5. Workers'
    <3> HIDE DEF x
    <3> QED BY <1>1, <1>2, <1>3, <2>2, WorkerFrame
  <2> QED BY <2>3, <2>4, <2>5 DEF Inv
<1> QED BY <1>4, <1>5 DEF ReleaseClaim

-----------------------------------------------------------------------------
(* Steps that write a document.                                             *)

\* The new document holds the workbook if and only if the old one did, under
\* the same row.
LEMMA KeepRow ==
  ASSUME Inv, NEW i \in Key, NEW w \in Workflow,
         workflows' = [workflows EXCEPT ![i] = w], active' = active,
         Holding(w) <=> Holding(workflows[i]),
         Holding(w) => /\ w.binding = workflows[i].binding
                       /\ w.exec = workflows[i].exec
                       /\ w.fence = workflows[i].fence
  PROVE  Rows'
<1>1. \A j \in Key : workflows'[j] = IF j = i THEN w ELSE workflows[j]
  BY DEF Inv, TypeOK, RepositoryTypeOK
<1>2. \A b \in Book : active[b].id \in Key \cup {None}
  BY DEF Inv, TypeOK, RepositoryTypeOK, ActiveRow
<1>3. \A b \in Book : active[b].id # None =>
        /\ Holding(workflows'[active[b].id])
        /\ workflows'[active[b].id].binding.book = b
        /\ workflows'[active[b].id].exec = active[b].exec
        /\ workflows'[active[b].id].fence = active[b].fence
  BY <1>1, <1>2 DEF Inv, Rows
<1>4. \A j \in Key : Holding(workflows'[j]) =>
        active[workflows'[j].binding.book].id = j
  BY <1>1 DEF Inv, Rows
<1>5. \A b \in Book : active[b].id = None => active[b] = NoActive
  BY SMTT(30) DEF Inv, Rows
<1> QED BY <1>3, <1>4, <1>5 DEF Rows, Holding, NoActive

\* The holder lets go: its row goes with its hold.
LEMMA FreeRow ==
  ASSUME Inv, NEW i \in Key, NEW w \in Workflow,
         workflows' = [workflows EXCEPT ![i] = w],
         active' = [active EXCEPT ![workflows[i].binding.book] = NoActive],
         Holding(workflows[i]), ~ Holding(w)
  PROVE  Rows'
<1> DEFINE c == workflows[i].binding.book
<1>1. \A j \in Key : workflows'[j] = IF j = i THEN w ELSE workflows[j]
  BY DEF Inv, TypeOK, RepositoryTypeOK
<1>2. \A b \in Book : active[b].id \in Key \cup {None}
  BY DEF Inv, TypeOK, RepositoryTypeOK, ActiveRow
<1>3. \A j \in Key : Holding(workflows[j]) => workflows[j].binding.book \in Book
  BY DEF Inv, Documents, DocumentOK, Holding, Binding
<1>4. \A b \in Book : active'[b] = IF b = c THEN NoActive ELSE active[b]
  BY DEF Inv, TypeOK, RepositoryTypeOK
<1>5. NoActive.id = None
  BY DEF NoActive
<1>6. c \in Book /\ active[c].id = i
  BY <1>3 DEF Inv, Rows
<1>7. \A b \in Book : active'[b].id # None =>
        /\ Holding(workflows'[active'[b].id])
        /\ workflows'[active'[b].id].binding.book = b
        /\ workflows'[active'[b].id].exec = active'[b].exec
        /\ workflows'[active'[b].id].fence = active'[b].fence
  <2> SUFFICES ASSUME NEW b \in Book, active'[b].id # None
               PROVE /\ Holding(workflows'[active'[b].id])
                     /\ workflows'[active'[b].id].binding.book = b
                     /\ workflows'[active'[b].id].exec = active'[b].exec
                     /\ workflows'[active'[b].id].fence = active'[b].fence
    OBVIOUS
  <2>1. b # c /\ active'[b] = active[b] /\ active[b].id \in Key
    BY <1>2, <1>4, <1>5
  <2>2. workflows[active[b].id].binding.book = b
    BY <2>1 DEF Inv, Rows
  <2>3. active[b].id # i
    BY <2>1, <2>2
  <2> QED BY <1>1, <2>1, <2>3 DEF Inv, Rows
<1>8. \A j \in Key : Holding(workflows'[j]) =>
        active'[workflows'[j].binding.book].id = j
  <2> SUFFICES ASSUME NEW j \in Key, Holding(workflows'[j])
               PROVE active'[workflows'[j].binding.book].id = j
    OBVIOUS
  <2>1. j # i /\ workflows'[j] = workflows[j]
    BY <1>1
  <2>2. workflows[j].binding.book \in Book /\ active[workflows[j].binding.book].id = j
    BY <2>1, <1>3 DEF Inv, Rows
  <2> QED BY <1>4, <1>6, <2>1, <2>2
<1>9. \A b \in Book : active'[b].id = None => active'[b] = NoActive
  BY <1>4, SMTT(30) DEF Inv, Rows
<1> QED BY <1>7, <1>8, <1>9 DEF Rows, Holding, NoActive

\* A free workbook is taken.
LEMMA TakeRow ==
  ASSUME Inv, NEW i \in Key, NEW w \in Workflow, NEW a \in ActiveRow,
         workflows' = [workflows EXCEPT ![i] = w],
         active' = [active EXCEPT ![w.binding.book] = a],
         w.binding.book \in Book, active[w.binding.book] = NoActive,
         ~ Holding(workflows[i]), Holding(w),
         a.id = i, a.exec = w.exec, a.fence = w.fence
  PROVE  Rows'
<1> DEFINE c == w.binding.book
<1>1. \A j \in Key : workflows'[j] = IF j = i THEN w ELSE workflows[j]
  BY DEF Inv, TypeOK, RepositoryTypeOK
<1>2. \A b \in Book : active[b].id \in Key \cup {None}
  BY DEF Inv, TypeOK, RepositoryTypeOK, ActiveRow
<1>3. \A j \in Key : Holding(workflows[j]) => workflows[j].binding.book \in Book
  BY DEF Inv, Documents, DocumentOK, Holding, Binding
<1>4. \A b \in Book : active'[b] = IF b = c THEN a ELSE active[b]
  BY DEF Inv, TypeOK, RepositoryTypeOK
<1>5. active[c].id = None
  BY DEF NoActive
<1>6. \A b \in Book : active'[b].id # None =>
        /\ Holding(workflows'[active'[b].id])
        /\ workflows'[active'[b].id].binding.book = b
        /\ workflows'[active'[b].id].exec = active'[b].exec
        /\ workflows'[active'[b].id].fence = active'[b].fence
  <2> SUFFICES ASSUME NEW b \in Book, active'[b].id # None
               PROVE /\ Holding(workflows'[active'[b].id])
                     /\ workflows'[active'[b].id].binding.book = b
                     /\ workflows'[active'[b].id].exec = active'[b].exec
                     /\ workflows'[active'[b].id].fence = active'[b].fence
    OBVIOUS
  <2>1. CASE b = c
    BY <1>1, <1>4, <2>1
  <2>2. CASE b # c
    <3>1. active'[b] = active[b] /\ active[b].id \in Key /\ Holding(workflows[active[b].id])
      BY <1>2, <1>4, <2>2 DEF Inv, Rows
    <3>2. active[b].id # i
      BY <3>1
    <3> QED BY <1>1, <3>1, <3>2 DEF Inv, Rows
  <2> QED BY <2>1, <2>2
<1>7. \A j \in Key : Holding(workflows'[j]) =>
        active'[workflows'[j].binding.book].id = j
  <2> SUFFICES ASSUME NEW j \in Key, Holding(workflows'[j])
               PROVE active'[workflows'[j].binding.book].id = j
    OBVIOUS
  <2>1. CASE j = i
    BY <1>1, <1>4, <2>1
  <2>2. CASE j # i
    <3>1. workflows'[j] = workflows[j]
      BY <1>1, <2>2
    <3>2. workflows[j].binding.book \in Book /\ active[workflows[j].binding.book].id = j
      BY <3>1, <1>3 DEF Inv, Rows
    <3>3. workflows[j].binding.book # c
      BY <1>5, <3>2
    <3> QED BY <1>4, <3>1, <3>2, <3>3
  <2> QED BY <2>1, <2>2
<1>8. \A b \in Book : active'[b].id = None => active'[b] = NoActive
  BY <1>4 DEF Inv, Rows
<1> QED BY <1>6, <1>7, <1>8 DEF Rows, Holding, NoActive

\* The receipt of a workflow is a receipt.
LEMMA CompleteType ==
  ASSUME commands \in [Key -> CommandRow], NEW r \in Request, NEW i \in Key,
         NEW w \in Workflow, CompleteCommand(r, i, w)
  PROVE  commands' \in [Key -> CommandRow]
<1> DEFINE row == [status |-> "completed", request |-> r, token |-> None,
                   expires |-> 0, receipt |-> ReceiptOf(i, w)]
<1>1. ReceiptOf(i, w) \in Receipt
  BY DEF ReceiptOf, Receipt, Workflow
<1>2. row \in CommandRow
  BY <1>1 DEF CommandRow
<1>3. commands' = [commands EXCEPT ![r.key] = row]
  BY DEF CompleteCommand
<1> QED BY <1>2, <1>3

\* A transaction that writes the next version of one document keeps the
\* invariant if it keeps the rows in order.
LEMMA WriteStep ==
  ASSUME Inv, NEW p \in Worker, NEW r \in Request, NEW i \in Key,
         NEW w \in Workflow,
         w.version = workflows[i].version + 1,
         DocumentOK(w),
         workflows' = [workflows EXCEPT ![i] = w],
         Done(p), CompleteCommand(r, i, w),
         active' \in [Book -> ActiveRow],
         fences' \in [Book -> Nat], heads' \in [Book -> Nat],
         UNCHANGED <<clock, outside>>,
         Rows'
  PROVE  Inv'
<1>1. workflows' \in [Key -> Workflow] /\ workflows[i].version \in Nat
  BY DEF Inv, TypeOK, RepositoryTypeOK, Workflow
<1>2. worker' \in [Worker -> WorkerState]
  BY IdleOK DEF Done, Inv, TypeOK
<1>3. commands' \in [Key -> CommandRow]
  BY CompleteType DEF Inv, TypeOK, RepositoryTypeOK
<1>4. TypeOK'
  BY <1>1, <1>2, <1>3 DEF Inv, TypeOK, RepositoryTypeOK, outside
<1>5. Documents'
  <2> SUFFICES ASSUME NEW j \in Key PROVE DocumentOK(workflows[j])'
    BY DEF Documents
  <2>1. workflows'[j] = IF j = i THEN w ELSE workflows[j]
    BY DEF Inv, TypeOK, RepositoryTypeOK
  <2>2. DocumentOK(workflows[j])
    BY DEF Inv, Documents
  <2> QED BY <1>1, <2>1, <2>2 DEF DocumentOK, Binding, Unclaimed
<1>6. Workers'
  BY VersionStep DEF Done
<1> QED BY <1>4, <1>5, <1>6 DEF Inv

\* Which commands leave the workbook held, and which give it back.
LEMMA TransitionHolds ==
  ASSUME NEW c \in Workflow, NEW r \in Request, NEW stamp \in Nat,
         r.op \notin {"propose", "claim_execution", "publish_verified_snapshot"},
         SoundCopy(c, r), c.publication = 0
  PROVE  LET w == Updated(c, r, stamp) IN
         /\ RequiresActive(r) => Holding(c) /\ (Holding(w) <=> ~ ReleasesBook(w))
         /\ ~ RequiresActive(r) => ~ Holding(c) /\ ~ Holding(w) /\ ~ ReleasesBook(w)
<1> DEFINE w == Updated(c, r, stamp)
<1>1. w.state = NextState(r) /\ w.required = c.required /\ w.publication = c.publication
  BY UpdatedType
<1>2. r.op \in Operation /\ r.witness \in Witness
  BY DEF RequestType
<1>3. CASE r.op \in {"preview", "approve", "reject"}
  BY <1>1, <1>3 DEF SoundCopy, NextState, RequiresActive, Holding, ReleasesBook
<1>4. CASE r.op = "mark_apply_started"
  BY <1>1, <1>4 DEF SoundCopy, NextState, RequiresActive, Holding, ReleasesBook
<1>5. CASE r.op = "abort_claim"
  BY <1>1, <1>5 DEF SoundCopy, NextState, RequiresActive, Holding, ReleasesBook
<1>6. CASE r.op = "verify_execution"
  <2>1. w.state = VerifiedState(r.witness)
    BY <1>1, <1>6 DEF NextState
  <2>2. Holding(c)
    BY <1>6 DEF SoundCopy, Holding
  <2>3. c.required \in BOOLEAN
    BY DEF Workflow
  <2> QED BY <1>1, <1>2, <1>6, <2>1, <2>2, <2>3, VerifiedStateType
          DEF RequiresActive, Holding, ReleasesBook
<1> QED BY <1>2, <1>3, <1>4, <1>5, <1>6 DEF Operation

\* What a worker about to commit knows of the document it replaces.
LEMMA CommitFacts ==
  ASSUME Inv, NEW p \in Worker, worker[p].pc = "commit",
         VersionIs(Target(worker[p].request), worker[p].copy.version)
  PROVE  LET r == worker[p].request
             c == worker[p].copy
         IN
         /\ r \in Request /\ r.key \in Key /\ r.op \in Operation
         /\ c \in Workflow /\ worker[p].stamp \in Nat /\ worker[p].rev \in Nat
         /\ r.op = "propose" =>
              /\ c.binding \in Binding /\ c = Proposed(c.binding)
              /\ workflows[r.key].version = 0
         /\ r.op # "propose" =>
              /\ r.id \in Key /\ c = workflows[r.id] /\ c.version > 0
              /\ c.binding \in Binding /\ SoundCopy(c, r) /\ DocumentOK(c)
<1> DEFINE r == worker[p].request
           c == worker[p].copy
<1>1. /\ r \in Request /\ r.key \in Key /\ r.id \in Key /\ r.op \in Operation
      /\ c \in Workflow /\ worker[p].stamp \in Nat /\ worker[p].rev \in Nat
  BY WorkerFacts DEF WorkerOK, StageOK, RequestType, WorkerState
<1>2. ASSUME r.op = "propose"
      PROVE  /\ c.binding \in Binding /\ c = Proposed(c.binding)
             /\ workflows[r.key].version = 0
  <2>1. c.binding \in Binding /\ c = Proposed(c.binding)
    BY <1>2, WorkerFacts DEF WorkerOK, StageOK
  <2>2. c.version = 0
    BY <2>1 DEF Proposed, NoWorkflow
  <2> QED BY <1>2, <2>1, <2>2 DEF VersionIs, Target
<1>3. ASSUME r.op # "propose"
      PROVE  /\ c = workflows[r.id] /\ c.version > 0
             /\ c.binding \in Binding /\ SoundCopy(c, r) /\ DocumentOK(c)
  <2>1. c.version > 0 /\ SoundCopy(c, r)
    BY <1>3, WorkerFacts DEF WorkerOK, StageOK
  <2>2. c.binding \in Binding /\ c = workflows[r.id]
    BY <1>3, <2>1, WorkerFacts DEF WorkerOK, CopyOK, VersionIs, Target
  <2> QED BY <1>1, <2>1, <2>2 DEF Inv, Documents
<1> QED BY <1>1, <1>2, <1>3

\* A row of a workbook can always be emptied.
LEMMA EmptiedType ==
  ASSUME Inv, NEW b
  PROVE  [active EXCEPT ![b] = NoActive] \in [Book -> ActiveRow]
<1>1. NoActive \in ActiveRow
  BY DEF NoActive, ActiveRow
<1> QED BY <1>1 DEF Inv, TypeOK, RepositoryTypeOK

LEMMA PublishStep ==
  ASSUME Inv, NEW p \in Worker, Publish(p)
  PROVE  Inv'
<1> DEFINE r == worker[p].request
           c == worker[p].copy
           i == Target(r)
           w == Updated(c, r, worker[p].stamp)
           ok == CanPublishTransition(r, worker[p].token, i, c.version, w,
                                      RequiresActive(r))
<1>1. CASE ~ ok
  BY <1>1, UnwindStep DEF Publish
<1>2. CASE ok
  <2>1. VersionIs(i, c.version) /\ worker[p].pc = "commit"
        /\ r.op \notin {"claim_execution", "publish_verified_snapshot"}
    BY <1>2 DEF Publish, CanPublishTransition
  <2>2. /\ r \in Request /\ r.key \in Key /\ r.op \in Operation
        /\ c \in Workflow /\ worker[p].stamp \in Nat
        /\ r.op = "propose" =>
              /\ c.binding \in Binding /\ c = Proposed(c.binding)
              /\ workflows[r.key].version = 0
        /\ r.op # "propose" =>
              /\ r.id \in Key /\ c = workflows[r.id] /\ c.version > 0
              /\ c.binding \in Binding /\ SoundCopy(c, r) /\ DocumentOK(c)
    BY <2>1, CommitFacts
  <2>3. i \in Key /\ workflows[i].version = c.version /\ c.binding \in Binding
    BY <2>1, <2>2 DEF Target, VersionIs
  <2>4. /\ w \in Workflow /\ w.version = c.version + 1
        /\ w.state = NextState(r) /\ w.binding = c.binding /\ w.exec = c.exec
        /\ w.fence = c.fence /\ w.required = c.required
        /\ w.publication = c.publication /\ w.consumed = c.consumed
    <3>1. c \in Workflow /\ r \in Request /\ worker[p].stamp \in Nat
      BY <2>2
    <3>2. w = Updated(c, r, worker[p].stamp)
      OBVIOUS
    <3> HIDE DEF w, r, c
    <3> QED
      BY <3>1, <3>2, UpdatedType
  <2>5. /\ PublishTransition(r, i, w, ReleasesBook(w)) /\ Done(p)
        /\ UNCHANGED <<clock, outside>>
    <3> HIDE DEF w
    <3> QED BY <1>2 DEF Publish, w
  <2> HIDE DEF w
  <2>6. /\ workflows' = [workflows EXCEPT ![i] = w]
        /\ active' = IF ReleasesBook(w)
                     THEN [active EXCEPT ![w.binding.book] = NoActive] ELSE active
        /\ CompleteCommand(r, i, w)
        /\ fences' = fences /\ heads' = heads
    BY <2>5 DEF PublishTransition
  <2>7. active' \in [Book -> ActiveRow] /\ fences' \in [Book -> Nat]
        /\ heads' \in [Book -> Nat]
    BY <2>6, EmptiedType DEF Inv, TypeOK, RepositoryTypeOK
  <2>8. w.version > 0
    BY <2>2, <2>4 DEF Workflow
  <2>9. CASE r.op = "propose"
    <3>1. workflows[i].state = "absent"
      BY <2>2, <2>3, <2>9 DEF Inv, Documents, DocumentOK, Target
    <3>2. /\ w.state = "proposed" /\ w.exec = None /\ w.fence = 0
          /\ w.publication = 0
      <4>1. c.exec = None /\ c.fence = 0 /\ c.publication = 0
        BY <2>2, <2>9 DEF Proposed, NoWorkflow
      <4> QED BY <2>4, <2>9, <4>1 DEF NextState
    <3>3. ~ Holding(w) /\ ~ Holding(workflows[i]) /\ ~ ReleasesBook(w)
      BY <3>1, <3>2 DEF Holding, ReleasesBook
    <3>4. Rows'
      BY <2>3, <2>4, <2>6, <3>3, KeepRow
    <3>5. DocumentOK(w)
      BY <2>3, <2>4, <2>8, <3>2 DEF DocumentOK, Unclaimed
    <3> QED BY <2>2, <2>3, <2>4, <2>5, <2>6, <2>7, <3>4, <3>5, WriteStep
  <2>10. CASE r.op # "propose"
    <3>1. i = r.id /\ c = workflows[i] /\ DocumentOK(c) /\ SoundCopy(c, r)
      BY <2>2, <2>10 DEF Target
    <3>2. c.publication = 0
      BY <2>1, <2>2, <2>10, <3>1 DEF DocumentOK, SoundCopy, Operation
    <3>3. /\ RequiresActive(r) => Holding(c) /\ (Holding(w) <=> ~ ReleasesBook(w))
          /\ ~ RequiresActive(r) => ~ Holding(c) /\ ~ Holding(w) /\ ~ ReleasesBook(w)
      BY <2>1, <2>2, <2>10, <3>1, <3>2, TransitionHolds DEF w
    <3>4. Rows'
      <4>1. CASE ReleasesBook(w)
        BY <2>3, <2>4, <2>6, <3>1, <3>3, <4>1, FreeRow
      <4>2. CASE ~ ReleasesBook(w)
        BY <2>3, <2>4, <2>6, <3>1, <3>3, <4>2, KeepRow
      <4> QED BY <4>1, <4>2
    <3>5. DocumentOK(w)
      <4>1. r.witness \in Witness
        BY <2>2 DEF RequestType
      <4>2. w.state # "absent" /\ (w.state \in Unclaimed <=> c.state \in Unclaimed)
        BY <2>1, <2>2, <2>4, <2>10, <3>1, <4>1, VerifiedStateType
           DEF NextState, SoundCopy, Unclaimed, Operation
      <4> QED BY <2>3, <2>4, <2>8, <3>1, <3>2, <4>2 DEF DocumentOK
    <3> QED BY <2>2, <2>3, <2>4, <2>5, <2>6, <2>7, <3>4, <3>5, WriteStep
  <2> QED BY <2>9, <2>10
<1> QED BY <1>1, <1>2

LEMMA ClaimStep ==
  ASSUME Inv, NEW p \in Worker, Claim(p)
  PROVE  Inv'
<1> DEFINE r == worker[p].request
           c == worker[p].copy
           i == r.id
           w == ClaimedWorkflow(i, r.key, r.required)
           b == c.binding.book
           n == fences[b] + 1
           a == [id |-> i, exec |-> r.key, fence |-> n, token |-> None, expires |-> 0]
           ok == CanClaimExecution(r, worker[p].token, i, c.version)
<1>1. CASE ~ ok
  BY <1>1, UnwindStep DEF Claim
<1>2. CASE ok
  <2>1. /\ VersionIs(Target(r), c.version) /\ worker[p].pc = "commit"
        /\ r.op = "claim_execution"
    BY <1>2 DEF Claim, CanClaimExecution, Target
  <2>2. /\ r \in Request /\ r.key \in Key /\ r.required \in BOOLEAN
        /\ i \in Key /\ c \in Workflow /\ c = workflows[i] /\ c.version \in Nat
        /\ c.version > 0 /\ c.binding \in Binding /\ c.state = "approved"
        /\ DocumentOK(c)
    BY <2>1, CommitFacts DEF SoundCopy, RequestType, Workflow
  <2>3. b \in Book /\ n \in Nat /\ n > 0 /\ NextFence(b) = n
    BY <2>2 DEF Binding, NextFence, Inv, TypeOK, RepositoryTypeOK
  <2>4. w = [c EXCEPT !.state = "claimed", !.version = c.version + 1,
                      !.consumed = TRUE, !.exec = r.key, !.fence = n,
                      !.required = r.required]
    BY <2>2, <2>3 DEF ClaimedWorkflow, NextFence
  <2>5. /\ w \in Workflow /\ w.state = "claimed" /\ w.version = c.version + 1
        /\ w.consumed = TRUE /\ w.exec = r.key /\ w.fence = n
        /\ w.binding = c.binding /\ w.publication = c.publication
    <3> DEFINE v == c.version + 1
               k == r.key
               d == r.required
    <3>1. v \in Nat /\ k \in Key /\ d \in BOOLEAN
      BY <2>2
    <3>2. w = [c EXCEPT !.state = "claimed", !.version = v, !.consumed = TRUE,
                        !.exec = k, !.fence = n, !.required = d]
      BY <2>4, SMTT(30)
    <3> HIDE DEF w, c, v, n, k, d
    <3>3. w \in Workflow
      BY <2>2, <2>3, <3>1, <3>2, ClaimedType
    <3>4. /\ w.state = "claimed" /\ w.version = v /\ w.consumed = TRUE
          /\ w.exec = k /\ w.fence = n /\ w.binding = c.binding
          /\ w.publication = c.publication
      BY <2>2, <3>2 DEF Workflow
    <3> QED BY <3>3, <3>4 DEF v, k
  <2>6. /\ ClaimExecution(r, i, r.key, r.required) /\ Done(p)
        /\ UNCHANGED <<clock, outside>>
    BY <1>2 DEF Claim
  <2> HIDE DEF w
  <2>7. /\ workflows' = [workflows EXCEPT ![i] = w]
        /\ active' = [active EXCEPT ![b] = a]
        /\ fences' = [fences EXCEPT ![b] = n]
        /\ CompleteCommand(r, i, w) /\ heads' = heads
    BY <2>5, <2>6, SMTT(30) DEF ClaimExecution, w
  <2>8. a \in ActiveRow
    BY <2>2, <2>3 DEF ActiveRow
  <2>9. /\ active' \in [Book -> ActiveRow] /\ fences' \in [Book -> Nat]
        /\ heads' \in [Book -> Nat]
    BY <2>3, <2>7, <2>8, SMTT(30) DEF Inv, TypeOK, RepositoryTypeOK
  <2>10. active[b] = NoActive
    BY <1>2, <2>2 DEF CanClaimExecution, NoActiveRow
  <2>11. Holding(w) /\ ~ Holding(workflows[i])
    BY <2>2, <2>5 DEF Holding
  <2>12. Rows'
    BY <2>2, <2>3, <2>5, <2>7, <2>8, <2>10, <2>11, TakeRow
  <2>13. DocumentOK(w)
    BY <2>2, <2>3, <2>5 DEF DocumentOK, Unclaimed
  <2> QED BY <2>2, <2>5, <2>6, <2>7, <2>9, <2>12, <2>13, WriteStep
<1> QED BY <1>1, <1>2

LEMMA PublishHeadStep ==
  ASSUME Inv, NEW p \in Worker, PublishHead(p)
  PROVE  Inv'
<1> DEFINE r == worker[p].request
           c == worker[p].copy
           i == r.id
           rev == worker[p].rev
           w == [workflows[i] EXCEPT !.version = @ + 1, !.publication = rev]
           b == c.binding.book
           ok == CanPublishSnapshot(r, worker[p].token, i, c.version, r.exec, c.fence)
<1>1. CASE ~ ok
  BY <1>1, UnwindStep DEF PublishHead
<1>2. CASE ok
  <2>1. /\ VersionIs(Target(r), c.version) /\ worker[p].pc = "commit"
        /\ r.op = "publish_verified_snapshot"
    BY <1>2 DEF PublishHead, CanPublishSnapshot, Target
  <2>2. /\ r \in Request /\ i \in Key /\ c \in Workflow /\ c = workflows[i]
        /\ c.version \in Nat /\ c.version > 0 /\ c.binding \in Binding
        /\ c.state = "session_verified" /\ c.required /\ c.publication = 0
        /\ DocumentOK(c) /\ rev \in Nat
    BY <2>1, CommitFacts DEF SoundCopy, Workflow
  <2>3. rev = c.binding.rev + 1
    BY <2>1, WorkerFacts DEF WorkerOK, StageOK
  <2>4. b \in Book /\ rev > 0
    BY <2>2, <2>3 DEF Binding
  <2>5. /\ w \in Workflow /\ w.state = "session_verified" /\ w.publication = rev
        /\ w.version = c.version + 1 /\ w.binding = c.binding /\ w.exec = c.exec
        /\ w.fence = c.fence /\ w.consumed = c.consumed
    <3> DEFINE v == c.version + 1
    <3>1. v \in Nat
      BY <2>2
    <3>2. w = [c EXCEPT !.version = v, !.publication = rev]
      BY <2>2
    <3> HIDE DEF w, c, v, rev
    <3>3. w \in Workflow
      BY <2>2, <3>1, <3>2, PublishedType
    <3>4. /\ w.state = c.state /\ w.publication = rev /\ w.version = v
          /\ w.binding = c.binding /\ w.exec = c.exec /\ w.fence = c.fence
          /\ w.consumed = c.consumed
      BY <2>2, <3>2 DEF Workflow
    <3> QED BY <2>2, <3>3, <3>4 DEF v
  <2>6. PublishSnapshot(r, i, rev) /\ Done(p) /\ UNCHANGED <<clock, outside>>
    BY <1>2 DEF PublishHead
  <2> HIDE DEF w
  <2>7. /\ workflows' = [workflows EXCEPT ![i] = w]
        /\ active' = [active EXCEPT ![b] = NoActive]
        /\ heads' = [heads EXCEPT ![b] = rev]
        /\ CompleteCommand(r, i, w) /\ fences' = fences
    BY <2>5, <2>6 DEF PublishSnapshot, w
  <2>8. /\ active' \in [Book -> ActiveRow] /\ fences' \in [Book -> Nat]
        /\ heads' \in [Book -> Nat]
    BY <2>2, <2>7, EmptiedType DEF Inv, TypeOK, RepositoryTypeOK
  <2>9. Holding(workflows[i]) /\ ~ Holding(w)
    BY <2>2, <2>4, <2>5 DEF Holding
  <2>10. Rows'
    BY <2>2, <2>5, <2>7, <2>9, FreeRow
  <2>11. DocumentOK(w)
    BY <2>2, <2>5 DEF DocumentOK, Unclaimed
  <2> QED BY <2>2, <2>5, <2>6, <2>7, <2>8, <2>10, <2>11, WriteStep
<1> QED BY <1>1, <1>2

-----------------------------------------------------------------------------
(* The invariant, and what follows from it.                                 *)

\* Every step of the service keeps the invariant.
THEOREM InvStep == Inv /\ [Next]_vars => Inv'
<1> SUFFICES ASSUME Inv, [Next]_vars PROVE Inv'
  OBVIOUS
<1>1. ASSUME NEW p \in Worker, NEW r \in Request, Begin(p, r) PROVE Inv'
  BY <1>1, BeginStep
<1>2. ASSUME NEW p \in Worker, WorkerStep(p) \/ Fault(p) \/ Crash(p) PROVE Inv'
  BY <1>2, LoadStep, BindStep, ResolveStep, CheckHeadStep, ValidateStep,
     PublishStep, ClaimStep, TakePublicationClaimStep, AcquireStep, StoreStep,
     PublishHeadStep, ReleaseClaimStep, AbortStep, FaultAndCrashStep
     DEF WorkerStep
<1>3. CASE \/ \E s \in Session, b \in Book : Register(s, b)
           \/ \E s \in Session : Unregister(s)
           \/ \E b \in Book : Save(b)
           \/ Tick
  BY <1>3, EnvironmentStep
<1>4. CASE UNCHANGED vars
  <2>1. TypeOK'
    BY <1>4 DEF Inv, TypeOK, RepositoryTypeOK, vars, tables, outside
  <2>2. Documents' /\ Rows'
    BY <1>4 DEF Inv, Documents, Rows, vars, tables
  <2>3. Workers'
    BY <1>4 DEF Inv, Workers, WorkerOK, StageOK, CopyOK, vars, tables
  <2> QED BY <2>1, <2>2, <2>3 DEF Inv
<1> QED BY <1>1, <1>2, <1>3, <1>4 DEF Next

\* In every behaviour of the service, documents, rows and copies agree.
THEOREM Invariance == Spec => []Inv
BY InitInv, InvStep, PTL DEF Spec

\* Every variable of the service and of its database keeps its type: rows of
\* all five tables are well-formed after every transaction.
THEOREM TypeCorrect == Spec => []TypeOK
<1>1. Inv => TypeOK
  BY DEF Inv
<1> QED BY <1>1, Invariance, PTL

\* The rows of active_workbooks and the workflows that hold a live workbook
\* are in one-to-one correspondence, for any number of workers, clients and
\* retries: the fenced claim of claim_execution excludes every second holder.
THEOREM ExactHolder == Spec => []HolderIsExact
<1>1. Inv => HolderIsExact
  <2> SUFFICES ASSUME Inv, NEW b \in Book, NEW i \in Key,
                      workflows[i].state # "absent", workflows[i].binding.book = b
               PROVE  Holding(workflows[i]) <=>
                        (active[b].id = i /\ ActiveMatches(i, workflows[i]))
    BY DEF HolderIsExact
  <2>1. ASSUME Holding(workflows[i])
        PROVE  active[b].id = i /\ ActiveMatches(i, workflows[i])
    <3>1. active[b].id = i /\ i # None
      BY <2>1 DEF Inv, Rows
    <3>2. workflows[i].exec = active[b].exec /\ workflows[i].fence = active[b].fence
      BY <3>1 DEF Inv, Rows
    <3> QED BY <3>1, <3>2 DEF ActiveMatches
  <2>2. ASSUME active[b].id = i
        PROVE  Holding(workflows[i])
    BY <2>2 DEF Inv, Rows
  <2> QED BY <2>1, <2>2
<1> QED BY <1>1, Invariance, PTL

\* The compare-and-swap of publish_transition, claim_execution and
\* publish_snapshot on the version alone protects the whole document.
THEOREM SwapIsSafe == Spec => []CurrentVersionIsCurrentCopy
<1>1. Inv => CurrentVersionIsCurrentCopy
  BY DEF Inv, Workers, WorkerOK, CopyOK, CurrentVersionIsCurrentCopy
<1> QED BY <1>1, Invariance, PTL

-------------------------------------------------------------------------------
(***************************************************************************)
(* Second part. What the rows of the five tables promise each other,       *)
(* how late a command can commit, and that a write of unknown outcome      *)
(* keeps its workbook.                                                     *)
(*                                                                         *)
(* The argument.  Inv of the first part says that documents, active rows   *)
(* and copies agree.  A step either is quiet, and moves none of the tables *)
(* a client can tell apart, or writes one document under one pending key.  *)
(* Safe adds to Inv what the writes keep between them: spent keys, fences, *)
(* heads and the rows with a publication claim; and what a worker has made *)
(* sure of before it commits (CarefulOK), the clock included.              *)
(***************************************************************************)

\* An execution id is the key of the claim that began it; the receipt under
\* that key is of the workflow it belongs to.
SpentKeys ==
  \A i \in Key : workflows[i].exec # None =>
    /\ commands[workflows[i].exec].status = "completed"
    /\ commands[workflows[i].exec].receipt.id = i

\* Fences are handed out in order, one to an execution.
Fences ==
  /\ \A i \in Key : workflows[i].fence > 0 =>
       workflows[i].fence <= fences[workflows[i].binding.book]
  /\ \A i, j \in Key :
       (/\ workflows[i].fence > 0 /\ workflows[i].fence = workflows[j].fence
        /\ workflows[i].binding.book = workflows[j].binding.book) => i = j

\* A published document has moved the head of its workbook by one revision, and
\* the head has not come back since.
Heads ==
  /\ \A b \in Book : active[b].id # None =>
       heads[b] \in {0, workflows[active[b].id].binding.rev}
  /\ \A i \in Key : workflows[i].publication > 0 =>
       /\ workflows[i].publication = workflows[i].binding.rev + 1
       /\ workflows[i].publication <= heads[workflows[i].binding.book]
       /\ <<workflows[i].binding.book, workflows[i].publication>> \in assets
  /\ \A i, j \in Key :
       (/\ workflows[i].publication > 0 /\ workflows[j].publication > 0
        /\ workflows[i].binding.book = workflows[j].binding.book
        /\ workflows[i].binding.rev = workflows[j].binding.rev) => i = j

\* Only the row of a verified write is claimed by a publisher.
ClaimedRows ==
  \A b \in Book : active[b].token # None =>
    workflows[active[b].id].state = "session_verified"

\* The host registers a session under its own name, on a saved revision.
Bases ==
  /\ \A s \in Session : registry[s] # None =>
       registry[s].session = s /\ registry[s].rev > 0
  /\ \A b \in Book : saved[b] > 0

ExecOps == {"mark_apply_started", "abort_claim", "verify_execution",
            "publish_verified_snapshot"}

\* A worker that still holds its claim took it less than a claim's life ago,
\* and when it validated its copy the lease of the document was alive.
Timely(x, row, now) ==
  (row.status = "pending" /\ row.token = x.token) =>
    /\ row.expires <= now + CommandTtl
    /\ x.pc \in {"session2", "head2", "commit"} =>
         /\ x.request.op \in {"claim_execution", "mark_apply_started"} =>
              row.expires < x.copy.expires + CommandTtl
         /\ (x.request.op = "verify_execution" /\ x.request.witness.outcome = "applied") =>
              row.expires < x.copy.deadline + CommandTtl

\* What a worker has made sure of beside WorkerOK: C are the commands, A the
\* assets, now the clock.
CarefulOK(x, C, A, now) ==
  x.pc # "idle" =>
    /\ x.token \in Token
    /\ (x.request.op = "propose" /\ x.pc \in {"session2", "head2", "commit"}) =>
         x.copy.binding.session = x.request.session /\ x.copy.binding.rev > 0
    /\ (/\ x.request.op \in ExecOps
        /\ x.pc \in {"session2", "head2", "commit", "claim", "acquire", "store"}) =>
         x.copy.exec = x.request.exec
    /\ (x.request.op = "publish_verified_snapshot" /\ x.pc = "commit") =>
         <<x.copy.binding.book, x.rev>> \in A
    /\ Timely(x, C[x.request.key], now)

Careful == \A p \in Worker : CarefulOK(worker[p], commands, assets, clock)

Safe == /\ Inv
        /\ SpentKeys /\ Fences /\ Heads
        /\ ClaimedRows /\ Bases /\ Careful

USE RequestAssumption, NoneAssumption, TtlAssumption, ClockAssumption,
    ServiceTtlAssumption

-----------------------------------------------------------------------------
(* Two kinds of steps.                                                      *)

\* A step that moves nothing a client can tell apart.
Quiet ==
  /\ UNCHANGED <<workflows, fences, heads>>
  /\ \A b \in Book : active'[b].id = active[b].id /\ active'[b].exec = active[b].exec
  /\ \A k \in Key : commands[k].status = "completed" \/ commands'[k].status = "completed"
       => commands'[k] = commands[k]
  /\ commands' \in [Key -> CommandRow] /\ active' \in [Book -> ActiveRow]
  /\ assets \subseteq assets'

\* The worker moves on, or gives up, on tables that stay as they are.
Still(p) == UNCHANGED <<tables, clock, outside>> /\ Unwind(p)

\* A worker writes document w of workflow i and completes its command.
Wrote(p, i, w) ==
  /\ worker[p].pc = "commit"
  /\ i \in Key /\ w \in Workflow
  /\ HoldsCommand(worker[p].request, worker[p].token)
  /\ CompleteCommand(worker[p].request, i, w)
  /\ workflows' = [workflows EXCEPT ![i] = w]
  /\ Done(p)
  /\ UNCHANGED <<clock, outside>>

\* Nothing a client can tell apart: executions, fences and heads keep their
\* relations.
LEMMA QuietTables ==
  ASSUME Safe, Quiet
  PROVE  SpentKeys' /\ Fences' /\ Heads'
<1>1. /\ workflows \in [Key -> Workflow] /\ active \in [Book -> ActiveRow]
      /\ commands \in [Key -> CommandRow]
  BY DEF Safe, Inv, TypeOK, RepositoryTypeOK
<1>2. SpentKeys'
  <2>1. \A i \in Key : workflows[i].exec # None => workflows[i].exec \in Key
    BY <1>1 DEF Workflow
  <2> QED BY <2>1 DEF Safe, SpentKeys, Quiet
<1>3. Fences'
  BY DEF Safe, Fences, Quiet
<1>4. Heads'
  <2>1. \A b \in Book : active'[b].id # None =>
          heads'[b] \in {0, workflows'[active'[b].id].binding.rev}
    BY DEF Safe, Heads, Quiet
  <2>2. \A i \in Key : workflows'[i].publication > 0 =>
          /\ workflows'[i].publication = workflows'[i].binding.rev + 1
          /\ workflows'[i].publication <= heads'[workflows'[i].binding.book]
          /\ <<workflows'[i].binding.book, workflows'[i].publication>> \in assets'
    BY DEF Safe, Heads, Quiet
  <2>3. \A i, j \in Key :
          (/\ workflows'[i].publication > 0 /\ workflows'[j].publication > 0
           /\ workflows'[i].binding.book = workflows'[j].binding.book
           /\ workflows'[i].binding.rev = workflows'[j].binding.rev) => i = j
    BY DEF Safe, Heads, Quiet
  <2> QED BY <2>1, <2>2, <2>3 DEF Heads
<1> QED BY <1>2, <1>3, <1>4

\* A worker that has moved on, over claims of the others that nobody touched,
\* leaves every worker as careful as it was.
LEMMA CarefulStep ==
  ASSUME Safe, NEW p \in Worker, NEW x \in WorkerState,
         worker' = [worker EXCEPT ![p] = x],
         CarefulOK(x, commands', assets', clock'),
         assets \subseteq assets', clock' = clock,
         \A q \in Worker \ {p} :
           LET k == worker[q].request.key IN
           (/\ worker[q].pc # "idle" /\ commands'[k].status = "pending"
            /\ commands'[k].token = worker[q].token) => commands'[k] = commands[k]
  PROVE  Careful'
<1> SUFFICES ASSUME NEW q \in Worker
             PROVE  CarefulOK(worker'[q], commands', assets', clock')
  BY DEF Careful
<1>1. worker'[q] = IF q = p THEN x ELSE worker[q]
  BY DEF Safe, Inv, TypeOK
<1>2. CASE q = p
  BY <1>1, <1>2
<1>3. CASE q # p
  <2> DEFINE y == worker[q]
             k == y.request.key
  <2>1. CarefulOK(y, commands, assets, clock)
    BY DEF Safe, Careful
  <2>2. (/\ y.pc # "idle" /\ commands'[k].status = "pending"
         /\ commands'[k].token = y.token) => commands'[k] = commands[k]
    BY <1>3
  <2>3. y.pc # "idle" => Timely(y, commands'[k], clock')
    BY <2>1, <2>2 DEF CarefulOK, Timely
  <2> QED BY <1>1, <1>3, <2>1, <2>3 DEF CarefulOK
<1> QED BY <1>2, <1>3

\* A step that keeps the rows, the sessions and the saved workbooks.
LEMMA SteadyStep ==
  ASSUME Safe, Inv', Quiet, Careful', UNCHANGED <<workflows, active, registry, saved>>
  PROVE  Safe'
<1>1. SpentKeys' /\ Fences' /\ Heads'
  BY QuietTables
<1>2. ClaimedRows' /\ Bases'
  BY DEF Safe, ClaimedRows, Bases
<1> QED BY <1>1, <1>2 DEF Safe

-----------------------------------------------------------------------------
(* Quiet steps.                                                             *)

\* What is known of a worker that executes a command.
LEMMA BusyFacts ==
  ASSUME Safe, NEW p \in Worker, worker[p].pc # "idle"
  PROVE  /\ worker[p] \in WorkerState /\ WorkerOK(worker[p])
         /\ worker[p].request \in Request
         /\ worker[p].request.key \in Key /\ worker[p].request.id \in Key
         /\ worker[p].request.session \in Session
         /\ CarefulOK(worker[p], commands, assets, clock)
<1>1. worker[p] \in WorkerState /\ WorkerOK(worker[p])
  BY WorkerFacts DEF Safe
<1>2. worker[p].request \in Request
  BY <1>1 DEF WorkerOK, StageOK
<1>3. CarefulOK(worker[p], commands, assets, clock)
  BY DEF Safe, Careful
<1> QED BY <1>1, <1>2, <1>3 DEF RequestType

\* A step of a worker on tables that stay as they are.
LEMMA MoveStep ==
  ASSUME Safe, NEW p \in Worker, NEW x \in WorkerState,
         worker' = [worker EXCEPT ![p] = x],
         UNCHANGED <<tables, clock, registry, saved>>, assets \subseteq assets',
         CarefulOK(x, commands, assets', clock)
  PROVE  Quiet /\ Careful'
<1>1. Careful'
  BY CarefulStep DEF tables
<1>2. Quiet
  BY DEF Quiet, Safe, Inv, TypeOK, RepositoryTypeOK, tables
<1> QED BY <1>1, <1>2

LEMMA StillStep ==
  ASSUME Safe, NEW p \in Worker, Still(p), worker[p].pc \notin {"idle", "release"}
  PROVE  Quiet /\ Careful'
<1> DEFINE pc == IF worker[p].request.op = "publish_verified_snapshot"
                     /\ worker[p].pc \in {"acquire", "store", "commit"}
                 THEN "release" ELSE "abort"
           x == [worker[p] EXCEPT !.pc = pc]
<1>1. pc \in {"release", "abort"}
  OBVIOUS
<1>2. worker' = [worker EXCEPT ![p] = x]
  BY DEF Still, Unwind, Goto
<1>3. /\ x \in WorkerState /\ x.pc \in {"release", "abort"} /\ x.copy = worker[p].copy
      /\ x.request = worker[p].request /\ x.token = worker[p].token
  BY <1>1, BusyFacts DEF WorkerState, ProgramCounter
<1>4. CarefulOK(x, commands, assets', clock)
  BY <1>3, BusyFacts DEF CarefulOK, Timely
<1> HIDE DEF x
<1> QED BY <1>2, <1>3, <1>4, MoveStep DEF Still, outside

\* Moving on to a stage with the same knowledge.
LEMMA GotoCareful ==
  ASSUME Safe, NEW p \in Worker, NEW pc \in ProgramCounter, Goto(p, pc),
         worker[p].pc # "idle", UNCHANGED <<tables, clock, registry, saved>>,
         assets \subseteq assets',
         CarefulOK([worker[p] EXCEPT !.pc = pc], commands, assets', clock)
  PROVE  Quiet /\ Careful'
<1> DEFINE x == [worker[p] EXCEPT !.pc = pc]
<1>1. x \in WorkerState
  BY BusyFacts DEF WorkerState
<1>2. worker' = [worker EXCEPT ![p] = x]
  BY DEF Goto
<1> QED BY <1>1, <1>2, MoveStep

LEMMA LoadCareful ==
  ASSUME Safe, NEW p \in Worker, Load(p)
  PROVE  Quiet /\ Careful'
<1> DEFINE r == worker[p].request
           w == workflows[r.id]
           pc == IF StoredOnly(r) THEN "validate" ELSE "session"
           x == [worker[p] EXCEPT !.pc = pc, !.copy = w]
<1>1. CASE w.state = "absent"
  BY <1>1, StillStep DEF Load, Still
<1>2. CASE w.state # "absent"
  <2>1. pc \in {"validate", "session"} /\ worker' = [worker EXCEPT ![p] = x]
    BY <1>2 DEF Load
  <2>2. w \in Workflow
    BY BusyFacts DEF Load, Safe, Inv, TypeOK, RepositoryTypeOK
  <2>3. /\ x \in WorkerState /\ x.pc \in {"validate", "session"}
        /\ x.request = r /\ x.token = worker[p].token
    BY <2>1, <2>2, BusyFacts DEF Load, WorkerState, ProgramCounter
  <2>4. CarefulOK(x, commands, assets', clock)
    BY <2>3, BusyFacts DEF Load, CarefulOK, Timely
  <2> HIDE DEF x
  <2> QED BY <2>1, <2>3, <2>4, MoveStep DEF Load, outside
<1> QED BY <1>1, <1>2

LEMMA BindCareful ==
  ASSUME Safe, NEW p \in Worker, Bind(p)
  PROVE  Quiet /\ Careful'
<1> DEFINE r == worker[p].request
           b == registry[r.session]
           x == [worker[p] EXCEPT !.pc = "session2", !.copy = Proposed(b)]
<1>1. CASE b = None
  BY <1>1, StillStep DEF Bind, Still
<1>2. CASE b # None
  <2>1. worker[p].pc = "session" /\ r.op = "propose" /\ worker' = [worker EXCEPT ![p] = x]
    BY <1>2 DEF Bind
  <2>2. b \in Binding /\ b.session = r.session /\ b.rev > 0
    BY <1>2, <2>1, BusyFacts DEF Safe, Bases, Inv, TypeOK
  <2>3. Proposed(b) \in Workflow /\ Proposed(b).binding = b
    BY <2>2 DEF Proposed, NoWorkflow, Workflow, WorkflowState
  <2>4. /\ x \in WorkerState /\ x.pc = "session2" /\ x.copy = Proposed(b)
        /\ x.request = r /\ x.token = worker[p].token
    BY <2>1, <2>3, BusyFacts, ZenonT(60) DEF WorkerState, ProgramCounter
  <2>5. CarefulOK(x, commands, assets', clock)
    BY <2>1, <2>2, <2>3, <2>4, BusyFacts DEF CarefulOK, Timely, ExecOps
  <2> HIDE DEF x
  <2> QED BY <2>1, <2>4, <2>5, MoveStep DEF Bind, outside
<1> QED BY <1>1, <1>2

LEMMA ResolveCareful ==
  ASSUME Safe, NEW p \in Worker, Resolve(p)
  PROVE  Quiet /\ Careful'
<1> DEFINE pc == IF worker[p].pc = "session" THEN "head" ELSE "head2"
<1>1. CASE Unwind(p)
  BY <1>1, StillStep DEF Resolve, Still
<1>2. CASE Goto(p, pc)
  <2>1. CarefulOK([worker[p] EXCEPT !.pc = pc], commands, assets', clock)
    BY BusyFacts DEF Resolve, WorkerState, CarefulOK, Timely, outside
  <2> QED BY <1>2, <2>1, GotoCareful DEF Resolve, ProgramCounter, outside
<1> QED BY <1>1, <1>2 DEF Resolve

LEMMA CheckHeadCareful ==
  ASSUME Safe, NEW p \in Worker, CheckHead(p)
  PROVE  Quiet /\ Careful'
<1> DEFINE pc == IF worker[p].pc = "head" THEN "validate" ELSE "commit"
<1>1. CASE Unwind(p)
  BY <1>1, StillStep DEF CheckHead, Still
<1>2. CASE Goto(p, pc)
  <2>1. worker[p].request.op # "publish_verified_snapshot"
    BY BusyFacts DEF CheckHead, WorkerOK, StageOK, StoredOnly
  <2>2. CarefulOK([worker[p] EXCEPT !.pc = pc], commands, assets', clock)
    BY <2>1, BusyFacts DEF CheckHead, WorkerState, CarefulOK, Timely, outside
  <2> QED BY <1>2, <2>2, GotoCareful DEF CheckHead, ProgramCounter, outside
<1> QED BY <1>1, <1>2 DEF CheckHead

LEMMA ValidateCareful ==
  ASSUME Safe, NEW p \in Worker, Validate(p)
  PROVE  Quiet /\ Careful'
<1> DEFINE r == worker[p].request
           c == worker[p].copy
           row == commands[r.key]
           pc == CASE r.op = "publish_verified_snapshot" -> "claim"
                   [] r.op \in {"abort_claim", "verify_execution"} -> "commit"
                   [] OTHER -> "session2"
           x == [worker[p] EXCEPT !.stamp = Stamp(r), !.pc = pc]
<1>1. CASE Unwind(p)
  BY <1>1, StillStep DEF Validate, Still
<1>2. CASE Valid(c, r) /\ worker' = [worker EXCEPT ![p] = x]
  <2>1. /\ worker[p] \in WorkerState /\ r \in Request /\ r.op \in Operation /\ r.key \in Key
        /\ c \in Workflow /\ CarefulOK(worker[p], commands, assets, clock)
        /\ worker[p].pc = "validate"
    BY BusyFacts DEF Validate, RequestType, WorkerState
  <2>2. /\ clock \in Nat /\ c.expires \in Nat /\ c.deadline \in Nat /\ row.expires \in Nat
        /\ Stamp(r) \in Nat
    BY <2>1 DEF Safe, Inv, TypeOK, RepositoryTypeOK, Workflow, CommandRow, Stamp
  <2>3. r.op # "propose" /\ pc \in {"claim", "commit", "session2"}
        /\ (r.op = "publish_verified_snapshot" => pc = "claim")
    BY <1>2 DEF Valid
  <2>4. r.op \in ExecOps => c.exec = r.exec
    BY <1>2 DEF Valid, ValidStart, ValidWitness, ValidPublication, ExecutionMatches, ExecOps
  <2>5. /\ r.op \in {"claim_execution", "mark_apply_started"} => clock < c.expires
        /\ (r.op = "verify_execution" /\ r.witness.outcome = "applied") => clock < c.deadline
    BY <1>2 DEF Valid, ValidClaim, ValidStart, ValidWitness
  <2>6. (row.status = "pending" /\ row.token = worker[p].token) =>
          row.expires <= clock + CommandTtl
    BY <2>1 DEF CarefulOK, Timely
  <2>7. /\ x \in WorkerState /\ x.pc = pc /\ x.copy = c
        /\ x.request = r /\ x.token = worker[p].token
    BY <2>1, <2>2, <2>3 DEF WorkerState, ProgramCounter
  <2> HIDE DEF x, pc
  <2>8. Timely(x, row, clock)
    BY <2>2, <2>5, <2>6, <2>7 DEF Timely
  <2>9. CarefulOK(x, commands, assets', clock)
    BY <2>1, <2>3, <2>4, <2>7, <2>8 DEF CarefulOK
  <2> QED BY <1>2, <2>7, <2>9, MoveStep DEF Validate, outside
<1> QED BY <1>1, <1>2 DEF Validate

LEMMA AcquireCareful ==
  ASSUME Safe, NEW p \in Worker, Acquire(p)
  PROVE  Quiet /\ Careful'
<1> DEFINE b == worker[p].copy.binding
           x == [worker[p] EXCEPT !.pc = "store", !.rev = saved[b.book]]
<1>1. CASE Unwind(p)
  BY <1>1, StillStep DEF Acquire, Still
<1>2. CASE saved[b.book] = b.rev + 1 /\ worker' = [worker EXCEPT ![p] = x]
  <2>1. b \in Binding
    BY BusyFacts DEF Acquire, WorkerOK, StageOK, CopyOK
  <2>2. saved[b.book] \in Nat
    BY <2>1 DEF Binding, Safe, Inv, TypeOK
  <2>3. /\ x \in WorkerState /\ x.pc = "store" /\ x.copy = worker[p].copy
        /\ x.request = worker[p].request /\ x.token = worker[p].token
    BY <2>2, BusyFacts DEF Acquire, WorkerState, ProgramCounter
  <2>4. CarefulOK(x, commands, assets', clock)
    BY <2>3, BusyFacts DEF Acquire, CarefulOK, Timely
  <2> HIDE DEF x
  <2> QED BY <1>2, <2>3, <2>4, MoveStep DEF Acquire, outside
<1> QED BY <1>1, <1>2 DEF Acquire

\* The snapshot is in the store before the head can move to it.
LEMMA StoreCareful ==
  ASSUME Safe, NEW p \in Worker, Store(p)
  PROVE  Quiet /\ Careful'
<1> DEFINE x == [worker[p] EXCEPT !.pc = "commit"]
<1>1. /\ worker[p].pc = "store" /\ Goto(p, "commit")
      /\ assets' = assets \cup {<<worker[p].copy.binding.book, worker[p].rev>>}
      /\ UNCHANGED <<tables, clock, registry, saved>>
  BY DEF Store
<1>2. /\ x.pc = "commit" /\ x.copy = worker[p].copy /\ x.rev = worker[p].rev
      /\ x.request = worker[p].request /\ x.token = worker[p].token
  BY <1>1, BusyFacts DEF WorkerState
<1>3. worker[p].request.op = "publish_verified_snapshot"
  BY <1>1, BusyFacts DEF WorkerOK, StageOK
<1>4. CarefulOK(x, commands, assets', clock)
  <2>1. CarefulOK(worker[p], commands, assets, clock)
    BY <1>1, BusyFacts
  <2>2. <<x.copy.binding.book, x.rev>> \in assets'
    BY <1>1, <1>2
  <2> HIDE DEF x
  <2> QED BY <1>1, <1>2, <1>3, <2>1, <2>2 DEF CarefulOK, Timely
<1> QED BY <1>1, <1>4, GotoCareful DEF ProgramCounter

\* A worker that lets go of everything is careful.
LEMMA IdleCareful ==
  ASSUME NEW C, NEW A, NEW now
  PROVE  CarefulOK(Idle, C, A, now)
BY DEF CarefulOK, Idle

LEMMA FaultAndCrashCareful ==
  ASSUME Safe, NEW p \in Worker, Fault(p) \/ Crash(p)
  PROVE  Quiet /\ Careful'
<1>1. CASE Fault(p)
  BY <1>1, StillStep DEF Fault, Still
<1>2. CASE Crash(p)
  BY <1>2, IdleOK, IdleCareful, MoveStep DEF Crash, Done, outside
<1> QED BY <1>1, <1>2

LEMMA AbortCareful ==
  ASSUME Safe, NEW p \in Worker, Abort(p)
  PROVE  Quiet /\ Careful'
<1>1. CASE UNCHANGED tables
  BY <1>1, IdleOK, IdleCareful, MoveStep DEF Abort, Done, outside
<1>2. CASE AbortCommand(worker[p].request, worker[p].token)
  <2> DEFINE k == worker[p].request.key
  <2>1. /\ k \in Key /\ commands \in [Key -> CommandRow] /\ active \in [Book -> ActiveRow]
        /\ commands[k].status = "pending" /\ commands' = [commands EXCEPT ![k] = NoCommand]
        /\ UNCHANGED <<workflows, active, fences, heads>>
    BY <1>2, BusyFacts DEF Abort, AbortCommand, HoldsCommand, Safe, Inv, TypeOK, RepositoryTypeOK
  <2>2. NoCommand \in CommandRow /\ NoCommand.status = "absent"
    BY DEF NoCommand, CommandRow
  <2>3. \A j : commands'[j] # commands[j] => commands'[j].status = "absent" /\ j = k
    BY <2>1, <2>2
  <2>4. Quiet
    BY <2>1, <2>2, <2>3 DEF Quiet, Abort, outside
  <2>5. Careful'
    BY <2>3, IdleOK, IdleCareful, CarefulStep DEF Abort, Done, outside
  <2> QED BY <2>4, <2>5
<1> QED BY <1>1, <1>2 DEF Abort

LEMMA BeginCareful ==
  ASSUME Safe, NEW p \in Worker, NEW r \in Request, Begin(p, r)
  PROVE  Quiet /\ Careful'
<1> DEFINE pc == IF r.op = "propose" THEN "session" ELSE "load"
           x == [Idle EXCEPT !.pc = pc, !.request = r, !.token = NewToken]
           row == [status |-> "pending", request |-> r, token |-> NewToken,
                   expires |-> clock + CommandTtl, receipt |-> None]
<1>1. /\ worker[p].pc = "idle" /\ commands[r.key].status \in {"absent", "pending"}
      /\ commands' = [commands EXCEPT ![r.key] = row]
      /\ worker' = [worker EXCEPT ![p] = x]
      /\ UNCHANGED <<workflows, active, fences, heads, clock, outside>>
  BY DEF Begin, ClaimCommand
<1>2. NewToken \in Token /\ Fresh(NewToken)
  BY DEF Begin, NewToken
<1>3. /\ r.key \in Key /\ clock \in Nat /\ commands \in [Key -> CommandRow]
      /\ active \in [Book -> ActiveRow]
  BY DEF RequestType, Safe, Inv, TypeOK, RepositoryTypeOK
<1>4. row \in CommandRow
  BY <1>2, <1>3 DEF CommandRow
<1>5. /\ x \in WorkerState /\ x.pc \in {"session", "load"} /\ x.request = r
      /\ x.token = NewToken
  BY <1>2, IdleOK DEF Idle, WorkerState, ProgramCounter
<1> HIDE DEF x
<1>6. CarefulOK(x, commands', assets', clock)
  BY <1>1, <1>2, <1>3, <1>5 DEF CarefulOK, Timely
<1>7. Quiet
  <2>1. \A k \in Key : commands'[k] # commands[k] =>
          /\ k = r.key /\ commands[k].status # "completed"
          /\ commands'[k].status # "completed"
    BY <1>1, <1>3
  <2>2. commands' \in [Key -> CommandRow]
    BY <1>1, <1>3, <1>4
  <2> QED BY <1>1, <1>3, <2>1, <2>2 DEF Quiet, outside
<1>8. ASSUME NEW q \in Worker \ {p}, NEW k, commands'[k].token = worker[q].token,
             k \in Key
      PROVE  commands'[k] = commands[k]
  BY <1>1, <1>2, <1>3, <1>8 DEF Fresh
<1>9. \A q \in Worker \ {p} : worker[q].pc # "idle" => worker[q].request.key \in Key
  BY BusyFacts
<1>10. \A q \in Worker \ {p} :
          LET k == worker[q].request.key IN
          (/\ worker[q].pc # "idle" /\ commands'[k].status = "pending"
           /\ commands'[k].token = worker[q].token) => commands'[k] = commands[k]
  BY <1>8, <1>9
<1>11. clock' = clock /\ assets \subseteq assets' /\ worker' = [worker EXCEPT ![p] = x]
  BY <1>1 DEF outside
<1>12. Careful'
  BY <1>5, <1>6, <1>10, <1>11, CarefulStep
<1> QED BY <1>7, <1>12

\* The workbook row a publisher claims is the row of a verified write.
LEMMA TakePublicationClaimCareful ==
  ASSUME Safe, NEW p \in Worker, TakePublicationClaim(p)
  PROVE  Quiet /\ Careful' /\ ClaimedRows'
<1> DEFINE r == worker[p].request
           b == workflows[r.id].binding.book
           x == [worker[p] EXCEPT !.pc = "acquire", !.stamp = 0]
<1>1. CASE UNCHANGED tables /\ Unwind(p)
  BY <1>1, StillStep DEF TakePublicationClaim, Still, tables, Safe, ClaimedRows
<1>2. CASE /\ CanClaimPublication(r.id, r.exec, worker[p].copy.fence, worker[p].stamp)
           /\ ClaimPublication(r.id, worker[p].token, worker[p].stamp)
           /\ worker' = [worker EXCEPT ![p] = x]
  <2>1. /\ worker[p] \in WorkerState /\ r.id \in Key /\ worker[p].pc = "claim"
        /\ CarefulOK(worker[p], commands, assets, clock)
        /\ active \in [Book -> ActiveRow] /\ commands \in [Key -> CommandRow]
    BY BusyFacts DEF TakePublicationClaim, Safe, Inv, TypeOK, RepositoryTypeOK
  <2>2. /\ workflows[r.id].state = "session_verified" /\ active[b].id = r.id
    BY <1>2 DEF CanClaimPublication, PublicationBasis, ActiveMatches
  <2>3. /\ active' = [active EXCEPT ![b].token = worker[p].token,
                                    ![b].expires = worker[p].stamp]
        /\ UNCHANGED <<commands, workflows, fences, heads, clock, outside>>
    BY <1>2 DEF ClaimPublication, TakePublicationClaim
  <2>4. \A c \in Book : /\ active'[c].id = active[c].id /\ active'[c].exec = active[c].exec
                        /\ c # b => active'[c] = active[c]
    BY <2>1, <2>3 DEF ActiveRow
  <2>5. active' \in [Book -> ActiveRow]
    <3>1. Inv'
      BY TakePublicationClaimStep DEF Safe
    <3> QED BY <3>1 DEF Inv, TypeOK, RepositoryTypeOK
  <2>6. Quiet
    BY <2>1, <2>3, <2>4, <2>5 DEF Quiet, outside
  <2>7. ClaimedRows'
    <3> SUFFICES ASSUME NEW c \in Book, active'[c].token # None
                 PROVE  workflows[active'[c].id].state = "session_verified"
      BY <2>3 DEF ClaimedRows
    <3>1. CASE c = b
      BY <2>2, <2>4, <3>1
    <3>2. CASE c # b
      BY <2>4, <3>2 DEF ClaimedRows, Safe
    <3> QED BY <3>1, <3>2
  <2>8. /\ x \in WorkerState /\ x.pc = "acquire" /\ x.copy = worker[p].copy
        /\ x.request = r /\ x.token = worker[p].token
    BY <2>1 DEF WorkerState, ProgramCounter
  <2> HIDE DEF x
  <2>9. CarefulOK(x, commands', assets', clock')
    BY <2>1, <2>3, <2>8 DEF CarefulOK, Timely, outside
  <2>10. Careful'
    BY <1>2, <2>3, <2>8, <2>9, CarefulStep DEF outside
  <2> QED BY <2>6, <2>7, <2>10
<1> QED BY <1>1, <1>2 DEF TakePublicationClaim

LEMMA ReleaseClaimCareful ==
  ASSUME Safe, NEW p \in Worker, ReleaseClaim(p)
  PROVE  Quiet /\ Careful' /\ ClaimedRows'
<1> DEFINE r == worker[p].request
           b == workflows[r.id].binding.book
           x == [worker[p] EXCEPT !.pc = "abort"]
<1>1. /\ worker[p].pc = "release" /\ worker' = [worker EXCEPT ![p] = x]
      /\ UNCHANGED <<clock, outside>>
  BY DEF ReleaseClaim, Goto
<1>2. /\ x \in WorkerState /\ x.pc = "abort" /\ x.request = r
      /\ x.token = worker[p].token
  BY <1>1, BusyFacts DEF WorkerState, ProgramCounter
<1> HIDE DEF x
<1>3. CarefulOK(x, commands, assets', clock)
  BY <1>1, <1>2, BusyFacts DEF CarefulOK, Timely
<1>4. CASE UNCHANGED tables
  BY <1>1, <1>2, <1>3, <1>4, MoveStep DEF tables, outside, Safe, ClaimedRows
<1>5. CASE ReleasePublication(r.id, r.exec, worker[p].copy.fence, worker[p].token)
  <2>1. /\ active' = [active EXCEPT ![b].token = None, ![b].expires = 0]
        /\ UNCHANGED <<commands, workflows, fences, heads>>
        /\ active \in [Book -> ActiveRow] /\ commands \in [Key -> CommandRow]
    BY <1>5 DEF ReleasePublication, Safe, Inv, TypeOK, RepositoryTypeOK
  <2>2. \A c \in Book : /\ active'[c].id = active[c].id /\ active'[c].exec = active[c].exec
                        /\ active'[c].token \in {None, active[c].token}
    BY <2>1 DEF ActiveRow
  <2>3. active' \in [Book -> ActiveRow]
    BY <2>1, ZenonT(60) DEF ActiveRow
  <2>4. Quiet
    BY <1>1, <2>1, <2>2, <2>3 DEF Quiet, outside
  <2>5. ClaimedRows'
    BY <2>1, <2>2, ZenonT(60) DEF ClaimedRows, Safe
  <2>6. Careful'
    BY <1>1, <1>2, <1>3, <2>1, CarefulStep DEF outside
  <2> QED BY <2>4, <2>5, <2>6
<1> QED BY <1>4, <1>5 DEF ReleaseClaim

\* The host and the provider touch no table; time only makes a claim older.
LEMMA EnvironmentCareful ==
  ASSUME Safe,
         \/ \E s \in Session, b \in Book : Register(s, b)
         \/ \E s \in Session : Unregister(s)
         \/ \E b \in Book : Save(b)
         \/ Tick
  PROVE  Quiet /\ Careful' /\ Bases'
<1>1. UNCHANGED <<tables, worker, assets>> /\ clock' \in {clock, clock + 1}
  BY DEF Register, Unregister, Save, Tick, outside
<1>2. Quiet
  BY <1>1 DEF Quiet, tables, Safe, Inv, TypeOK, RepositoryTypeOK
<1>3. Bases'
  <2>1. registry \in [Session -> Binding \cup {None}] /\ saved \in [Book -> Nat]
    BY DEF Safe, Inv, TypeOK
  <2> QED BY <2>1 DEF Safe, Bases, Register, Unregister, Save, Tick, outside
<1>4. Careful'
  <2> SUFFICES ASSUME NEW q \in Worker, worker[q].pc # "idle"
               PROVE  CarefulOK(worker'[q], commands', assets', clock')
    BY <1>1, BusyFacts DEF Careful, CarefulOK
  <2> DEFINE row == commands[worker[q].request.key]
  <2>1. CarefulOK(worker[q], commands, assets, clock) /\ row \in CommandRow
    BY BusyFacts DEF Safe, Inv, TypeOK, RepositoryTypeOK
  <2>2. clock \in Nat /\ row.expires \in Nat
    BY <2>1 DEF Safe, Inv, TypeOK, RepositoryTypeOK, CommandRow
  <2>3. Timely(worker[q], row, clock')
    BY <1>1, <2>1, <2>2 DEF CarefulOK, Timely
  <2> QED BY <1>1, <2>1, <2>3 DEF CarefulOK, tables
<1> QED BY <1>2, <1>3, <1>4

-----------------------------------------------------------------------------
(* Steps that write a document: each gives up, or writes one whose relation *)
(* to the one it replaces is the following.                                 *)

\* A document that is not there yet holds nothing and was never executed.
LEMMA AbsentFacts ==
  ASSUME Inv, NEW i \in Key, workflows[i].version = 0
  PROVE  /\ workflows[i].state = "absent" /\ workflows[i].exec = None
         /\ workflows[i].fence = 0 /\ workflows[i].publication = 0
         /\ ~ Holding(workflows[i])
<1>1. DocumentOK(workflows[i]) /\ workflows[i] \in Workflow
  BY DEF Inv, Documents, TypeOK, RepositoryTypeOK
<1>2. workflows[i].state = "absent" /\ workflows[i].exec = None
      /\ workflows[i].publication = 0
  BY <1>1 DEF DocumentOK, Unclaimed
<1>3. workflows[i].fence \in Nat
  BY <1>1 DEF Workflow
<1> QED BY <1>1, <1>2, <1>3 DEF DocumentOK, Holding

\* publish_transition of worker p: the document it writes, and its workflow.
Transitions(p, i, w) ==
  LET r == worker[p].request
      c == worker[p].copy
  IN
  /\ Wrote(p, i, w)
  /\ i = Target(r) /\ w = Updated(c, r, worker[p].stamp)
  /\ r.op \notin {"claim_execution", "publish_verified_snapshot"}
  /\ w.state = NextState(r) /\ w.binding = c.binding
  /\ w.exec = workflows[i].exec /\ w.fence = workflows[i].fence
  /\ w.publication = workflows[i].publication
  /\ r.op = "propose" => /\ workflows[i].version = 0
                         /\ c.binding \in Binding /\ c = Proposed(c.binding)
  /\ r.op # "propose" => c = workflows[i] /\ c.version > 0 /\ SoundCopy(c, r)
  /\ RequiresActive(r) => ActiveMatches(i, w)
  /\ active' = IF ReleasesBook(w) THEN [active EXCEPT ![w.binding.book] = NoActive]
               ELSE active
  /\ UNCHANGED <<fences, heads>>

LEMMA PublishFacts ==
  ASSUME Inv, NEW p \in Worker, Publish(p)
  PROVE  \/ Still(p) /\ worker[p].pc = "commit"
         \/ LET r == worker[p].request IN
            Transitions(p, Target(r), Updated(worker[p].copy, r, worker[p].stamp))
<1> DEFINE r == worker[p].request
           c == worker[p].copy
           i == Target(r)
           w == Updated(c, r, worker[p].stamp)
           ok == CanPublishTransition(r, worker[p].token, i, c.version, w,
                                      RequiresActive(r))
<1>1. CASE ~ ok
  BY <1>1 DEF Publish, Still
<1>2. CASE ok
  <2>1. /\ VersionIs(i, c.version) /\ worker[p].pc = "commit"
        /\ r.op \notin {"claim_execution", "publish_verified_snapshot"}
        /\ HoldsCommand(r, worker[p].token)
        /\ RequiresActive(r) => ActiveMatches(i, w)
    BY <1>2 DEF Publish, CanPublishTransition
  <2>2. /\ r \in Request /\ r.key \in Key /\ c \in Workflow /\ worker[p].stamp \in Nat
        /\ r.op = "propose" =>
              /\ c.binding \in Binding /\ c = Proposed(c.binding)
              /\ workflows[r.key].version = 0
        /\ r.op # "propose" =>
              /\ r.id \in Key /\ c = workflows[r.id] /\ c.version > 0
              /\ c.binding \in Binding /\ SoundCopy(c, r) /\ DocumentOK(c)
    BY <2>1, CommitFacts
  <2>3. i \in Key
    BY <2>2 DEF Target
  <2>4. /\ w \in Workflow /\ w.state = NextState(r) /\ w.binding = c.binding
        /\ w.exec = c.exec /\ w.fence = c.fence /\ w.publication = c.publication
    BY <2>2, UpdatedType
  <2>5. /\ PublishTransition(r, i, w, ReleasesBook(w)) /\ Done(p)
        /\ UNCHANGED <<clock, outside>>
    <3> HIDE DEF w
    <3> QED BY <1>2 DEF Publish, w
  <2>6. /\ c.exec = workflows[i].exec /\ c.fence = workflows[i].fence
        /\ c.publication = workflows[i].publication
    <3>1. CASE r.op = "propose"
      BY <2>2, <3>1, AbsentFacts DEF Target, Proposed, NoWorkflow
    <3>2. CASE r.op # "propose"
      BY <2>2, <3>2 DEF Target
    <3> QED BY <3>1, <3>2
  <2>7. /\ workflows' = [workflows EXCEPT ![i] = w] /\ CompleteCommand(r, i, w)
        /\ active' = IF ReleasesBook(w)
                     THEN [active EXCEPT ![w.binding.book] = NoActive] ELSE active
        /\ UNCHANGED <<fences, heads>>
    <3> HIDE DEF w
    <3> QED BY <2>5 DEF PublishTransition
  <2>8. Wrote(p, i, w)
    <3> HIDE DEF w, i
    <3> QED BY <2>1, <2>3, <2>4, <2>5, <2>7 DEF Wrote
  <2>9. /\ r.op = "propose" => workflows[i].version = 0
        /\ r.op # "propose" => c = workflows[i] /\ c.version > 0 /\ SoundCopy(c, r)
    BY <2>2 DEF Target
  <2>10. Transitions(p, i, w)
    <3>1. w = Updated(c, r, worker[p].stamp) /\ i = Target(r)
      OBVIOUS
    <3> HIDE DEF w, i
    <3> QED BY <2>1, <2>2, <2>4, <2>6, <2>7, <2>8, <2>9, <3>1 DEF Transitions
  <2> QED BY <2>10
<1> QED BY <1>1, <1>2

\* claim_execution of worker p.
Claims(p, i, w) ==
  LET r == worker[p].request
      b == workflows[i].binding.book
  IN
  /\ Wrote(p, i, w)
  /\ r.op = "claim_execution" /\ i = r.id
  /\ workflows[i].state = "approved" /\ workflows[i] = worker[p].copy
  /\ w = [workflows[i] EXCEPT !.state = "claimed", !.version = @ + 1, !.consumed = TRUE,
                              !.exec = r.key, !.fence = fences[b] + 1,
                              !.required = r.required]
  /\ w.state = "claimed" /\ w.exec = r.key /\ w.binding = workflows[i].binding
  /\ w.fence = fences[b] + 1 /\ w.publication = 0 /\ workflows[i].publication = 0
  /\ w.required = r.required
  /\ b \in Book /\ heads[b] \in {0, workflows[i].binding.rev} /\ active[b] = NoActive
  /\ active' = [active EXCEPT ![b] = [id |-> i, exec |-> r.key, fence |-> w.fence,
                                      token |-> None, expires |-> 0]]
  /\ fences' = [fences EXCEPT ![b] = w.fence]
  /\ heads' = heads

LEMMA ClaimFacts ==
  ASSUME Inv, NEW p \in Worker, Claim(p)
  PROVE  \/ Still(p) /\ worker[p].pc = "commit"
         \/ LET r == worker[p].request IN
            Claims(p, r.id, ClaimedWorkflow(r.id, r.key, r.required))
<1> DEFINE r == worker[p].request
           i == r.id
           c == worker[p].copy
           b == workflows[i].binding.book
           w == ClaimedWorkflow(i, r.key, r.required)
           ok == CanClaimExecution(r, worker[p].token, i, c.version)
<1>1. CASE ~ ok
  BY <1>1 DEF Claim, Still
<1>2. CASE ok
  <2>1. /\ VersionIs(Target(r), c.version) /\ worker[p].pc = "commit"
        /\ r.op = "claim_execution" /\ HoldsCommand(r, worker[p].token)
        /\ HeadIs(workflows[i].binding) /\ active[b] = NoActive
    BY <1>2 DEF Claim, CanClaimExecution, Target, NoActiveRow
  <2>2. /\ r \in Request /\ r.key \in Key /\ r.required \in BOOLEAN
        /\ i \in Key /\ c \in Workflow /\ c = workflows[i] /\ c.version \in Nat
        /\ c.binding \in Binding /\ c.state = "approved" /\ DocumentOK(c)
    BY <2>1, CommitFacts DEF SoundCopy, RequestType, Workflow
  <2>3. b \in Book /\ fences[b] + 1 \in Nat /\ NextFence(b) = fences[b] + 1
    BY <2>2 DEF Binding, NextFence, Inv, TypeOK, RepositoryTypeOK
  <2>4. w = [workflows[i] EXCEPT !.state = "claimed", !.version = @ + 1, !.consumed = TRUE,
                                 !.exec = r.key, !.fence = fences[b] + 1,
                                 !.required = r.required]
    BY <2>2, <2>3 DEF ClaimedWorkflow, NextFence
  <2>5. c.publication = 0
    BY <2>2 DEF DocumentOK
  <2>6. /\ w \in Workflow /\ w.state = "claimed" /\ w.exec = r.key /\ w.binding = c.binding
        /\ w.fence = fences[b] + 1 /\ w.publication = c.publication
        /\ w.required = r.required
    <3> DEFINE v == c.version + 1
               k == r.key
               d == r.required
               n == fences[b] + 1
    <3>1. v \in Nat /\ k \in Key /\ d \in BOOLEAN /\ n \in Nat
      BY <2>2, <2>3
    <3>2. w = [c EXCEPT !.state = "claimed", !.version = v, !.consumed = TRUE,
                        !.exec = k, !.fence = n, !.required = d]
      BY <2>2, <2>4
    <3> HIDE DEF w, c, v, k, d, n
    <3>3. w \in Workflow
      BY <2>2, <3>1, <3>2, ClaimedType, ZenonT(60)
    <3>4. /\ w.state = "claimed" /\ w.exec = k /\ w.binding = c.binding /\ w.fence = n
          /\ w.publication = c.publication /\ w.required = d
      BY <2>2, <3>2 DEF Workflow
    <3> QED BY <3>3, <3>4 DEF k, n, d
  <2>7. ClaimExecution(r, i, r.key, r.required) /\ Done(p) /\ UNCHANGED <<clock, outside>>
    BY <1>2 DEF Claim
  <2> HIDE DEF w
  <2>8. /\ workflows' = [workflows EXCEPT ![i] = w] /\ CompleteCommand(r, i, w)
        /\ active' = [active EXCEPT ![b] = [id |-> i, exec |-> r.key, fence |-> w.fence,
                                            token |-> None, expires |-> 0]]
        /\ fences' = [fences EXCEPT ![b] = w.fence] /\ heads' = heads
    BY <2>2, <2>6, <2>7 DEF ClaimExecution, w
  <2>9. Wrote(p, i, w)
    BY <2>1, <2>2, <2>6, <2>7, <2>8 DEF Wrote
  <2>10. heads[b] \in {0, workflows[i].binding.rev}
    BY <2>1 DEF HeadIs
  <2>11. Claims(p, i, w)
    BY <2>1, <2>2, <2>3, <2>4, <2>5, <2>6, <2>8, <2>9, <2>10 DEF Claims
  <2> QED BY <2>11 DEF w
<1> QED BY <1>1, <1>2

\* publish_snapshot of worker p.
Advances(p, i, w) ==
  LET r == worker[p].request
      c == workflows[i]
      b == c.binding.book
      rev == c.binding.rev + 1
  IN
  /\ Wrote(p, i, w)
  /\ r.op = "publish_verified_snapshot" /\ i = r.id /\ c = worker[p].copy
  /\ c.state = "session_verified" /\ c.required /\ c.publication = 0
  /\ c.binding \in Binding
  /\ w = [c EXCEPT !.version = @ + 1, !.publication = rev]
  /\ w.binding = c.binding /\ w.exec = c.exec /\ w.fence = c.fence
  /\ w.publication = rev /\ w.state = "session_verified"
  /\ worker[p].rev = rev
  /\ ActiveMatches(i, c) /\ heads[b] \in {0, c.binding.rev}
  /\ active' = [active EXCEPT ![b] = NoActive]
  /\ heads' = [heads EXCEPT ![b] = rev]
  /\ fences' = fences

LEMMA PublishHeadFacts ==
  ASSUME Inv, NEW p \in Worker, PublishHead(p)
  PROVE  \/ Still(p) /\ worker[p].pc = "commit"
         \/ LET i == worker[p].request.id IN
            Advances(p, i, [workflows[i] EXCEPT !.version = @ + 1,
                                                !.publication = worker[p].rev])
<1> DEFINE r == worker[p].request
           c == worker[p].copy
           i == r.id
           rev == worker[p].rev
           w == [workflows[i] EXCEPT !.version = @ + 1, !.publication = rev]
           b == c.binding.book
           ok == CanPublishSnapshot(r, worker[p].token, i, c.version, r.exec, c.fence)
<1>1. CASE ~ ok
  BY <1>1 DEF PublishHead, Still
<1>2. CASE ok
  <2>1. /\ VersionIs(Target(r), c.version) /\ worker[p].pc = "commit"
        /\ r.op = "publish_verified_snapshot" /\ HoldsCommand(r, worker[p].token)
        /\ HeadIs(workflows[i].binding) /\ ActiveMatches(i, workflows[i])
    BY <1>2 DEF PublishHead, CanPublishSnapshot, PublicationBasis, Target
  <2>2. /\ r \in Request /\ i \in Key /\ c \in Workflow /\ c = workflows[i]
        /\ c.version \in Nat /\ c.binding \in Binding
        /\ c.state = "session_verified" /\ c.required /\ c.publication = 0
        /\ rev \in Nat
    BY <2>1, CommitFacts DEF SoundCopy, Workflow
  <2>3. rev = c.binding.rev + 1
    BY <2>1, WorkerFacts DEF WorkerOK, StageOK
  <2>4. /\ w \in Workflow /\ w.state = "session_verified" /\ w.publication = rev
        /\ w.binding = c.binding /\ w.exec = c.exec /\ w.fence = c.fence
    <3> DEFINE v == c.version + 1
    <3>1. v \in Nat
      BY <2>2
    <3>2. w = [c EXCEPT !.version = v, !.publication = rev]
      BY <2>2
    <3> HIDE DEF w, c, v, rev
    <3>3. w \in Workflow
      BY <2>2, <3>1, <3>2, PublishedType
    <3>4. /\ w.state = c.state /\ w.publication = rev
          /\ w.binding = c.binding /\ w.exec = c.exec /\ w.fence = c.fence
      BY <2>2, <3>2 DEF Workflow
    <3> QED BY <2>2, <3>3, <3>4
  <2>5. PublishSnapshot(r, i, rev) /\ Done(p) /\ UNCHANGED <<clock, outside>>
    BY <1>2 DEF PublishHead
  <2>6. w = [workflows[i] EXCEPT !.version = @ + 1, !.publication = workflows[i].binding.rev + 1]
    BY <2>2, <2>3
  <2> HIDE DEF w
  <2>7. /\ workflows' = [workflows EXCEPT ![i] = w] /\ CompleteCommand(r, i, w)
        /\ active' = [active EXCEPT ![b] = NoActive]
        /\ heads' = [heads EXCEPT ![b] = rev] /\ fences' = fences
    BY <2>4, <2>5 DEF PublishSnapshot, w
  <2>8. Wrote(p, i, w)
    BY <2>1, <2>2, <2>4, <2>5, <2>7 DEF Wrote
  <2>9. heads[b] \in {0, c.binding.rev}
    BY <2>1, <2>2 DEF HeadIs
  <2>10. Advances(p, i, w)
    BY <2>1, <2>2, <2>3, <2>4, <2>6, <2>7, <2>8, <2>9 DEF Advances
  <2> QED BY <2>10 DEF w
<1> QED BY <1>1, <1>2

-----------------------------------------------------------------------------
(* What every write keeps.                                                  *)

\* The tables after a write.
LEMMA WroteFacts ==
  ASSUME Safe, NEW p \in Worker, NEW i, NEW w, Wrote(p, i, w)
  PROVE  /\ \A j \in Key : workflows'[j] = IF j = i THEN w ELSE workflows[j]
         /\ workflows \in [Key -> Workflow]
         /\ worker[p].request.key \in Key
         /\ commands[worker[p].request.key].status = "pending"
         /\ \A k \in Key : k # worker[p].request.key => commands'[k] = commands[k]
         /\ commands'[worker[p].request.key].status = "completed"
         /\ commands'[worker[p].request.key].receipt = ReceiptOf(i, w)
<1>1. workflows \in [Key -> Workflow] /\ commands \in [Key -> CommandRow]
  BY DEF Safe, Inv, TypeOK, RepositoryTypeOK
<1>2. worker[p].request.key \in Key
  BY BusyFacts DEF Wrote
<1> QED BY <1>1, <1>2 DEF Wrote, HoldsCommand, CompleteCommand

LEMMA WroteCareful ==
  ASSUME Safe, NEW p \in Worker, NEW i, NEW w, Wrote(p, i, w)
  PROVE  Careful' /\ Bases'
<1>1. \A q \in Worker \ {p} :
        LET k == worker[q].request.key IN
        (/\ worker[q].pc # "idle" /\ commands'[k].status = "pending"
         /\ commands'[k].token = worker[q].token) => commands'[k] = commands[k]
  BY BusyFacts, WroteFacts
<1>2. Careful'
  BY <1>1, IdleOK, IdleCareful, CarefulStep DEF Wrote, Done, outside
<1>3. Bases'
  BY DEF Wrote, outside, Safe, Bases
<1> QED BY <1>2, <1>3

\* A key is spent on the execution it begins, and on no other.
LEMMA WroteSpent ==
  ASSUME Safe, NEW p \in Worker, NEW i, NEW w, Wrote(p, i, w),
         w.exec \in {workflows[i].exec, worker[p].request.key}
  PROVE  SpentKeys'
<1> SUFFICES ASSUME NEW j \in Key, workflows'[j].exec # None
             PROVE  /\ commands'[workflows'[j].exec].status = "completed"
                    /\ commands'[workflows'[j].exec].receipt.id = j
  BY DEF SpentKeys
<1> DEFINE k == worker[p].request.key
           e == workflows'[j].exec
<1>1. i \in Key
  BY DEF Wrote
<1>2. CASE e = workflows[j].exec
  <2>1. e \in Key /\ commands[e].status = "completed" /\ commands[e].receipt.id = j
    BY <1>2, WroteFacts DEF Safe, SpentKeys, Workflow
  <2>2. e # k
    BY <2>1, WroteFacts
  <2> QED BY <2>1, <2>2, WroteFacts
<1>3. CASE e # workflows[j].exec
  <2>1. j = i /\ e = k
    BY <1>3, WroteFacts
  <2>2. commands'[k].status = "completed" /\ commands'[k].receipt = ReceiptOf(i, w)
    BY WroteFacts
  <2>3. ReceiptOf(i, w).id = i
    BY DEF ReceiptOf
  <2> QED BY <2>1, <2>2, <2>3
<1> QED BY <1>2, <1>3

\* A document that keeps its fence keeps the order of the fences.
LEMMA FencesKept ==
  ASSUME Safe, NEW p \in Worker, NEW i, NEW w, Wrote(p, i, w),
         w.fence = workflows[i].fence,
         w.fence > 0 => w.binding = workflows[i].binding,
         fences' = fences
  PROVE  Fences'
<1>1. i \in Key
  BY DEF Wrote
<1>2. \A j \in Key : /\ workflows'[j].fence = workflows[j].fence
                     /\ workflows'[j].fence > 0 => workflows'[j].binding = workflows[j].binding
  BY <1>1, WroteFacts
<1>3. \A j \in Key : workflows'[j].fence > 0 =>
        workflows'[j].fence <= fences'[workflows'[j].binding.book]
  BY <1>2 DEF Safe, Fences
<1>4. \A j, k \in Key :
        (/\ workflows'[j].fence > 0 /\ workflows'[j].fence = workflows'[k].fence
         /\ workflows'[j].binding.book = workflows'[k].binding.book) => j = k
  BY <1>2 DEF Safe, Fences
<1> QED BY <1>3, <1>4 DEF Fences

\* A new execution has the next fence.
LEMMA FencesTaken ==
  ASSUME Safe, NEW p \in Worker, NEW i, NEW w, Claims(p, i, w)
  PROVE  Fences'
<1> DEFINE b == workflows[i].binding.book
<1>1. /\ i \in Key /\ b \in Book /\ w.binding.book = b /\ w.fence = fences[b] + 1
      /\ fences' = [fences EXCEPT ![b] = fences[b] + 1] /\ Wrote(p, i, w)
  BY DEF Claims, Wrote
<1>2. fences \in [Book -> Nat]
  BY DEF Safe, Inv, TypeOK, RepositoryTypeOK
<1>3. \A j \in Key : workflows'[j] = IF j = i THEN w ELSE workflows[j]
  BY <1>1, WroteFacts
<1>4. \A j \in Key : workflows[j].fence \in Nat
  BY <1>1, WroteFacts DEF Workflow
<1>5. \A j \in Key : workflows[j].fence > 0 => workflows[j].binding.book \in Book
  <2> SUFFICES ASSUME NEW j \in Key, workflows[j].fence > 0
               PROVE  workflows[j].binding.book \in Book
    OBVIOUS
  <2>1. DocumentOK(workflows[j]) 
    BY DEF Safe, Inv, Documents
  <2> QED BY <2>1 DEF DocumentOK, Unclaimed, Binding
<1> HIDE DEF b
<1>6. \A j \in Key : workflows'[j].fence > 0 =>
        workflows'[j].fence <= fences'[workflows'[j].binding.book]
  <2> SUFFICES ASSUME NEW j \in Key, workflows'[j].fence > 0
               PROVE  workflows'[j].fence <= fences'[workflows'[j].binding.book]
    OBVIOUS
  <2>1. CASE j = i
    BY <1>1, <1>2, <1>3, <2>1
  <2>2. CASE j # i
    <3> DEFINE d == workflows[j].binding.book
    <3>1. workflows'[j] = workflows[j] /\ workflows[j].fence <= fences[d] /\ d \in Book
      BY <1>3, <1>5, <2>2 DEF Safe, Fences
    <3>2. fences'[d] >= fences[d] /\ fences[d] \in Nat /\ fences'[d] \in Nat
      BY <1>1, <1>2, <3>1
    <3> QED BY <1>4, <3>1, <3>2
  <2> QED BY <2>1, <2>2
<1>7. \A j, k \in Key :
        (/\ workflows'[j].fence > 0 /\ workflows'[j].fence = workflows'[k].fence
         /\ workflows'[j].binding.book = workflows'[k].binding.book) => j = k
  <2>1. \A j \in Key : j # i /\ workflows[j].fence > 0 /\ workflows[j].binding.book = b
          => workflows[j].fence < w.fence
    BY <1>1, <1>2, <1>4 DEF Safe, Fences
  <2> QED BY <1>1, <1>2, <1>3, <1>4, <2>1 DEF Safe, Fences
<1> QED BY <1>6, <1>7, SMTT(30) DEF Fences

\* A write that publishes nothing leaves the heads and what they rest on.
LEMMA HeadsKept ==
  ASSUME Safe, NEW p \in Worker, NEW i, NEW w, Wrote(p, i, w),
         w.publication = workflows[i].publication,
         w.publication > 0 => w.binding = workflows[i].binding,
         heads' = heads,
         \A b \in Book : active'[b].id # None =>
           \/ /\ active'[b].id = active[b].id
              /\ active[b].id = i => w.binding = workflows[i].binding
           \/ active'[b].id = i /\ heads[b] \in {0, w.binding.rev}
  PROVE  Heads'
<1>1. i \in Key /\ assets' = assets
  BY DEF Wrote, outside
<1>2. \A j \in Key : workflows'[j] = IF j = i THEN w ELSE workflows[j]
  BY WroteFacts
<1>3. \A j \in Key : /\ workflows'[j].publication = workflows[j].publication
                     /\ workflows'[j].publication > 0 =>
                          workflows'[j].binding = workflows[j].binding
  BY <1>1, <1>2
<1>4. \A b \in Book : active[b].id \in Key \cup {None}
  BY DEF Safe, Inv, TypeOK, RepositoryTypeOK, ActiveRow
<1>5. \A b \in Book : active'[b].id # None =>
        heads'[b] \in {0, workflows'[active'[b].id].binding.rev}
  <2> SUFFICES ASSUME NEW b \in Book, active'[b].id # None
               PROVE  heads'[b] \in {0, workflows'[active'[b].id].binding.rev}
    OBVIOUS
  <2>1. CASE active'[b].id = i /\ heads[b] \in {0, w.binding.rev}
    BY <1>1, <1>2, <2>1
  <2>2. CASE /\ active'[b].id = active[b].id
             /\ active[b].id = i => w.binding = workflows[i].binding
    <3>1. active[b].id \in Key /\ heads[b] \in {0, workflows[active[b].id].binding.rev}
      BY <1>4, <2>2 DEF Safe, Heads
    <3>2. workflows'[active[b].id].binding = workflows[active[b].id].binding
      BY <1>2, <2>2, <3>1
    <3> QED BY <2>2, <3>1, <3>2
  <2> QED BY <2>1, <2>2
<1>6. \A j \in Key : workflows'[j].publication > 0 =>
        /\ workflows'[j].publication = workflows'[j].binding.rev + 1
        /\ workflows'[j].publication <= heads'[workflows'[j].binding.book]
        /\ <<workflows'[j].binding.book, workflows'[j].publication>> \in assets'
  BY <1>1, <1>3 DEF Safe, Heads
<1>7. \A j, k \in Key :
        (/\ workflows'[j].publication > 0 /\ workflows'[k].publication > 0
         /\ workflows'[j].binding.book = workflows'[k].binding.book
         /\ workflows'[j].binding.rev = workflows'[k].binding.rev) => j = k
  BY <1>3 DEF Safe, Heads
<1> QED BY <1>5, <1>6, <1>7 DEF Heads

\* A publication moves the head of its workbook past every earlier one.
LEMMA HeadsMoved ==
  ASSUME Safe, NEW p \in Worker, NEW i, NEW w, Advances(p, i, w)
  PROVE  Heads'
<1> DEFINE b == workflows[i].binding.book
           base == workflows[i].binding.rev
<1>1. /\ i \in Key /\ Wrote(p, i, w) /\ assets' = assets
      /\ workflows[i].binding \in Binding /\ w.binding = workflows[i].binding
      /\ w.publication = base + 1 /\ heads[b] \in {0, base}
      /\ workflows[i].publication = 0
      /\ active' = [active EXCEPT ![b] = NoActive]
      /\ heads' = [heads EXCEPT ![b] = base + 1]
  BY DEF Advances, Wrote, outside
<1>2. /\ b \in Book /\ base \in Nat /\ heads \in [Book -> Nat]
      /\ active \in [Book -> ActiveRow]
  BY <1>1 DEF Binding, Safe, Inv, TypeOK, RepositoryTypeOK
<1>3. <<b, base + 1>> \in assets
  <2>1. CarefulOK(worker[p], commands, assets, clock)
    BY BusyFacts DEF Advances, Wrote
  <2> QED BY <2>1 DEF Advances, Wrote, CarefulOK
<1>4. \A j \in Key : workflows'[j] = IF j = i THEN w ELSE workflows[j]
  BY <1>1, WroteFacts
<1>5. \A j \in Key : workflows[j].publication > 0 =>
        /\ workflows[j].publication = workflows[j].binding.rev + 1
        /\ workflows[j].publication <= heads[workflows[j].binding.book]
        /\ <<workflows[j].binding.book, workflows[j].publication>> \in assets
        /\ workflows[j].binding \in Binding
  <2> SUFFICES ASSUME NEW j \in Key, workflows[j].publication > 0
               PROVE  workflows[j].binding \in Binding
    BY DEF Safe, Heads
  <2>1. DocumentOK(workflows[j])
    BY DEF Safe, Inv, Documents
  <2> QED BY <2>1 DEF DocumentOK
<1> HIDE DEF b, base
<1>6. \A c \in Book : active'[c].id # None =>
        heads'[c] \in {0, workflows'[active'[c].id].binding.rev}
  <2> SUFFICES ASSUME NEW c \in Book, active'[c].id # None
               PROVE  heads'[c] \in {0, workflows'[active'[c].id].binding.rev}
    OBVIOUS
  <2>1. c # b /\ active'[c] = active[c] /\ heads'[c] = heads[c]
    BY <1>1, <1>2 DEF NoActive
  <2>2. /\ active[c].id \in Key /\ workflows[active[c].id].binding.book = c
        /\ heads[c] \in {0, workflows[active[c].id].binding.rev}
    BY <1>2, <2>1 DEF Safe, Heads, Inv, Rows, ActiveRow
  <2>3. active[c].id # i
    BY <2>1, <2>2 DEF b
  <2> QED BY <1>4, <2>1, <2>2, <2>3
<1>7. \A j \in Key : j # i /\ workflows[j].publication > 0 /\ workflows[j].binding.book = b
        => workflows[j].binding.rev < base
  <2> SUFFICES ASSUME NEW j \in Key, workflows[j].publication > 0,
                      workflows[j].binding.book = b
               PROVE  workflows[j].binding.rev < base
    OBVIOUS
  <2> DEFINE rev == workflows[j].binding.rev
  <2>1. rev \in Nat /\ workflows[j].publication = rev + 1
    BY <1>5 DEF Binding
  <2>2. rev + 1 <= heads[b]
    BY <1>5, <2>1
  <2> HIDE DEF rev
  <2> QED BY <1>1, <1>2, <2>1, <2>2 DEF rev
<1>8. \A j \in Key : workflows'[j].publication > 0 =>
        /\ workflows'[j].publication = workflows'[j].binding.rev + 1
        /\ workflows'[j].publication <= heads'[workflows'[j].binding.book]
        /\ <<workflows'[j].binding.book, workflows'[j].publication>> \in assets'
  <2> SUFFICES ASSUME NEW j \in Key, workflows'[j].publication > 0
               PROVE  /\ workflows'[j].publication = workflows'[j].binding.rev + 1
                      /\ workflows'[j].publication <= heads'[workflows'[j].binding.book]
                      /\ <<workflows'[j].binding.book, workflows'[j].publication>> \in assets'
    OBVIOUS
  <2>1. CASE j = i
    BY <1>1, <1>2, <1>3, <1>4, <2>1 DEF b, base
  <2>2. CASE j # i
    <3>1. workflows'[j] = workflows[j]
      BY <1>4, <2>2
    <3> DEFINE d == workflows[j].binding.book
    <3>2. /\ d \in Book /\ workflows[j].binding.rev \in Nat
          /\ workflows[j].publication > 0
          /\ workflows[j].publication = workflows[j].binding.rev + 1
          /\ workflows[j].publication <= heads[d]
      BY <1>5, <3>1 DEF Binding
    <3>3. workflows[j].publication <= heads'[d]
      <4>1. CASE d = b
        <5>1. heads'[d] = base + 1
          BY <1>1, <1>2, <4>1
        <5>2. workflows[j].binding.rev < base
          BY <1>7, <2>2, <3>1, <4>1
        <5> QED BY <1>2, <3>2, <5>1, <5>2
      <4>2. CASE d # b
        BY <1>1, <1>2, <3>2, <4>2
      <4> QED BY <4>1, <4>2
    <3> QED BY <1>1, <1>5, <3>1, <3>3
  <2> QED BY <2>1, <2>2
<1>9. \A j, k \in Key :
        (/\ workflows'[j].publication > 0 /\ workflows'[k].publication > 0
         /\ workflows'[j].binding.book = workflows'[k].binding.book
         /\ workflows'[j].binding.rev = workflows'[k].binding.rev) => j = k
  <2>1. w.binding.book = b /\ w.binding.rev = base
    BY <1>1 DEF b, base
  <2>2. \A j, k \in Key :
          (/\ workflows[j].publication > 0 /\ workflows[k].publication > 0
           /\ workflows[j].binding.book = workflows[k].binding.book
           /\ workflows[j].binding.rev = workflows[k].binding.rev) => j = k
    BY DEF Safe, Heads
  <2>3. \A j \in Key : workflows[j].publication > 0 => workflows[j].binding.rev \in Nat
    BY <1>5 DEF Binding
  <2> QED BY <1>2, <1>4, <1>7, <2>1, <2>2, <2>3
<1> QED BY <1>6, <1>8, <1>9 DEF Heads

\* Rows with a publication claim stay rows of verified writes, if no write
\* touches a verified one without giving its row back.
LEMMA ClaimedRowsKept ==
  ASSUME Safe, NEW p \in Worker, NEW i, NEW w, Wrote(p, i, w),
         \A b \in Book : active'[b].token # None =>
           active'[b] = active[b] /\ active[b].id # i
  PROVE  ClaimedRows'
<1> SUFFICES ASSUME NEW b \in Book, active'[b].token # None
             PROVE  workflows'[active'[b].id].state = "session_verified"
  BY DEF ClaimedRows
<1>1. /\ active'[b] = active[b] /\ active[b].id # i
      /\ workflows[active[b].id].state = "session_verified"
  BY DEF Safe, ClaimedRows
<1>2. active[b].id \in Key
  BY <1>1 DEF Safe, Inv, TypeOK, RepositoryTypeOK, ActiveRow, Rows, NoActive
<1> QED BY <1>1, <1>2, WroteFacts

\* The row of a workbook, and the workflow it names.
LEMMA RowFacts ==
  ASSUME Safe, NEW b \in Book, active[b].id # None
  PROVE  /\ active[b].id \in Key /\ Holding(workflows[active[b].id])
         /\ workflows[active[b].id].binding.book = b
         /\ workflows[active[b].id].exec = active[b].exec
         /\ workflows[active[b].id].fence = active[b].fence
BY DEF Safe, Inv, Rows, TypeOK, RepositoryTypeOK, ActiveRow

LEMMA PublishSafe ==
  ASSUME Safe, NEW p \in Worker, Publish(p)
  PROVE  Safe'
<1>1. Inv'
  BY PublishStep DEF Safe
<1> DEFINE r == worker[p].request
           i == Target(r)
           w == Updated(worker[p].copy, r, worker[p].stamp)
<1>2. CASE Still(p) /\ worker[p].pc = "commit"
  BY <1>1, <1>2, StillStep, SteadyStep DEF Still, tables, outside
<1>3. CASE Transitions(p, i, w)
  <2> HIDE DEF i, w
  <2>1. /\ Wrote(p, i, w) /\ i \in Key /\ active \in [Book -> ActiveRow]
        /\ r.op \in Operation /\ r.witness \in Witness
    BY <1>3, BusyFacts DEF Transitions, Wrote, RequestType, Safe, Inv, TypeOK, RepositoryTypeOK
  <2>2. workflows[i].state \notin {"session_verified"} /\ workflows[i].publication = 0
    <3>1. CASE r.op = "propose"
      BY <1>3, <2>1, <3>1, AbsentFacts DEF Transitions, Safe
    <3>2. CASE r.op # "propose"
      <4>1. DocumentOK(workflows[i])
        BY <2>1 DEF Safe, Inv, Documents
      <4>2. SoundCopy(workflows[i], r)
        BY <1>3, <3>2 DEF Transitions
      <4>3. workflows[i].state # "session_verified"
        BY <1>3, <2>1, <3>2, <4>2 DEF Transitions, SoundCopy, Operation
      <4> QED BY <4>1, <4>3 DEF DocumentOK
    <3> QED BY <3>1, <3>2
  <2>3. r.op = "propose" => ~ Holding(workflows[i]) /\ w.fence = 0
    BY <1>3, <2>1, AbsentFacts DEF Transitions, Safe
  <2>4. r.op # "propose" => w.binding = workflows[i].binding
    BY <1>3 DEF Transitions
  <2>5. SpentKeys'
    BY <1>3, <2>1, WroteSpent DEF Transitions
  <2>6. Fences'
    BY <1>3, <2>1, <2>3, <2>4, FencesKept DEF Transitions
  <2>7. \A b \in Book : active'[b] \in {active[b], NoActive}
    BY <1>3, <2>1 DEF Transitions
  <2>8. Heads'
    <3>1. \A b \in Book : active'[b].id # None =>
            /\ active'[b].id = active[b].id
            /\ active[b].id = i => w.binding = workflows[i].binding
      BY <2>3, <2>4, <2>7, RowFacts DEF NoActive
    <3> QED BY <1>3, <2>1, <2>2, <3>1, HeadsKept DEF Transitions
  <2>9. ClaimedRows'
    <3>1. \A b \in Book : active'[b].token # None => active'[b] = active[b] /\ active[b].id # i
      BY <2>2, <2>7 DEF NoActive, Safe, ClaimedRows
    <3> QED BY <2>1, <3>1, ClaimedRowsKept
  <2> QED BY <1>1, <2>1, <2>5, <2>6, <2>8, <2>9, WroteCareful DEF Safe
<1> QED BY <1>2, <1>3, PublishFacts DEF Safe

LEMMA ClaimSafe ==
  ASSUME Safe, NEW p \in Worker, Claim(p)
  PROVE  Safe'
<1>1. Inv'
  BY ClaimStep DEF Safe
<1> DEFINE r == worker[p].request
           i == r.id
           w == ClaimedWorkflow(i, r.key, r.required)
           b == workflows[i].binding.book
<1>2. CASE Still(p) /\ worker[p].pc = "commit"
  BY <1>1, <1>2, StillStep, SteadyStep DEF Still, tables, outside
<1>3. CASE Claims(p, i, w)
  <2> HIDE DEF w
  <2>1. Wrote(p, i, w) /\ i \in Key /\ active \in [Book -> ActiveRow] /\ b \in Book
    BY <1>3, SMTT(30) DEF Claims, Wrote, Safe, Inv, TypeOK, RepositoryTypeOK
  <2>2. SpentKeys'
    BY <1>3, <2>1, WroteSpent DEF Claims
  <2>3. Fences'
    BY <1>3, FencesTaken
  <2>4. \A c \in Book : IF c = b THEN active'[c].id = i /\ active'[c].token = None
                        ELSE active'[c] = active[c]
    BY <1>3, <2>1 DEF Claims
  <2>5. w.binding = workflows[i].binding /\ heads[b] \in {0, w.binding.rev} /\ heads' = heads
        /\ w.publication = workflows[i].publication
    BY <1>3 DEF Claims
  <2>6. Heads'
    <3>1. \A c \in Book : active'[c].id # None =>
            \/ /\ active'[c].id = active[c].id
               /\ active[c].id = i => w.binding = workflows[i].binding
            \/ active'[c].id = i /\ heads[c] \in {0, w.binding.rev}
      BY <2>4, <2>5
    <3> QED BY <2>1, <2>5, <3>1, HeadsKept
  <2>7. ClaimedRows'
    <3>1. \A c \in Book : active'[c].token # None => active'[c] = active[c] /\ active[c].id # i
      <4>1. workflows[i].state # "session_verified"
        BY <1>3 DEF Claims
      <4> QED BY <2>4, <4>1, SMTT(30) DEF Safe, ClaimedRows
    <3> QED BY <2>1, <3>1, ClaimedRowsKept
  <2> QED BY <1>1, <2>1, <2>2, <2>3, <2>6, <2>7, WroteCareful, SMTT(30) DEF Safe
<1> QED BY <1>2, <1>3, ClaimFacts DEF Safe

LEMMA PublishHeadSafe ==
  ASSUME Safe, NEW p \in Worker, PublishHead(p)
  PROVE  Safe'
<1>1. Inv'
  BY PublishHeadStep DEF Safe
<1> DEFINE i == worker[p].request.id
           w == [workflows[i] EXCEPT !.version = @ + 1, !.publication = worker[p].rev]
           b == workflows[i].binding.book
<1>2. CASE Still(p) /\ worker[p].pc = "commit"
  BY <1>1, <1>2, StillStep, SteadyStep DEF Still, tables, outside
<1>3. CASE Advances(p, i, w)
  <2> HIDE DEF w
  <2>1. Wrote(p, i, w) /\ i \in Key /\ active \in [Book -> ActiveRow] /\ b \in Book
    BY <1>3 DEF Advances, Wrote, Safe, Inv, TypeOK, RepositoryTypeOK, Binding
  <2>2. SpentKeys'
    BY <1>3, <2>1, WroteSpent DEF Advances
  <2>3. Fences'
    BY <1>3, <2>1, FencesKept DEF Advances
  <2>4. Heads'
    BY <1>3, HeadsMoved
  <2>5. ClaimedRows'
    <3>1. \A c \in Book : c # b => active'[c] = active[c]
      BY <1>3 DEF Advances, Safe, Inv, TypeOK, RepositoryTypeOK
    <3>2. active'[b].token = None
      BY <1>3, <2>1 DEF Advances, NoActive
    <3>3. \A c \in Book : active[c].id = i => c = b
      BY <2>1, RowFacts
    <3>4. \A c \in Book : active'[c].token # None => active'[c] = active[c] /\ active[c].id # i
      BY <3>1, <3>2, <3>3
    <3> QED BY <2>1, <3>4, ClaimedRowsKept
  <2> QED BY <1>1, <2>1, <2>2, <2>3, <2>4, <2>5, WroteCareful DEF Safe
<1> QED BY <1>2, <1>3, PublishHeadFacts DEF Safe

-----------------------------------------------------------------------------
(* Safe is an invariant.                                                    *)

THEOREM InitSafe == Init => Safe
<1> SUFFICES ASSUME Init PROVE Safe
  OBVIOUS
<1>1. Inv
  BY InitInv
<1>2. /\ SpentKeys /\ Fences /\ Heads /\ ClaimedRows
  BY DEF Init, RepositoryInit, NoWorkflow, NoActive, SpentKeys, Fences, Heads, ClaimedRows
<1>3. Bases /\ Careful
  BY IdleCareful DEF Init, Bases, Careful
<1> QED BY <1>1, <1>2, <1>3 DEF Safe

\* The steps of the service that write no document are quiet.
LEMMA QuietSteps ==
  ASSUME Safe,
         \/ \E p \in Worker, r \in Request : Begin(p, r)
         \/ \E p \in Worker :
              \/ Load(p) \/ Bind(p) \/ Resolve(p) \/ CheckHead(p) \/ Validate(p)
              \/ TakePublicationClaim(p) \/ Acquire(p) \/ Store(p)
              \/ ReleaseClaim(p) \/ Abort(p) \/ Fault(p) \/ Crash(p)
         \/ \E s \in Session, b \in Book : Register(s, b)
         \/ \E s \in Session : Unregister(s)
         \/ \E b \in Book : Save(b)
         \/ Tick
  PROVE  Quiet /\ Careful' /\ ClaimedRows' /\ Bases'
<1>1. ASSUME UNCHANGED <<workflows, active>> PROVE ClaimedRows'
  BY <1>1 DEF Safe, ClaimedRows
<1>2. ASSUME UNCHANGED <<registry, saved>> PROVE Bases'
  BY <1>2 DEF Safe, Bases
<1>3. ASSUME NEW p \in Worker, NEW r \in Request, Begin(p, r)
      PROVE  Quiet /\ Careful' /\ ClaimedRows' /\ Bases'
  BY <1>1, <1>2, <1>3, BeginCareful DEF Begin, ClaimCommand, outside
<1>4. ASSUME NEW p \in Worker, Load(p) \/ Bind(p) \/ Resolve(p) \/ CheckHead(p) \/ Validate(p)
      PROVE  Quiet /\ Careful' /\ ClaimedRows' /\ Bases'
  <2>1. UNCHANGED <<tables, outside>>
    BY <1>4 DEF Load, Bind, Resolve, CheckHead, Validate
  <2> QED BY <1>1, <1>2, <1>4, <2>1, LoadCareful, BindCareful, ResolveCareful,
             CheckHeadCareful, ValidateCareful DEF tables, outside
<1>5. ASSUME NEW p \in Worker, Acquire(p) \/ Store(p) \/ Abort(p) \/ Fault(p) \/ Crash(p)
      PROVE  Quiet /\ Careful' /\ ClaimedRows' /\ Bases'
  <2>1. UNCHANGED <<workflows, active, registry, saved>>
    BY <1>5 DEF Acquire, Store, Abort, AbortCommand, Fault, Crash, tables, outside
  <2> QED BY <1>1, <1>2, <1>5, <2>1, AcquireCareful, StoreCareful, AbortCareful,
             FaultAndCrashCareful
<1>6. ASSUME NEW p \in Worker, TakePublicationClaim(p) \/ ReleaseClaim(p)
      PROVE  Quiet /\ Careful' /\ ClaimedRows' /\ Bases'
  BY <1>2, <1>6, TakePublicationClaimCareful, ReleaseClaimCareful
     DEF TakePublicationClaim, ReleaseClaim, outside
<1>7. CASE \/ \E s \in Session, b \in Book : Register(s, b)
           \/ \E s \in Session : Unregister(s)
           \/ \E b \in Book : Save(b)
           \/ Tick
  <2>1. UNCHANGED tables
    BY <1>7 DEF Register, Unregister, Save, Tick
  <2> QED BY <1>1, <1>7, <2>1, EnvironmentCareful DEF tables
<1> QED BY <1>3, <1>4, <1>5, <1>6, <1>7

\* Every step of the service keeps what its tables promise each other.
THEOREM SafeStep == Safe /\ [Next]_vars => Safe'
<1> SUFFICES ASSUME Safe, [Next]_vars PROVE Safe'
  OBVIOUS
<1>1. Inv'
  BY InvStep DEF Safe
<1>2. ASSUME Quiet, Careful', ClaimedRows', Bases' PROVE Safe'
  BY <1>1, <1>2, QuietTables DEF Safe
<1>3. CASE UNCHANGED vars
  <2>1. Quiet /\ ClaimedRows' /\ Bases'
    BY <1>3 DEF Quiet, vars, tables, outside, Safe, ClaimedRows, Bases, Inv, TypeOK,
                RepositoryTypeOK
  <2>2. Careful'
    BY <1>3 DEF Safe, Careful, vars, tables, outside
  <2> QED BY <1>2, <2>1, <2>2
<1>4. ASSUME NEW p \in Worker, Publish(p) \/ Claim(p) \/ PublishHead(p)
      PROVE  Safe'
  BY <1>4, PublishSafe, ClaimSafe, PublishHeadSafe
<1>5. CASE Next
  BY <1>2, <1>4, <1>5, QuietSteps DEF Next, WorkerStep
<1> QED BY <1>3, <1>5

THEOREM Safety == Spec => []Safe
BY InitSafe, SafeStep, PTL DEF Spec

-----------------------------------------------------------------------------
(* What the clients may rely on.                                            *)

\* While an execution holds a workbook (a row of active_workbooks) the head of
\* the workbook is unset or still the revision the execution was based on.
THEOREM HeldBase == Spec => []HeldOnItsBase
<1>1. Safe => HeldOnItsBase
  BY DEF Safe, Heads, HeldOnItsBase
<1> QED BY <1>1, Safety, PTL

\* A fencing token names one execution of a workbook: NextFence never hands one
\* out twice, whatever rows of active_workbooks were deleted meanwhile.
THEOREM OneFence == Spec => []FenceNamesOneExecution
<1>1. Safe => FenceNamesOneExecution
  BY DEF Safe, Fences, FenceNamesOneExecution
<1> QED BY <1>1, Safety, PTL

\* One approval executes once: the idempotency key of a claim becomes the
\* execution of one workflow, which is consumed from then on.
THEOREM OneExecution == Spec => []ApprovalSpentOnce
<1>1. Safe => ApprovalSpentOnce
  <2> SUFFICES ASSUME Safe, NEW i \in Key, workflows[i].exec # None
               PROVE  /\ workflows[i].consumed
                      /\ \A j \in Key : workflows[j].exec = workflows[i].exec => j = i
    BY DEF ApprovalSpentOnce
  <2>1. DocumentOK(workflows[i])
    BY DEF Safe, Inv, Documents
  <2>2. workflows[i].consumed
    BY <2>1 DEF DocumentOK
  <2>3. \A j \in Key : workflows[j].exec = workflows[i].exec => j = i
    BY DEF Safe, SpentKeys
  <2> QED BY <2>2, <2>3
<1> QED BY <1>1, Safety, PTL

\* Published snapshots form a chain: no base revision is published from twice,
\* the head is never behind a publication, and the asset of each is stored.
THEOREM Chain == Spec => []PublishedChain
<1>1. Safe => PublishedChain
  <2> SUFFICES ASSUME Safe, NEW i \in Key, NEW j \in Key,
                      workflows[i].publication > 0, workflows[j].publication > 0,
                      workflows[i].binding.book = workflows[j].binding.book
               PROVE  /\ workflows[i].binding.rev = workflows[j].binding.rev => i = j
                      /\ <<workflows[i].binding.book, workflows[i].publication>> \in assets
                      /\ heads[workflows[i].binding.book] >= workflows[i].publication
    BY DEF PublishedChain
  <2>1. workflows[i].binding \in Binding /\ workflows[i].publication \in Nat
    <3>1. DocumentOK(workflows[i]) /\ workflows[i] \in Workflow
      BY DEF Safe, Inv, Documents, TypeOK, RepositoryTypeOK
    <3> QED BY <3>1 DEF DocumentOK, Workflow
  <2>2. heads[workflows[i].binding.book] \in Nat
    BY <2>1 DEF Binding, Safe, Inv, TypeOK, RepositoryTypeOK
  <2> QED BY <2>1, <2>2 DEF Safe, Heads
<1> QED BY <1>1, Safety, PTL

\* A row of active_workbooks changes in place only if a verified write is due to
\* be published from it.
SteadyRows ==
  \A b \in Book : active'[b] # active[b] => workflows[active[b].id].state = "session_verified"

LEMMA PublicationClaims ==
  ASSUME Safe, NEW p \in Worker, TakePublicationClaim(p) \/ ReleaseClaim(p)
  PROVE  SteadyRows
<1> DEFINE r == worker[p].request
           c == workflows[r.id].binding.book
<1>1. active \in [Book -> ActiveRow]
  BY DEF Safe, Inv, TypeOK, RepositoryTypeOK
<1>2. CASE active' = active
  BY <1>2 DEF SteadyRows
<1>3. CASE TakePublicationClaim(p) /\ active' # active
  <2>1. /\ CanClaimPublication(r.id, r.exec, worker[p].copy.fence, worker[p].stamp)
        /\ ClaimPublication(r.id, worker[p].token, worker[p].stamp)
    BY <1>3 DEF TakePublicationClaim, tables
  <2>2. workflows[r.id].state = "session_verified" /\ active[c].id = r.id
    BY <2>1 DEF CanClaimPublication, PublicationBasis, ActiveMatches
  <2>3. \A b \in Book : b # c => active'[b] = active[b]
    BY <1>1, <2>1 DEF ClaimPublication
  <2> QED BY <2>2, <2>3 DEF SteadyRows
<1>4. CASE ReleaseClaim(p) /\ active' # active
  <2>1. /\ ReleasePublication(r.id, r.exec, worker[p].copy.fence, worker[p].token)
        /\ worker[p].pc = "release"
    BY <1>4 DEF ReleaseClaim, tables
  <2>2. active[c].token = worker[p].token
    BY <2>1 DEF ReleasePublication
  <2>3. \A b \in Book : b # c => active'[b] = active[b]
    BY <1>1, <2>1 DEF ReleasePublication
  <2>4. CarefulOK(worker[p], commands, assets, clock)
    BY <2>1, BusyFacts
  <2>5. worker[p].token # None
    BY <2>1, <2>4 DEF CarefulOK
  <2> QED BY <2>2, <2>3, <2>5 DEF SteadyRows, Safe, ClaimedRows
<1> QED BY <1>2, <1>3, <1>4

\* The steps of the service, sorted by what they write.
LEMMA StepKinds ==
  ASSUME Safe, [Next]_vars
  PROVE  \/ Quiet /\ SteadyRows
         \/ \E p \in Worker, i \in Key, w \in Workflow :
              Transitions(p, i, w) \/ Claims(p, i, w) \/ Advances(p, i, w)
<1> DEFINE Kinds(p, i, w) == Transitions(p, i, w) \/ Claims(p, i, w) \/ Advances(p, i, w)
           Written == \E p \in Worker, i \in Key, w \in Workflow : Kinds(p, i, w)
<1>1. CASE UNCHANGED vars
  BY <1>1 DEF Quiet, SteadyRows, vars, tables, outside, Safe, Inv, TypeOK, RepositoryTypeOK
<1>2. ASSUME active' = active PROVE SteadyRows
  BY <1>2 DEF SteadyRows
<1>3. ASSUME NEW p \in Worker, NEW i, NEW w, Kinds(p, i, w)
      PROVE  Written
  <2>1. i \in Key /\ w \in Workflow
    BY <1>3 DEF Transitions, Claims, Advances, Wrote
  <2> HIDE DEF Kinds
  <2> QED BY <1>3, <2>1
<1>4. ASSUME NEW p \in Worker, Still(p), worker[p].pc = "commit"
      PROVE  Quiet /\ SteadyRows
  BY <1>2, <1>4, StillStep DEF Still, tables
<1>5. ASSUME NEW p \in Worker, Publish(p) PROVE (Quiet /\ SteadyRows) \/ Written
  <2> DEFINE i == Target(worker[p].request)
             w == Updated(worker[p].copy, worker[p].request, worker[p].stamp)
  <2>1. (Still(p) /\ worker[p].pc = "commit") \/ Transitions(p, i, w)
    BY <1>5, PublishFacts DEF Safe
  <2> HIDE DEF i, w, Written
  <2> QED BY <1>3, <1>4, <2>1
<1>6. ASSUME NEW p \in Worker, Claim(p) PROVE (Quiet /\ SteadyRows) \/ Written
  <2> DEFINE i == worker[p].request.id
             w == ClaimedWorkflow(i, worker[p].request.key, worker[p].request.required)
  <2>1. (Still(p) /\ worker[p].pc = "commit") \/ Claims(p, i, w)
    BY <1>6, ClaimFacts DEF Safe
  <2> HIDE DEF i, w, Written
  <2> QED BY <1>3, <1>4, <2>1
<1>7. ASSUME NEW p \in Worker, PublishHead(p) PROVE (Quiet /\ SteadyRows) \/ Written
  <2> DEFINE i == worker[p].request.id
             w == [workflows[i] EXCEPT !.version = @ + 1, !.publication = worker[p].rev]
  <2>1. (Still(p) /\ worker[p].pc = "commit") \/ Advances(p, i, w)
    BY <1>7, PublishHeadFacts DEF Safe
  <2> HIDE DEF i, w, Written
  <2> QED BY <1>3, <1>4, <2>1
<1>8. ASSUME NEW p \in Worker,
             \/ \E r \in Request : Begin(p, r)
             \/ Load(p) \/ Bind(p) \/ Resolve(p) \/ CheckHead(p) \/ Validate(p)
             \/ Acquire(p) \/ Store(p) \/ Abort(p) \/ Fault(p) \/ Crash(p)
      PROVE  Quiet /\ SteadyRows
  <2>1. active' = active
    <3>1. CASE \E r \in Request : Begin(p, r)
      BY <3>1 DEF Begin, ClaimCommand
    <3>2. CASE Abort(p)
      BY <3>2 DEF Abort, AbortCommand, tables
    <3>3. CASE \/ Load(p) \/ Bind(p) \/ Resolve(p) \/ CheckHead(p) \/ Validate(p)
               \/ Acquire(p) \/ Store(p) \/ Fault(p) \/ Crash(p)
      <4>1. UNCHANGED tables
        BY <3>3 DEF Load, Bind, Resolve, CheckHead, Validate, Acquire, Store, Fault, Crash
      <4> QED BY <4>1 DEF tables
    <3> QED BY <1>8, <3>1, <3>2, <3>3
  <2> QED BY <1>2, <1>8, <2>1, QuietSteps
<1>9. ASSUME \/ \E s \in Session, b \in Book : Register(s, b)
             \/ \E s \in Session : Unregister(s)
             \/ \E b \in Book : Save(b)
             \/ Tick
      PROVE  Quiet /\ SteadyRows
  <2>1. UNCHANGED tables
    BY <1>9 DEF Register, Unregister, Save, Tick
  <2> QED BY <1>2, <1>9, <2>1, QuietSteps DEF tables
<1>10. ASSUME NEW p \in Worker, TakePublicationClaim(p) \/ ReleaseClaim(p)
      PROVE  Quiet /\ SteadyRows
  BY <1>10, QuietSteps, PublicationClaims
<1>11. CASE Next
  <2> HIDE DEF Written
  <2>1. (Quiet /\ SteadyRows) \/ Written
    BY <1>5, <1>6, <1>7, <1>8, <1>9, <1>10, <1>11 DEF Next, WorkerStep
  <2> QED BY <2>1 DEF Written
<1> QED BY <1>1, <1>11

\* A transition that gives a workbook back is of the execution that holds it.
LEMMA ReleaseIsOwn ==
  ASSUME Safe, NEW p \in Worker, NEW i, NEW w, Transitions(p, i, w), ReleasesBook(w)
  PROVE  ActiveMatches(i, w)
<1> DEFINE r == worker[p].request
<1>1. r.op \in Operation /\ r.op \notin {"claim_execution", "publish_verified_snapshot"}
  BY BusyFacts DEF Transitions, Wrote, RequestType
<1>2. w.state = NextState(r)
  BY DEF Transitions
<1>3. RequiresActive(r)
  BY <1>1, <1>2 DEF ReleasesBook, NextState, RequiresActive, Operation
<1> QED BY <1>3 DEF Transitions

\* What a command may write over a workflow whose write was started: a report
\* of its outcome; and over one whose outcome is unknown or wrong: nothing.
LEMMA StartedIsReported ==
  ASSUME Safe, NEW p \in Worker, NEW i \in Key, NEW w,
         Transitions(p, i, w) \/ Claims(p, i, w) \/ Advances(p, i, w)
  PROVE  /\ workflows[i].state \notin Unsafe
         /\ workflows[i].state = "apply_started" => w.state \in Unsafe \cup {"session_verified"}
<1> DEFINE r == worker[p].request
           c == worker[p].copy
<1>1. CASE Claims(p, i, w)
  BY <1>1 DEF Claims, Unsafe
<1>2. CASE Advances(p, i, w)
  BY <1>2 DEF Advances, Unsafe
<1>3. CASE Transitions(p, i, w)
  <2>1. r.op \in Operation /\ r.witness \in Witness
    BY <1>3, BusyFacts DEF Transitions, Wrote, RequestType
  <2>2. /\ w.state = NextState(r)
        /\ r.op \notin {"claim_execution", "publish_verified_snapshot"}
        /\ r.op # "propose" => c = workflows[i] /\ SoundCopy(c, r)
        /\ r.op = "propose" => workflows[i].version = 0
    BY <1>3 DEF Transitions
  <2>3. CASE r.op = "propose"
    BY <2>2, <2>3, AbsentFacts DEF Safe, Unsafe
  <2>4. CASE r.op # "propose"
    BY <2>1, <2>2, <2>4 DEF SoundCopy, NextState, VerifiedState, Witness, Operation, Unsafe
  <2> QED BY <2>3, <2>4
<1> QED BY <1>1, <1>2, <1>3

\* A started write only becomes verified, wrong or unknown; from wrong and unknown
\* on no report, abort, publication claim or command changes the workflow, and
\* nobody changes the row by which it blocks its workbook.
THEOREM Quarantine == Spec => QuarantineHolds
<1>1. ASSUME Safe, [Next]_vars, NEW i \in Key,
             workflows[i].state \in Unsafe \cup {"apply_started"}
      PROVE  LET b == workflows[i].binding.book IN
             /\ active[b].id = i
             /\ workflows[i].state \in Unsafe => workflows'[i] = workflows[i]
             /\ workflows[i].state = "apply_started" =>
                  workflows'[i].state \in Unsafe \cup {"apply_started", "session_verified"}
             /\ workflows'[i].state # "session_verified" => active'[b] = active[b]
  <2> DEFINE b == workflows[i].binding.book
  <2>1. /\ active[b].id = i /\ b \in Book
        /\ active \in [Book -> ActiveRow]
    <3>1. DocumentOK(workflows[i]) /\ Holding(workflows[i])
      BY <1>1 DEF Safe, Inv, Documents, Holding, Unsafe
    <3> QED BY <1>1, <3>1 DEF DocumentOK, Binding, Safe, Inv, Rows, TypeOK, RepositoryTypeOK, Unsafe
  <2>2. CASE Quiet /\ SteadyRows
    BY <1>1, <2>1, <2>2 DEF SteadyRows, Quiet
  <2>3. ASSUME NEW p \in Worker, NEW j \in Key, NEW w \in Workflow,
               Transitions(p, j, w) \/ Claims(p, j, w) \/ Advances(p, j, w)
        PROVE  /\ workflows[i].state \in Unsafe => workflows'[i] = workflows[i]
               /\ workflows[i].state = "apply_started" =>
                    workflows'[i].state \in Unsafe \cup {"apply_started", "session_verified"}
               /\ workflows'[i].state # "session_verified" => active'[b] = active[b]
    <3>1. Wrote(p, j, w)
      BY <2>3 DEF Transitions, Claims, Advances
    <3>2. workflows'[i] = IF j = i THEN w ELSE workflows[i]
      BY <1>1, <3>1, WroteFacts
    <3>3. j = i => /\ workflows[i].state \notin Unsafe
                   /\ workflows[i].state = "apply_started" => w.state \in Unsafe \cup {"session_verified"}
      BY <1>1, <2>3, StartedIsReported
    <3>4. ASSUME workflows'[i].state # "session_verified"
          PROVE  active'[b] = active[b]
      <4> HIDE DEF b
      <4>1. j = i => w.state \in Unsafe
        BY <1>1, <3>2, <3>3, <3>4
      <4>2. CASE Transitions(p, j, w) /\ ReleasesBook(w)
        <5>1. active[w.binding.book].id = j
          BY <1>1, <4>2, ReleaseIsOwn DEF ActiveMatches
        <5>2. j # i
          BY <4>1, <4>2 DEF ReleasesBook, Unsafe
        <5> QED BY <2>1, <4>2, <5>1, <5>2, SMTT(30) DEF Transitions
      <4>3. CASE Transitions(p, j, w) /\ ~ ReleasesBook(w)
        BY <4>3, SMTT(30) DEF Transitions
      <4>4. CASE Claims(p, j, w)
        BY <1>1, <2>1, <4>4, SMTT(30) DEF Claims, NoActive
      <4>5. CASE Advances(p, j, w)
        <5>1. j # i
          BY <1>1, <4>5 DEF Advances, Unsafe
        <5>2. active[workflows[j].binding.book].id = j
          BY <4>5 DEF Advances, ActiveMatches
        <5> QED BY <2>1, <4>5, <5>1, <5>2, SMTT(30) DEF Advances
      <4> QED BY <2>3, <4>2, <4>3, <4>4, <4>5
    <3> QED BY <1>1, <3>2, <3>3, <3>4
  <2> QED BY <1>1, <2>1, <2>2, <2>3, StepKinds
<1>2. Safe /\ [Next]_vars =>
        [\A i \in Key :
           LET b == workflows[i].binding.book IN
           /\ workflows[i].state \in Unsafe =>
                /\ workflows'[i] = workflows[i]
                /\ active[b].id = i /\ active'[b] = active[b]
           /\ workflows[i].state = "apply_started" =>
                /\ workflows'[i].state \in Unsafe \cup {"apply_started", "session_verified"}
                /\ active[b].id = i
                /\ workflows'[i].state # "session_verified" => active'[b] = active[b]]_vars
  BY <1>1 DEF Unsafe
<1> QED BY <1>2, Safety, PTL DEF Spec, QuarantineHolds

\* A worker that commits holds its command, so what it saw of the clock when it
\* validated its copy is less than the life of a command claim ago.
LEMMA CommitTime ==
  ASSUME Safe, NEW p \in Worker, NEW i, NEW w, Wrote(p, i, w)
  PROVE  LET x == worker[p] IN
         /\ x.request.op \in {"claim_execution", "mark_apply_started"}
              => clock < x.copy.expires + CommandTtl
         /\ (x.request.op = "verify_execution" /\ x.request.witness.outcome = "applied")
              => clock < x.copy.deadline + CommandTtl
<1> DEFINE x == worker[p]
           row == commands[x.request.key]
<1>1. /\ x.pc = "commit" /\ row.status = "pending" /\ row.token = x.token
      /\ ~ Lapsed(row.expires)
  BY DEF Wrote, HoldsCommand
<1>2. CarefulOK(x, commands, assets, clock) /\ x \in WorkerState /\ x.request.key \in Key
  BY <1>1, BusyFacts
<1>3. Timely(x, row, clock)
  BY <1>1, <1>2 DEF CarefulOK
<1>4. /\ clock \in Nat /\ row.expires \in Nat
      /\ x.copy.expires \in Nat /\ x.copy.deadline \in Nat
  BY <1>2 DEF Safe, Inv, TypeOK, RepositoryTypeOK, CommandRow, WorkerState, Workflow
<1>5. clock < row.expires
  BY <1>1, <1>4 DEF Lapsed
<1> HIDE DEF x, row
<1>6. x.request.op \in {"claim_execution", "mark_apply_started"}
        => clock < x.copy.expires + CommandTtl
  BY <1>1, <1>3, <1>4, <1>5 DEF Timely
<1>7. (x.request.op = "verify_execution" /\ x.request.witness.outcome = "applied")
        => clock < x.copy.deadline + CommandTtl
  BY <1>1, <1>3, <1>4, <1>5 DEF Timely
<1> QED BY <1>6, <1>7 DEF x

\* Approvals and deadlines are compared with the clock before the commit: a
\* commit that comes after the lease ran out comes by less than the life of the
\* command claim after it, whatever time passes in between.
THEOREM Timeliness == Spec => LateByLessThanTheClaim
<1>1. ASSUME Safe, [Next]_vars, NEW i \in Key
      PROVE  /\ (workflows[i].state = "approved" /\ workflows'[i].state = "claimed")
                  => clock < workflows[i].expires + CommandTtl
             /\ (workflows[i].state = "claimed" /\ workflows'[i].state = "apply_started")
                  => clock < workflows[i].expires + CommandTtl
             /\ (workflows[i].state = "apply_started"
                   /\ workflows'[i].state = "session_verified")
                  => clock < workflows[i].deadline + CommandTtl
  <2>1. CASE UNCHANGED workflows
    BY <2>1
  <2>2. ASSUME NEW p \in Worker, NEW j \in Key, NEW w \in Workflow,
               Transitions(p, j, w) \/ Claims(p, j, w) \/ Advances(p, j, w), j = i
        PROVE  /\ (workflows[i].state = "approved" /\ w.state = "claimed")
                    => clock < workflows[i].expires + CommandTtl
               /\ (workflows[i].state = "claimed" /\ w.state = "apply_started")
                    => clock < workflows[i].expires + CommandTtl
               /\ (workflows[i].state = "apply_started" /\ w.state = "session_verified")
                    => clock < workflows[i].deadline + CommandTtl
    <3> DEFINE r == worker[p].request
               c == worker[p].copy
    <3>1. Wrote(p, j, w)
      BY <2>2 DEF Transitions, Claims, Advances
    <3>2. /\ r.op \in {"claim_execution", "mark_apply_started"}
               => clock < c.expires + CommandTtl
          /\ (r.op = "verify_execution" /\ r.witness.outcome = "applied")
               => clock < c.deadline + CommandTtl
      BY <1>1, <3>1, CommitTime
    <3>3. r.op \in Operation /\ r.witness \in Witness
      BY <1>1, <3>1, BusyFacts DEF Wrote, RequestType
    <3>4. CASE Claims(p, j, w)
      BY <2>2, <3>2, <3>4 DEF Claims
    <3>5. CASE Advances(p, j, w)
      BY <2>2, <3>5 DEF Advances
    <3>6. CASE Transitions(p, j, w)
      <4>1. /\ w.state = NextState(r)
            /\ r.op \notin {"claim_execution", "publish_verified_snapshot"}
            /\ r.op # "propose" => c = workflows[i]
        BY <2>2, <3>6 DEF Transitions
      <4>2. VerifiedState(r.witness) = "session_verified" => r.witness.outcome = "applied"
        BY <3>3 DEF VerifiedState, Witness
      <4>3. w.state # "claimed"
        BY <3>3, <4>1, VerifiedStateType DEF NextState, Operation
      <4>4. w.state = "apply_started" => r.op = "mark_apply_started"
        BY <3>3, <4>1, VerifiedStateType DEF NextState, Operation
      <4>5. w.state = "session_verified" =>
              r.op = "verify_execution" /\ r.witness.outcome = "applied"
        BY <3>3, <4>1, <4>2 DEF NextState, Operation
      <4> QED BY <3>2, <4>1, <4>3, <4>4, <4>5
    <3> QED BY <2>2, <3>4, <3>5, <3>6
  <2>3. ASSUME NEW p \in Worker, NEW j \in Key, NEW w \in Workflow,
               Transitions(p, j, w) \/ Claims(p, j, w) \/ Advances(p, j, w)
        PROVE  workflows'[i] = IF j = i THEN w ELSE workflows[i]
    <3>1. Wrote(p, j, w)
      BY <2>3 DEF Transitions, Claims, Advances
    <3> QED BY <1>1, <3>1, WroteFacts
  <2> QED BY <1>1, <2>1, <2>2, <2>3, StepKinds DEF Quiet
<1>2. Safe /\ [Next]_vars =>
        [\A i \in Key :
           /\ (workflows[i].state = "approved" /\ workflows'[i].state = "claimed")
                => clock < workflows[i].expires + CommandTtl
           /\ (workflows[i].state = "claimed" /\ workflows'[i].state = "apply_started")
                => clock < workflows[i].expires + CommandTtl
           /\ (workflows[i].state = "apply_started" /\ workflows'[i].state = "session_verified")
                => clock < workflows[i].deadline + CommandTtl]_vars
  BY <1>1
<1> QED BY <1>2, Safety, PTL DEF Spec, LateByLessThanTheClaim

-----------------------------------------------------------------------------
(* The service keeps its promise: EditService implements ApprovedEdit.      *)

\* The view of a table of workflows after one of them is replaced.
LEMMA ViewFacts ==
  ASSUME NEW W \in [Key -> Workflow], NEW i \in Key, NEW w \in Workflow
  PROVE  [k \in Key |-> EditView([W EXCEPT ![i] = w][k])]
           = [[k \in Key |-> EditView(W[k])] EXCEPT ![i] = EditView(w)]
OBVIOUS

\* A write takes effect once: its key has no receipt before it and has the
\* receipt of the document it writes after it.
LEMMA WroteEffect ==
  ASSUME Safe, NEW p \in Worker, NEW r \in Request, worker[p].request = r,
         NEW i, NEW w, Wrote(p, i, w)
  PROVE  Promise!Effect(r, i, EditView(w))
<1> DEFINE key == r.key
<1>1. /\ i \in Key /\ w \in Workflow /\ key \in Key
      /\ workflows \in [Key -> Workflow] /\ workflows' = [workflows EXCEPT ![i] = w]
  BY WroteFacts DEF Wrote
<1>2. ReceiptView(commands[key]) = None
  BY WroteFacts DEF ReceiptView
<1>3. [k \in Key |-> EditView(workflows'[k])]
        = [[k \in Key |-> EditView(workflows[k])] EXCEPT ![i] = EditView(w)]
  BY <1>1, ViewFacts
<1>4. \A k \in Key : ReceiptView(commands'[k]) =
        IF k = key THEN [id |-> i, state |-> w.state, fence |-> w.fence]
                   ELSE ReceiptView(commands[k])
  <2> SUFFICES ASSUME NEW k \in Key
               PROVE  ReceiptView(commands'[k]) =
                        IF k = key THEN [id |-> i, state |-> w.state, fence |-> w.fence]
                                   ELSE ReceiptView(commands[k])
    OBVIOUS
  <2>1. CASE k # key
    BY <2>1, WroteFacts
  <2>2. CASE k = key
    <3>1. commands'[key].status = "completed" /\ commands'[key].receipt = ReceiptOf(i, w)
      BY WroteFacts
    <3>2. /\ ReceiptOf(i, w).id = i /\ ReceiptOf(i, w).state = w.state
          /\ ReceiptOf(i, w).fence = w.fence
      BY DEF ReceiptOf
    <3> QED BY <2>2, <3>1, <3>2 DEF ReceiptView
  <2> QED BY <2>1, <2>2
<1>5. EditView(w).state = w.state /\ EditView(w).fence = w.fence
  BY DEF EditView
<1> QED BY <1>1, <1>2, <1>3, <1>4, <1>5 DEF Promise!Effect

\* A row that comes or goes is a holder that comes or goes.
LEMMA HolderFacts ==
  ASSUME NEW A \in [Book -> ActiveRow], NEW b \in Book, NEW row
  PROVE  [c \in Book |-> [A EXCEPT ![b] = row][c].exec]
           = [[c \in Book |-> A[c].exec] EXCEPT ![b] = row.exec]
OBVIOUS

LEMMA QuietStutters ==
  ASSUME Safe, Quiet
  PROVE  UNCHANGED Promise!avars
<1>1. [k \in Key |-> EditView(workflows'[k])] = [k \in Key |-> EditView(workflows[k])]
  BY DEF Quiet
<1>2. [b \in Book |-> active'[b].exec] = [b \in Book |-> active[b].exec]
  BY DEF Quiet
<1>3. [k \in Key |-> ReceiptView(commands'[k])] = [k \in Key |-> ReceiptView(commands[k])]
  BY DEF Quiet, ReceiptView
<1> QED BY <1>1, <1>2, <1>3 DEF Quiet, Promise!avars

\* A record with the fields of a view is that view.
LEMMA EditIs ==
  ASSUME NEW v, NEW w,
         DOMAIN v = {"state", "binding", "exec", "fence", "required", "publication"},
         v = [x \in DOMAIN v |-> v[x]],
         v.state = w.state, v.binding = w.binding, v.exec = w.exec, v.fence = w.fence,
         v.required = w.required, v.publication = w.publication
  PROVE  v = EditView(w)
BY DEF EditView

\* How the view follows a document: as it is proposed,
LEMMA NewEdit ==
  ASSUME NEW w, w.state = "proposed", w.exec = None, w.fence = 0,
         w.required = FALSE, w.publication = 0
  PROVE  [Promise!NoEdit EXCEPT !.state = "proposed", !.binding = w.binding] = EditView(w)
<1> DEFINE v == [Promise!NoEdit EXCEPT !.state = "proposed", !.binding = w.binding]
<1>1. /\ DOMAIN v = {"state", "binding", "exec", "fence", "required", "publication"}
      /\ v = [x \in DOMAIN v |-> v[x]]
  BY DEF Promise!NoEdit
<1>2. /\ v.state = "proposed" /\ v.binding = w.binding /\ v.exec = None /\ v.fence = 0
      /\ v.required = FALSE /\ v.publication = 0
  BY DEF Promise!NoEdit
<1> HIDE DEF v
<1>3. v.required = w.required
  BY <1>2, Zenon
<1>4. v = EditView(w)
  BY <1>1, <1>2, <1>3, EditIs
<1> QED BY <1>4 DEF v

\* as its state moves,
LEMMA MovedEdit ==
  ASSUME NEW c, NEW w, w.binding = c.binding, w.exec = c.exec, w.fence = c.fence,
         w.required = c.required, w.publication = c.publication
  PROVE  [EditView(c) EXCEPT !.state = w.state] = EditView(w)
<1> DEFINE v == [EditView(c) EXCEPT !.state = w.state]
<1>1. /\ DOMAIN v = {"state", "binding", "exec", "fence", "required", "publication"}
      /\ v = [x \in DOMAIN v |-> v[x]]
  BY DEF EditView
<1>2. /\ v.state = w.state /\ v.binding = c.binding /\ v.exec = c.exec /\ v.fence = c.fence
      /\ v.required = c.required /\ v.publication = c.publication
  BY DEF EditView
<1> HIDE DEF v
<1>3. v = EditView(w)
  BY <1>1, <1>2, EditIs
<1> QED BY <1>3 DEF v

\* as it is claimed,
LEMMA HeldEdit ==
  ASSUME NEW c, NEW w, w.state = "claimed", w.binding = c.binding,
         w.publication = c.publication
  PROVE  [EditView(c) EXCEPT !.state = "claimed", !.exec = w.exec, !.fence = w.fence,
                             !.required = w.required] = EditView(w)
<1> DEFINE v == [EditView(c) EXCEPT !.state = "claimed", !.exec = w.exec, !.fence = w.fence,
                                    !.required = w.required]
<1>1. /\ DOMAIN v = {"state", "binding", "exec", "fence", "required", "publication"}
      /\ v = [x \in DOMAIN v |-> v[x]]
  BY DEF EditView
<1>2. /\ v.state = "claimed" /\ v.binding = c.binding /\ v.exec = w.exec
      /\ v.fence = w.fence /\ v.required = w.required /\ v.publication = c.publication
  BY DEF EditView
<1> HIDE DEF v
<1>3. v = EditView(w)
  BY <1>1, <1>2, EditIs
<1> QED BY <1>3 DEF v

\* and as it is published.
LEMMA PublishedEdit ==
  ASSUME NEW c, NEW w, w.state = c.state, w.binding = c.binding, w.exec = c.exec,
         w.fence = c.fence, w.required = c.required
  PROVE  [EditView(c) EXCEPT !.publication = w.publication] = EditView(w)
<1> DEFINE v == [EditView(c) EXCEPT !.publication = w.publication]
<1>1. /\ DOMAIN v = {"state", "binding", "exec", "fence", "required", "publication"}
      /\ v = [x \in DOMAIN v |-> v[x]]
  BY DEF EditView
<1>2. /\ v.state = c.state /\ v.binding = c.binding /\ v.exec = c.exec /\ v.fence = c.fence
      /\ v.required = c.required /\ v.publication = w.publication
  BY DEF EditView
<1> HIDE DEF v
<1>3. v = EditView(w)
  BY <1>1, <1>2, EditIs
<1> QED BY <1>3 DEF v

LEMMA ProposeKeeps ==
  ASSUME Safe, NEW p \in Worker, NEW r \in Request, worker[p].request = r,
         NEW i, NEW w, Transitions(p, i, w),
         r.op = "propose"
  PROVE  Promise!Propose(r)
<1> DEFINE c == worker[p].copy
<1>1. /\ Wrote(p, i, w) /\ i = r.key /\ i \in Key /\ w \in Workflow
      /\ c.binding \in Binding /\ c = Proposed(c.binding)
      /\ w = Updated(c, r, worker[p].stamp) /\ workflows[i].version = 0
      /\ worker[p].pc = "commit"
  BY DEF Transitions, Wrote, Target
<1>2. r \in Request /\ worker[p] \in WorkerState /\ CarefulOK(worker[p], commands, assets, clock)
  BY <1>1, BusyFacts
<1>3. /\ w.state = "proposed" /\ w.binding = c.binding /\ w.exec = None /\ w.fence = 0
      /\ w.required = FALSE /\ w.publication = 0
  <2>1. c \in Workflow /\ worker[p].stamp \in Nat
    BY <1>2 DEF WorkerState
  <2>2. NextState(r) = "proposed"
    BY DEF NextState
  <2>3. \A b : /\ Proposed(b).exec = None /\ Proposed(b).fence = 0
               /\ Proposed(b).required = FALSE /\ Proposed(b).publication = 0
    BY DEF Proposed, NoWorkflow
  <2>4. c.exec = None /\ c.fence = 0 /\ c.required = FALSE /\ c.publication = 0
    <3> HIDE DEF c
    <3> QED BY <1>1, <2>3
  <2> HIDE DEF c
  <2> QED BY <1>1, <1>2, <2>1, <2>2, <2>4, UpdatedType
<1>4. [Promise!NoEdit EXCEPT !.state = "proposed", !.binding = w.binding] = EditView(w)
  BY <1>3, NewEdit
<1>5. w.binding.session = r.session /\ w.binding.book \in Book /\ w.binding.rev \in Nat \ {0}
  BY <1>1, <1>2, <1>3 DEF CarefulOK, Binding
<1>6. EditView(workflows[i]).state = "absent"
  BY <1>1, AbsentFacts DEF EditView, Safe
<1>7. EditView(workflows'[i]).state = "proposed" /\ EditView(workflows'[i]).binding = w.binding
  BY <1>1, <1>3, WroteFacts DEF EditView
<1>8. active' = active /\ UNCHANGED <<fences, heads>>
  BY <1>3 DEF Transitions, ReleasesBook
<1>9. Promise!Effect(r, i, EditView(w))
  BY <1>1, WroteEffect
<1>10. Promise!KeepsBooks
  BY <1>8 DEF Promise!KeepsBooks
<1>11. /\ [k \in Key |-> EditView(workflows[k])][i] = EditView(workflows[i])
       /\ [k \in Key |-> EditView(workflows'[k])][i] = EditView(workflows'[i])
  BY <1>1
<1>12. Promise!Effect(r, i, [Promise!NoEdit EXCEPT !.state = "proposed",
                                                  !.binding = w.binding])
  BY <1>4, <1>9
<1> HIDE DEF c
<1> QED BY <1>1, <1>5, <1>6, <1>7, <1>10, <1>11, <1>12 DEF Promise!Propose

\* What a transition of an existing workflow does, in terms of the promise.
Moves(r, i, w) ==
  LET c == workflows[i]
      b == c.binding.book
      holder == [d \in Book |-> active[d].exec]
  IN
  /\ r.op \in Operation /\ r.witness \in Witness
  /\ i = r.id /\ i \in Key /\ c.binding \in Binding
  /\ SoundCopy(c, r) /\ w.required = c.required
  /\ Promise!Effect(r, i, [EditView(c) EXCEPT !.state = w.state])
  /\ RequiresActive(r) => c.exec = r.exec /\ active[b].exec = r.exec
  /\ UNCHANGED <<fences, heads>>
  /\ [d \in Book |-> active'[d].exec]
       = IF ReleasesBook(w) THEN [holder EXCEPT ![b] = None] ELSE holder

LEMMA TransitionEffect ==
  ASSUME Safe, NEW p \in Worker, NEW r \in Request, worker[p].request = r,
         NEW i, NEW w, Transitions(p, i, w),
         r.op # "propose"
  PROVE  Moves(r, i, w)
<1> DEFINE c == workflows[i]
           b == c.binding.book
           holder == [d \in Book |-> active[d].exec]
<1>1. /\ Wrote(p, i, w) /\ worker[p].pc = "commit" /\ i = r.id /\ i \in Key
      /\ c = worker[p].copy /\ c.version > 0 /\ SoundCopy(c, r)
      /\ w = Updated(c, r, worker[p].stamp)
      /\ RequiresActive(r) => ActiveMatches(i, w)
      /\ UNCHANGED <<fences, heads>>
      /\ active' = IF ReleasesBook(w) THEN [active EXCEPT ![w.binding.book] = NoActive]
                   ELSE active
  BY DEF Transitions, Wrote, Target
<1>2. /\ r \in Request /\ r.op \in Operation /\ r.witness \in Witness
      /\ worker[p] \in WorkerState /\ CarefulOK(worker[p], commands, assets, clock)
  BY <1>1, BusyFacts DEF RequestType
<1>3. c \in Workflow /\ worker[p].stamp \in Nat /\ c.binding \in Binding /\ b \in Book
  <2>1. CopyOK(worker[p]) /\ worker[p].copy \in Workflow /\ worker[p].stamp \in Nat
    BY <1>1, BusyFacts DEF WorkerState, WorkerOK
  <2> QED BY <1>1, <2>1 DEF CopyOK, Binding
<1>4. /\ w.binding = c.binding /\ w.exec = c.exec /\ w.fence = c.fence
      /\ w.required = c.required /\ w.publication = c.publication
  <2> HIDE DEF c
  <2> QED BY <1>1, <1>2, <1>3, UpdatedType
<1>5. Promise!Effect(r, i, [EditView(c) EXCEPT !.state = w.state])
  <2>1. Promise!Effect(r, i, EditView(w))
    BY <1>1, WroteEffect
  <2>2. [EditView(c) EXCEPT !.state = w.state] = EditView(w)
    BY <1>4, MovedEdit
  <2> QED BY <2>1, <2>2
<1>6. RequiresActive(r) => c.exec = r.exec /\ active[b].exec = r.exec
  <2> SUFFICES ASSUME RequiresActive(r) PROVE c.exec = r.exec /\ active[b].exec = r.exec
    OBVIOUS
  <2>1. r.op \in ExecOps
    BY DEF RequiresActive, ExecOps
  <2>2. c.exec = r.exec
    BY <1>1, <1>2, <2>1 DEF CarefulOK
  <2>3. active[b].exec = w.exec
    BY <1>1, <1>4 DEF ActiveMatches
  <2> QED BY <1>4, <2>2, <2>3
<1>7. [d \in Book |-> active'[d].exec]
        = IF ReleasesBook(w) THEN [holder EXCEPT ![b] = None] ELSE holder
  <2>1. active \in [Book -> ActiveRow] /\ NoActive.exec = None
    BY DEF Safe, Inv, TypeOK, RepositoryTypeOK, NoActive
  <2>2. CASE ReleasesBook(w)
    <3>1. active' = [active EXCEPT ![b] = NoActive]
      BY <1>1, <1>4, <2>2
    <3> HIDE DEF b
    <3> QED BY <1>3, <2>1, <2>2, <3>1, HolderFacts
  <2>3. CASE ~ ReleasesBook(w)
    BY <1>1, <2>3
  <2> QED BY <2>2, <2>3
<1> QED BY <1>1, <1>2, <1>3, <1>4, <1>5, <1>6, <1>7 DEF Moves

LEMMA TransitionKeeps ==
  ASSUME Safe, NEW p \in Worker, NEW r \in Request, worker[p].request = r,
         NEW i, NEW w, Transitions(p, i, w),
         r.op # "propose"
  PROVE  \/ Promise!Move(r, "preview", "proposed", "previewed")
         \/ Promise!Move(r, "approve", "previewed", "approved")
         \/ Promise!Move(r, "reject", "previewed", "rejected")
         \/ Promise!Start(r) \/ Promise!GiveUp(r) \/ Promise!Report(r)
<1> DEFINE c == workflows[i]
           b == c.binding.book
           edit == [k \in Key |-> EditView(workflows[k])]
           holder == [d \in Book |-> active[d].exec]
           holderNext == [d \in Book |-> active'[d].exec]
<1>0. Moves(r, i, w)
  BY TransitionEffect
<1>1. /\ r.op \in Operation /\ r.op \notin {"claim_execution", "publish_verified_snapshot"}
      /\ r.op # "propose" /\ r.witness \in Witness /\ w.state = NextState(r)
      /\ i = r.id /\ i \in Key /\ SoundCopy(c, r) /\ w.required = c.required
      /\ UNCHANGED <<fences, heads>>
  <2>1. /\ r.op \notin {"claim_execution", "publish_verified_snapshot"}
        /\ w.state = NextState(r)
    BY DEF Transitions
  <2> QED BY <1>0, <2>1 DEF Moves
<1>2. b \in Book
  BY <1>0 DEF Moves, Binding
<1>3. edit[r.id] = EditView(c)
  BY <1>1
<1>4. /\ EditView(c).state = c.state /\ EditView(c).exec = c.exec
      /\ EditView(c).binding = c.binding /\ EditView(c).required = c.required
  BY DEF EditView
<1>5. Promise!Effect(r, r.id, [edit[r.id] EXCEPT !.state = w.state])
  BY <1>0, <1>1, <1>3 DEF Moves
<1>6. RequiresActive(r) => c.exec = r.exec /\ holder[b] = r.exec
  BY <1>0, <1>2 DEF Moves
<1>7. holderNext = IF ReleasesBook(w) THEN [holder EXCEPT ![b] = None] ELSE holder
  BY <1>0 DEF Moves
<1>8. RequiresActive(r) => Promise!Holds(r)
  BY <1>3, <1>4, <1>6 DEF Promise!Holds
<1>9. ~ ReleasesBook(w) => Promise!KeepsBooks
  BY <1>1, <1>7 DEF Promise!KeepsBooks
<1> HIDE DEF edit, c, holder, holderNext
<1>10. CASE r.op \in {"preview", "approve", "reject"}
  <2>1. ~ ReleasesBook(w)
    BY <1>1, <1>10 DEF NextState, ReleasesBook
  <2>2. CASE r.op = "preview"
    <3>1. w.state = "previewed" /\ c.state = "proposed"
      BY <1>1, <2>2 DEF NextState, SoundCopy
    <3> QED BY <1>3, <1>4, <1>5, <1>9, <2>1, <2>2, <3>1 DEF Promise!Move, edit
  <2>3. CASE r.op = "approve"
    <3>1. w.state = "approved" /\ c.state = "previewed"
      BY <1>1, <2>3 DEF NextState, SoundCopy
    <3> QED BY <1>3, <1>4, <1>5, <1>9, <2>1, <2>3, <3>1 DEF Promise!Move, edit
  <2>4. CASE r.op = "reject"
    <3>1. w.state = "rejected" /\ c.state = "previewed"
      BY <1>1, <2>4 DEF NextState, SoundCopy
    <3> QED BY <1>3, <1>4, <1>5, <1>9, <2>1, <2>4, <3>1 DEF Promise!Move, edit
  <2> QED BY <1>10, <2>2, <2>3, <2>4
<1>11. CASE r.op = "mark_apply_started"
  <2>1. w.state = "apply_started" /\ c.state = "claimed" /\ ~ ReleasesBook(w)
    BY <1>1, <1>11 DEF NextState, SoundCopy, ReleasesBook
  <2>2. Promise!Holds(r)
    BY <1>8, <1>11 DEF RequiresActive
  <2> QED BY <1>3, <1>4, <1>5, <1>9, <1>11, <2>1, <2>2 DEF Promise!Start, edit
<1>12. CASE \/ r.op = "abort_claim"
            \/ r.op = "verify_execution" /\ r.witness.outcome = "stale_precondition"
  <2>1. /\ w.state = IF r.op = "abort_claim" THEN "aborted_before_apply" ELSE "stale_precondition"
        /\ c.state = "claimed" /\ ReleasesBook(w)
    BY <1>1, <1>12 DEF NextState, VerifiedState, SoundCopy, ReleasesBook
  <2>2. Promise!Holds(r)
    BY <1>8, <1>12 DEF RequiresActive
  <2>3. holderNext = [holder EXCEPT ![edit[r.id].binding.book] = None]
    BY <1>3, <1>4, <1>7, <2>1
  <2> QED BY <1>1, <1>3, <1>4, <1>5, <1>12, <2>1, <2>2, <2>3
          DEF Promise!GiveUp, edit, holder, holderNext
<1>13. CASE r.op = "verify_execution" /\ r.witness.outcome # "stale_precondition"
  <2> DEFINE good == /\ r.witness.outcome = "applied"
                     /\ r.witness.before
                     /\ r.witness.after
  <2>1. w.state = IF good THEN "session_verified"
                  ELSE IF r.witness.outcome = "indeterminate"
                       THEN "indeterminate" ELSE "verification_failed"
    BY <1>1, <1>13 DEF NextState, VerifiedState, Witness
  <2>2. c.state = "apply_started"
    BY <1>1, <1>13 DEF SoundCopy
  <2>3. Promise!Holds(r)
    BY <1>8, <1>13 DEF RequiresActive
  <2>4. ReleasesBook(w) <=> (good /\ ~ edit[r.id].required)
    BY <1>1, <1>3, <1>4, <2>1 DEF ReleasesBook
  <2>5. holderNext = IF good /\ ~ edit[r.id].required
                     THEN [holder EXCEPT ![edit[r.id].binding.book] = None] ELSE holder
    BY <1>3, <1>4, <1>7, <2>4, SMTT(30)
  <2> QED BY <1>1, <1>3, <1>4, <1>5, <1>13, <2>1, <2>2, <2>3, <2>5
          DEF Promise!Report, edit, holder, holderNext
<1> QED BY <1>1, <1>10, <1>11, <1>12, <1>13 DEF Operation

\* The claim of an execution makes it the holder under the next fence.
LEMMA ClaimKeeps ==
  ASSUME Safe, NEW p \in Worker, NEW r \in Request, worker[p].request = r,
         NEW i, NEW w, Claims(p, i, w)
  PROVE  Promise!Hold(r)
<1> DEFINE c == workflows[i]
           b == c.binding.book
           edit == [k \in Key |-> EditView(workflows[k])]
           holder == [d \in Book |-> active[d].exec]
           holderNext == [d \in Book |-> active'[d].exec]
           row == [id |-> i, exec |-> r.key, fence |-> w.fence, token |-> None, expires |-> 0]
<1>1. /\ Wrote(p, i, w) /\ i \in Key /\ i = r.id /\ r.op = "claim_execution"
      /\ c.state = "approved" /\ w.state = "claimed" /\ w.binding = c.binding
      /\ w.exec = r.key /\ w.fence = fences[b] + 1 /\ w.required = r.required
      /\ w.publication = c.publication /\ b \in Book /\ active[b] = NoActive
      /\ heads[b] \in {0, c.binding.rev} /\ active' = [active EXCEPT ![b] = row]
      /\ fences' = [fences EXCEPT ![b] = w.fence] /\ heads' = heads
  BY DEF Claims, Wrote
<1>2. active \in [Book -> ActiveRow]
  BY DEF Safe, Inv, TypeOK, RepositoryTypeOK
<1>3. edit[r.id] = EditView(c)
  BY <1>1
<1>4. /\ EditView(c).state = c.state /\ EditView(c).binding = c.binding
  BY DEF EditView
<1>5. Promise!Effect(r, r.id, [edit[r.id] EXCEPT !.state = "claimed", !.exec = r.key,
                                                 !.fence = fences[b] + 1,
                                                 !.required = r.required])
  <2>1. Promise!Effect(r, i, EditView(w))
    BY <1>1, WroteEffect
  <2>2. [EditView(c) EXCEPT !.state = "claimed", !.exec = w.exec, !.fence = w.fence,
                            !.required = w.required] = EditView(w)
    <3> HIDE DEF c, b
    <3> QED BY <1>1, HeldEdit, ZenonT(60)
  <2> HIDE DEF edit, c, b
  <2> QED BY <1>1, <1>3, <2>1, <2>2
<1>6. holder[b] = None
  <2>1. NoActive.exec = None
    BY DEF NoActive
  <2> HIDE DEF b
  <2> QED BY <1>1, <2>1
<1>7. holderNext = [holder EXCEPT ![b] = r.key]
  <2>1. row.exec = r.key
    OBVIOUS
  <2> HIDE DEF b, row
  <2> QED BY <1>1, <1>2, <2>1, HolderFacts
<1>8. edit[r.id].binding.book = b /\ edit[r.id].binding = c.binding /\ edit[r.id].state = "approved"
  BY <1>1, <1>3, <1>4
<1>9. fences' = [fences EXCEPT ![b] = fences[b] + 1]
  BY <1>1
<1> HIDE DEF edit, c, b, holder, holderNext
<1> QED BY <1>1, <1>5, <1>6, <1>7, <1>8, <1>9 DEF Promise!Hold, edit, holder, holderNext

\* A publication moves the head to the successor of the base it was made on.
LEMMA AdvanceKeeps ==
  ASSUME Safe, NEW p \in Worker, NEW r \in Request, worker[p].request = r,
         NEW i, NEW w, Advances(p, i, w)
  PROVE  Promise!Advance(r)
<1> DEFINE c == workflows[i]
           b == c.binding.book
           rev == c.binding.rev + 1
           edit == [k \in Key |-> EditView(workflows[k])]
           holder == [d \in Book |-> active[d].exec]
           holderNext == [d \in Book |-> active'[d].exec]
<1>1. /\ Wrote(p, i, w) /\ i \in Key /\ w \in Workflow /\ i = r.id
      /\ r.op = "publish_verified_snapshot" /\ worker[p].pc = "commit"
      /\ c = worker[p].copy /\ c.state = "session_verified" /\ c.required
      /\ c.publication = 0 /\ c.binding \in Binding
      /\ w = [c EXCEPT !.version = @ + 1, !.publication = rev]
      /\ w.binding = c.binding /\ w.exec = c.exec /\ w.fence = c.fence
      /\ w.publication = rev /\ w.state = c.state
      /\ ActiveMatches(i, c) /\ heads[b] \in {0, c.binding.rev}
      /\ active' = [active EXCEPT ![b] = NoActive]
      /\ heads' = [heads EXCEPT ![b] = rev] /\ fences' = fences
  BY DEF Advances, Wrote
<1>2. /\ active \in [Book -> ActiveRow] /\ c \in Workflow /\ b \in Book
  BY <1>1, SMTT(30) DEF Safe, Inv, TypeOK, RepositoryTypeOK, Binding
<1>3. w.required = c.required
  BY <1>1, <1>2 DEF Workflow
<1>4. edit[r.id] = EditView(c)
  BY <1>1
<1>5. /\ EditView(c).state = c.state /\ EditView(c).binding = c.binding
      /\ EditView(c).exec = c.exec /\ EditView(c).required = c.required
      /\ EditView(c).publication = c.publication
  BY DEF EditView
<1>6. Promise!Effect(r, r.id, [edit[r.id] EXCEPT !.publication = rev])
  <2>1. Promise!Effect(r, i, EditView(w))
    BY <1>1, WroteEffect
  <2>2. [EditView(c) EXCEPT !.publication = w.publication] = EditView(w)
    <3>1. /\ w.state = c.state /\ w.binding = c.binding /\ w.exec = c.exec
          /\ w.fence = c.fence
      BY <1>1
    <3> HIDE DEF c
    <3> QED BY <1>3, <3>1, PublishedEdit
  <2> HIDE DEF edit, c, rev
  <2> QED BY <1>1, <1>4, <2>1, <2>2
<1>7. c.exec = r.exec /\ holder[b] = r.exec
  <2>1. CarefulOK(worker[p], commands, assets, clock)
    BY <1>1, BusyFacts
  <2>2. c.exec = r.exec
    BY <1>1, <2>1, SMTT(30) DEF CarefulOK, ExecOps
  <2>3. active[b].exec = c.exec
    BY <1>1 DEF ActiveMatches
  <2> QED BY <1>2, <2>2, <2>3
<1>8. Promise!Holds(r)
  BY <1>4, <1>5, <1>7 DEF Promise!Holds
<1>9. holderNext = [holder EXCEPT ![b] = None]
  <2>1. NoActive.exec = None
    BY DEF NoActive
  <2> HIDE DEF b
  <2> QED BY <1>1, <1>2, <2>1, HolderFacts
<1>10. /\ edit[r.id].binding = c.binding /\ edit[r.id].binding.book = b
       /\ edit[r.id].state = "session_verified" /\ edit[r.id].required
       /\ edit[r.id].publication = 0
  <2> HIDE DEF c, edit
  <2> QED BY <1>1, <1>4, <1>5 DEF b
<1>11. rev = edit[r.id].binding.rev + 1
  BY <1>10
<1> HIDE DEF edit, c, b, rev, holder, holderNext
<1> QED BY <1>1, <1>6, <1>8, <1>9, <1>10, <1>11 DEF Promise!Advance, edit, holder, holderNext

\* The service implements the promise: every transaction that changes what a
\* client can see is one step of ApprovedEdit, the effect of one command under a
\* key that had none; every other step of a worker, the loss of a worker, a lapse
\* of a lease and a retry are invisible.
THEOREM Refinement == Spec => KeepsPromise
<1>1. Init => Promise!AInit
  <2> SUFFICES ASSUME Init PROVE Promise!AInit
    OBVIOUS
  <2>1. EditView(NoWorkflow) = Promise!NoEdit
    BY DEF EditView, NoWorkflow, Promise!NoEdit
  <2>2. ReceiptView(NoCommand) = None
    BY DEF ReceiptView, NoCommand
  <2>3. NoActive.exec = None
    BY DEF NoActive
  <2> QED BY <2>1, <2>2, <2>3 DEF Init, RepositoryInit, Promise!AInit
<1>2. Safe /\ [Next]_vars => [Promise!ANext]_(Promise!avars)
  <2> SUFFICES ASSUME Safe, [Next]_vars
               PROVE  Promise!ANext \/ UNCHANGED Promise!avars
    OBVIOUS
  <2>1. CASE Quiet
    BY <2>1, QuietStutters
  <2>2. ASSUME NEW p \in Worker, NEW i \in Key, NEW w \in Workflow,
               Transitions(p, i, w) \/ Claims(p, i, w) \/ Advances(p, i, w)
        PROVE  Promise!ANext
    <3>1. PICK r \in Request : worker[p].request = r
      BY <2>2, BusyFacts DEF Transitions, Claims, Advances, Wrote
    <3>2. \/ Promise!Propose(r)
          \/ Promise!Move(r, "preview", "proposed", "previewed")
          \/ Promise!Move(r, "approve", "previewed", "approved")
          \/ Promise!Move(r, "reject", "previewed", "rejected")
          \/ Promise!Hold(r) \/ Promise!Start(r) \/ Promise!GiveUp(r)
          \/ Promise!Report(r) \/ Promise!Advance(r)
      BY <2>2, <3>1, ProposeKeeps, TransitionKeeps, ClaimKeeps, AdvanceKeeps
    <3> QED BY <3>2, Zenon DEF Promise!ANext
  <2> QED BY <2>1, <2>2, StepKinds
<1> QED BY <1>1, <1>2, Safety, PTL DEF Spec, KeepsPromise, Promise!ASpec

===============================================================================
