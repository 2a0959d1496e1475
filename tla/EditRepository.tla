--------------------------- MODULE EditRepository ---------------------------
(***************************************************************************)
(* The durable repository of workbook edits                                *)
(* (audit/workbook_edit_sqlite.py): five tables, each write operation one  *)
(* BEGIN IMMEDIATE transaction, so one atomic action over the tables.      *)
(*                                                                         *)
(*   commands          idempotency key |-> pending claim or receipt        *)
(*   workflows         workflow id     |-> the versioned document          *)
(*   active_workbooks  live workbook   |-> the execution that holds it     *)
(*   workbook_fences   live workbook   |-> last fencing token issued       *)
(*   snapshot_heads    live workbook   |-> last published revision         *)
(*                                                                         *)
(* A key is a (tenant, subject, Idempotency-Key) triple.  The ids of a     *)
(* workflow and of an execution are digests of the key of the command that *)
(* creates them (_derived_id), so the key itself stands for either.  A     *)
(* live workbook is a (tenant, workbook_instance_id) pair.  The edit       *)
(* documents are abstracted to the fields the transitions read.            *)
(*                                                                         *)
(* A definition named Fault... is a plausible bug in the definition that   *)
(* follows it; the runs must detect it when it takes that one's place.     *)
(***************************************************************************)
EXTENDS Integers

CONSTANTS
  Key,          \* idempotency keys clients use
  Token,        \* claim tokens (secrets.token_hex), one per command begun
  Book,         \* live workbooks
  Session,      \* Office sessions
  Request,      \* the commands clients may send, any number of times
  None,         \* SQL NULL / Python None
  CommandTtl,   \* command_claim_ttl_seconds
  MaxClock      \* bound on the clock

Operation == {"propose", "preview", "approve", "reject", "claim_execution",
              "mark_apply_started", "abort_claim", "verify_execution",
              "publish_verified_snapshot"}

\* outcome and the two comparisons of a verify_execution witness.
Witness == [outcome : {"applied", "stale_precondition", "indeterminate"},
            before  : BOOLEAN,
            after   : BOOLEAN]

(***************************************************************************)
(* A request is the whole command: its digest is equality of records.      *)
(* id names the workflow, exec the execution; session is read by propose   *)
(* and by claim_execution, required by claim_execution and witness by      *)
(* verify_execution (other commands leave them at a default).              *)
(***************************************************************************)
RequestType == [key : Key, op : Operation, id : Key, session : Session,
                exec : Key \cup {None}, required : BOOLEAN, witness : Witness]

ASSUME RequestAssumption == Request \subseteq RequestType
ASSUME NoneAssumption    == None \notin Key \cup Token \cup Book \cup Session
ASSUME TtlAssumption     == CommandTtl \in Nat \ {0}
ASSUME ClockAssumption   == MaxClock \in Nat \ {0}

VARIABLES
  commands,   \* [Key -> CommandRow]
  workflows,  \* [Key -> Workflow]
  active,     \* [Book -> ActiveRow]
  fences,     \* [Book -> Nat]
  heads,      \* [Book -> Nat], 0 when the table has no row
  clock       \* the service and the repository read the same clock

tables == <<commands, workflows, active, fences, heads>>

-----------------------------------------------------------------------------
(* Rows.  0 stands for a number, a time or a revision that is not set.      *)

WorkflowState ==
  {"absent", "proposed", "previewed", "approved", "rejected", "claimed",
   "apply_started", "session_verified", "verification_failed",
   "indeterminate", "stale_precondition", "aborted_before_apply"}

Binding == [session : Session, book : Book, rev : Nat]

Workflow ==
  [state : WorkflowState, version : Nat, binding : Binding \cup {None},
   expires : Nat, consumed : BOOLEAN, exec : Key \cup {None}, fence : Nat,
   deadline : Nat, required : BOOLEAN, publication : Nat]

NoWorkflow ==
  [state |-> "absent", version |-> 0, binding |-> None, expires |-> 0,
   consumed |-> FALSE, exec |-> None, fence |-> 0, deadline |-> 0,
   required |-> FALSE, publication |-> 0]

Receipt == [id : Key, state : WorkflowState, version : Nat, fence : Nat]

CommandRow ==
  [status : {"absent", "pending", "completed"}, request : Request \cup {None},
   token : Token \cup {None}, expires : Nat, receipt : Receipt \cup {None}]

NoCommand == [status |-> "absent", request |-> None, token |-> None,
              expires |-> 0, receipt |-> None]

ActiveRow == [id : Key \cup {None}, exec : Key \cup {None}, fence : Nat,
              token : Token \cup {None}, expires : Nat]

NoActive == [id |-> None, exec |-> None, fence |-> 0,
             token |-> None, expires |-> 0]

RepositoryTypeOK ==
  /\ commands \in [Key -> CommandRow]
  /\ workflows \in [Key -> Workflow]
  /\ active \in [Book -> ActiveRow]
  /\ fences \in [Book -> Nat]
  /\ heads \in [Book -> Nat]
  /\ clock \in Nat

RepositoryInit ==
  /\ commands = [k \in Key |-> NoCommand]
  /\ workflows = [k \in Key |-> NoWorkflow]
  /\ active = [b \in Book |-> NoActive]
  /\ fences = [b \in Book |-> 0]
  /\ heads = [b \in Book |-> 0]
  /\ clock = 1

-----------------------------------------------------------------------------
(* Guards and updates the transactions share.                               *)

\* A claim lease is over at its expiry, not after it.
Lapsed(expires) == expires <= clock

\* The expiry of the claim is not checked again.
FaultHoldsForEver(r, t) ==
  /\ commands[r.key].status = "pending"
  /\ commands[r.key].request = r
  /\ commands[r.key].token = t

\* _require_command_claim
HoldsCommand(r, t) ==
  /\ commands[r.key].status = "pending"
  /\ commands[r.key].request = r
  /\ commands[r.key].token = t
  /\ ~ Lapsed(commands[r.key].expires)

ReceiptOf(i, w) ==
  [id |-> i, state |-> w.state, version |-> w.version, fence |-> w.fence]

\* The row is deleted with its claim, so the key can be used again.
FaultForget(r, i, w) == commands' = [commands EXCEPT ![r.key] = NoCommand]

\* _complete_command
CompleteCommand(r, i, w) ==
  commands' = [commands EXCEPT ![r.key] =
                 [status |-> "completed", request |-> r, token |-> None,
                  expires |-> 0, receipt |-> ReceiptOf(i, w)]]

\* Any revision that has been published is taken for the head.
FaultAnyHead(b) == heads[b.book] >= 0

\* _assert_snapshot_head: no row accepts every binding.
HeadIs(b) == heads[b.book] \in {0, b.rev}

\* _active_matches, on the row of the workflow's own workbook
ActiveMatches(i, w) ==
  /\ active[w.binding.book].id = i
  /\ active[w.binding.book].exec = w.exec
  /\ active[w.binding.book].fence = w.fence

-----------------------------------------------------------------------------
(* Transactions.  Each is TRUE of the steps that commit; a transaction      *)
(* whose guard fails rolls back and raises, which changes no table.         *)

\* A lapsed claim is not taken over.
FaultNoTakeover(r, t) ==
  /\ commands[r.key].status = "absent"
  /\ commands' = [commands EXCEPT ![r.key] =
                    [status |-> "pending", request |-> r, token |-> t,
                     expires |-> clock + CommandTtl, receipt |-> None]]
  /\ UNCHANGED <<workflows, active, fences, heads>>

\* claim_command: the two branches that write.  A completed command, a live
\* claim of the same command, and another command under the key are answered
\* without a write.
ClaimCommand(r, t) ==
  /\ \/ commands[r.key].status = "absent"
     \/ /\ commands[r.key].status = "pending"
        /\ commands[r.key].request = r
        /\ Lapsed(commands[r.key].expires)
  /\ commands' = [commands EXCEPT ![r.key] =
                    [status |-> "pending", request |-> r, token |-> t,
                     expires |-> clock + CommandTtl, receipt |-> None]]
  /\ UNCHANGED <<workflows, active, fences, heads>>

\* abort_command
AbortCommand(r, t) ==
  /\ HoldsCommand(r, t)
  /\ commands' = [commands EXCEPT ![r.key] = NoCommand]
  /\ UNCHANGED <<workflows, active, fences, heads>>

\* Only the existence of the workflow is compared.
FaultNoSwap(i, expected) == (workflows[i].version = 0) <=> (expected = 0)

\* The compare-and-swap of publish_transition.  expected = 0 is
\* expected_version None: the workflow must not exist.
VersionIs(i, expected) == workflows[i].version = expected

\* publish_transition
CanPublishTransition(r, t, i, expected, w, requireActive) ==
  /\ HoldsCommand(r, t)
  /\ VersionIs(i, expected)
  /\ expected # 0 => workflows[i].binding = w.binding
  /\ requireActive => ActiveMatches(i, w)

PublishTransition(r, i, w, release) ==
  /\ workflows' = [workflows EXCEPT ![i] = w]
  /\ active' = IF release
               THEN [active EXCEPT ![w.binding.book] = NoActive]
               ELSE active
  /\ CompleteCommand(r, i, w)
  /\ UNCHANGED <<fences, heads>>

\* active_workbooks has one row per live workbook.
NoActiveRow(b) == active[b] = NoActive

\* The counter starts again once the row of the workbook is gone.
FaultFenceRestarts(b) == active[b].fence + 1

FaultFenceDecreases(b) == fences[b] - 1

NextFence(b) == fences[b] + 1

\* claim_execution
CanClaimExecution(r, t, i, expected) ==
  /\ HoldsCommand(r, t)
  /\ VersionIs(i, expected)
  /\ HeadIs(workflows[i].binding)
  /\ NoActiveRow(workflows[i].binding.book)

\* The claim does not count as a version.
FaultClaimSameVersion(i, exec, required) ==
  [workflows[i] EXCEPT !.state = "claimed", !.consumed = TRUE, !.exec = exec,
                       !.fence = NextFence(workflows[i].binding.book),
                       !.required = required]

ClaimedWorkflow(i, exec, required) ==
  [workflows[i] EXCEPT !.state = "claimed",
                       !.version = @ + 1,
                       !.consumed = TRUE,
                       !.exec = exec,
                       !.fence = NextFence(workflows[i].binding.book),
                       !.required = required]

ClaimExecution(r, i, exec, required) ==
  LET w == ClaimedWorkflow(i, exec, required)
      b == w.binding.book
  IN  /\ workflows' = [workflows EXCEPT ![i] = w]
      /\ active' = [active EXCEPT ![b] =
                      [id |-> i, exec |-> exec, fence |-> w.fence,
                       token |-> None, expires |-> 0]]
      /\ fences' = [fences EXCEPT ![b] = w.fence]
      /\ CompleteCommand(r, i, w)
      /\ UNCHANGED heads

\* claim_snapshot_publication: the basis it re-reads, and the claim it takes.
PublicationBasis(i, exec, fence) ==
  /\ workflows[i].state = "session_verified"
  /\ workflows[i].exec = exec
  /\ workflows[i].fence = fence
  /\ workflows[i].publication = 0
  /\ ActiveMatches(i, workflows[i])

\* A publication claim is never taken over.
FaultClaimForEver(b) == active[b].token = None

PublicationClaimFree(b) ==
  \/ active[b].token = None
  \/ Lapsed(active[b].expires)

CanClaimPublication(i, exec, fence, expires) ==
  /\ ~ Lapsed(expires)
  /\ PublicationBasis(i, exec, fence)
  /\ PublicationClaimFree(workflows[i].binding.book)

ClaimPublication(i, t, expires) ==
  /\ active' = [active EXCEPT ![workflows[i].binding.book].token = t,
                              ![workflows[i].binding.book].expires = expires]
  /\ UNCHANGED <<commands, workflows, fences, heads>>

\* release_snapshot_publication
ReleasePublication(i, exec, fence, t) ==
  LET b == workflows[i].binding.book
  IN  /\ active[b].id = i
      /\ active[b].exec = exec
      /\ active[b].fence = fence
      /\ active[b].token = t
      /\ active' = [active EXCEPT ![b].token = None, ![b].expires = 0]
      /\ UNCHANGED <<commands, workflows, fences, heads>>

\* The publication claim a publisher must still hold when it commits.
HoldsPublicationClaim(b, t) ==
  /\ active[b].token = t
  /\ ~ Lapsed(active[b].expires)

\* publish_snapshot
CanPublishSnapshot(r, t, i, expected, exec, fence) ==
  /\ HoldsCommand(r, t)
  /\ VersionIs(i, expected)
  /\ PublicationBasis(i, exec, fence)
  /\ HoldsPublicationClaim(workflows[i].binding.book, t)
  /\ HeadIs(workflows[i].binding)

PublishSnapshot(r, i, rev) ==
  LET w == [workflows[i] EXCEPT !.version = @ + 1, !.publication = rev]
      b == w.binding.book
  IN  /\ workflows' = [workflows EXCEPT ![i] = w]
      /\ heads' = [heads EXCEPT ![b] = rev]
      /\ active' = [active EXCEPT ![b] = NoActive]
      /\ CompleteCommand(r, i, w)
      /\ UNCHANGED fences
=============================================================================
