---------------------------- MODULE OfficeExecutor ----------------------------
(***************************************************************************)
(* The Office add-in that carries out an approved edit in a live workbook  *)
(* (office-addin/src), composed with what the edit service promises        *)
(* (ApprovedEdit), a network that loses, delays and repeats its calls, and *)
(* coauthors who change and save the same workbook.                        *)
(*                                                                         *)
(*   load ; claim ; read ; start ; read again ; write ; read back ;        *)
(*   verify ; save ; publish                                               *)
(*                                                                         *)
(* Every arrow is an await: a copy of a call may reach the service after   *)
(* the pane has given up on it, and Office has no compare-and-set.         *)
(***************************************************************************)
EXTENDS ApprovedEdit, Sequences, FiniteSets

CONSTANTS
  Pane,                \* task panes open on the workbooks
  Edit,                \* approved edits, a subset of Key
  Required,            \* persistence_policy = "required": save and publish
  Base,                \* content the edits were approved on
  Other,               \* what a coauthor types
  MaxNetworkAttempts,  \* maxNetworkAttempts
  MaxActions,          \* bound on the executions the users start
  MaxChanges           \* bound on the changes and saves of coauthors

\* The calls of an execution, by the stage in their key, and what they are
\* answered; the names of contracts.ts.
Stages == {"claim", "start", "abort", "applied", "indeterminate", "stale_precondition", "publish"}
EditStates == {"approved", "claimed", "apply_started", "aborted_before_apply",
               "stale_precondition", "session_verified", "indeterminate", "verification_failed"}
Codes == {"COMMAND_IN_PROGRESS", "SERVICE_UNAVAILABLE", "RETRY_FORBIDDEN", "REJECTED",
          "ACTIVE_EXECUTION_CONFLICT", "EXECUTION_LEASE_EXPIRED", "NETWORK_UNAVAILABLE"}
Witnesses == [outcome : Stages, before : BOOLEAN, after : BOOLEAN]
Commands == [op : {"claim_execution", "mark_apply_started", "abort_claim", "verify_execution",
                   "publish_verified_snapshot"},
             key : Key, id : Edit, session : Session, exec : Key \cup {None},
             required : BOOLEAN, witness : Witnesses \cup {None}]
Replies == [ok : BOOLEAN, state : EditStates \cup {None}, code : Codes \cup {None}]
Receipts == [id : Edit, state : EditStates, fence : Nat]

ASSUME OfficeAssumption ==
  /\ Edit \subseteq Key /\ (1..MaxActions) \X Stages \subseteq Key
  /\ {} \notin {Book, Session, Edit}
  /\ Required \in BOOLEAN
  /\ {MaxNetworkAttempts, MaxActions} \subseteq Nat \ {0} /\ MaxChanges \in Nat

ASSUME NothingAssumption ==
  /\ None \notin Key /\ None \notin Stages \cup EditStates \cup {"done", "failed"}
  /\ None \notin Commands /\ None \notin Replies /\ None \notin Receipts

VARIABLES
  cells,    \* [Book -> what the approved cells hold in the live workbook]
  saved,    \* [Book -> contents of its saved revisions, the base first]
  written,  \* [Edit -> number of times its changes were written]
  pane,     \* [Pane -> the user action a task pane carries out]
  wire,     \* copies of calls on their way to the service
  actions, changes

live == <<cells, saved, written, changes>>
officeVars == <<avars, live, pane, wire, actions>>

\* loaded is the state the pane shows of edit id, request the call it waits
\* for in its n-th attempt, reply the answer to that attempt, after what the
\* cells held when they were read back.
Idle == [pc |-> "idle", loaded |-> None, id |-> None, action |-> 0, exec |-> None,
         request |-> None, n |-> 0, reply |-> None, outcome |-> None,
         after |-> None, result |-> None]

Binding == [session |-> CHOOSE s \in Session : TRUE, book |-> CHOOSE b \in Book : TRUE,
            rev |-> 1]

Init ==
  /\ edit = [k \in Key |-> IF k \in Edit
                           THEN [NoEdit EXCEPT !.state = "approved", !.binding = Binding]
                           ELSE NoEdit]
  /\ holder = [b \in Book |-> None] /\ fence = [b \in Book |-> 0]
  /\ head = [b \in Book |-> 0] /\ receipts = [k \in Key |-> None]
  /\ cells = [b \in Book |-> Base] /\ saved = [b \in Book |-> <<Base>>]
  /\ written = [i \in Edit |-> 0]
  /\ pane = [p \in Pane |-> Idle] /\ wire = {} /\ actions = 0 /\ changes = 0

BookOf(p) == edit[pane[p].id].binding.book
Goto(p, pc) == pane' = [pane EXCEPT ![p].pc = pc]

\* The end of a user action.  Every failure makes the pane forget its workflow;
\* an uncertain one tells the user not to execute the edit again.
Settle(p, result) ==
  pane' = [pane EXCEPT ![p] = [Idle EXCEPT !.id = pane[p].id, !.exec = pane[p].exec,
                                           !.result = result]]
Finish(p, shown) ==
  pane' = [pane EXCEPT ![p] = [Idle EXCEPT !.id = pane[p].id, !.exec = pane[p].exec,
                                           !.result = "done", !.loaded = shown]]

-----------------------------------------------------------------------------
(* The service and the network.                                             *)

\* The saved bytes are those of the direct successor of the base, and hold
\* every approved cell.
SaveFits(i) ==
  LET w == edit[i].binding
  IN Len(saved[w.book]) > w.rev /\ saved[w.book][w.rev + 1] = i

Perform(r) ==
  \/ Hold(r) \/ Start(r) \/ GiveUp(r) \/ Report(r)
  \/ SaveFits(r.id) /\ Advance(r)

Ok(state) == [ok |-> TRUE, state |-> state, code |-> None]
Refused(code) == [ok |-> FALSE, state |-> None, code |-> code]

\* The refusals of a call: a binding or an expiry the promise does not show
\* ("REJECTED": any other 4xx), a state the command is not for, a repository
\* that fails, another copy of the call still at work.
Refusals(r) ==
  LET s == edit[r.id].state
      wrong == CASE r.op = "claim_execution" -> s # "approved"
                 [] r.op = "publish_verified_snapshot" -> s # "session_verified"
                 [] r.op = "verify_execution" ->
                      s # IF r.witness.outcome = "stale_precondition" THEN "claimed"
                                                                      ELSE "apply_started"
                 [] OTHER -> s # "claimed"
  IN {"COMMAND_IN_PROGRESS", "SERVICE_UNAVAILABLE"}
     \cup (IF wrong THEN {"RETRY_FORBIDDEN"} ELSE {})
     \cup (IF r.op \in {"abort_claim", "verify_execution"} THEN {} ELSE {"REJECTED"})
     \cup (IF r.op = "claim_execution" /\ holder[edit[r.id].binding.book] # None
           THEN {"ACTIVE_EXECUTION_CONFLICT"} ELSE {})
     \cup (IF r.op = "verify_execution" /\ r.witness.outcome = "applied" /\ ~ wrong
           THEN {"EXECUTION_LEASE_EXPIRED"} ELSE {})

\* The answer to copy m reaches the pane only if it still waits for that
\* attempt.
Answer(m, reply) ==
  /\ wire' = wire \ {m}
  /\ pane' = IF pane[m.to].request = m.request /\ pane[m.to].n = m.n
             THEN [pane EXCEPT ![m.to].reply = reply] ELSE pane
  /\ UNCHANGED <<live, actions>>

\* A copy is served at any later time, or stays on the wire: it is lost.  A call
\* takes effect, or its key is answered with its receipt, or refused.
Serve(m) ==
  /\ m \in wire
  /\ \/ /\ Perform(m.request)
        /\ Answer(m, Ok(edit'[m.request.id].state))
     \/ /\ receipts[m.request.key] # None
        /\ Answer(m, Ok(receipts[m.request.key].state))
        /\ UNCHANGED avars
     \/ /\ receipts[m.request.key] = None
        /\ \E code \in Refusals(m.request) : Answer(m, Refused(code))
        /\ UNCHANGED avars

Witness(outcome, same) == [outcome |-> outcome, before |-> outcome # "stale_precondition",
                           after |-> same]

\* The idempotency key of a call names its stage and the user action.
Request0(p, op, stage, witness) ==
  [op |-> op, key |-> <<pane[p].action, stage>>, id |-> pane[p].id,
   session |-> edit[pane[p].id].binding.session, exec |-> pane[p].exec,
   required |-> Required, witness |-> witness]

Call(p, pc, r) ==
  /\ pane' = [pane EXCEPT ![p].pc = pc, ![p].request = r, ![p].n = 1, ![p].reply = None]
  /\ wire' = wire \cup {[to |-> p, request |-> r, n |-> 1]}

\* fetch failed: the same call again, under the same key.
NetworkRetry(p) ==
  /\ pane[p].request # None /\ pane[p].n < MaxNetworkAttempts
  /\ \/ pane[p].reply = None
     \/ pane[p].pc = "publish" /\ pane[p].reply \in
          {Refused("COMMAND_IN_PROGRESS"), Refused("SERVICE_UNAVAILABLE")}
  /\ pane' = [pane EXCEPT ![p].n = @ + 1, ![p].reply = None]
  /\ wire' = wire \cup {[to |-> p, request |-> pane[p].request, n |-> pane[p].n + 1]}
  /\ UNCHANGED <<avars, live, actions>>

\* What a call came to: its answer, or none to the last attempt.
Answered(p, pc) ==
  /\ pane[p].pc = pc
  /\ pane[p].reply # None \/ pane[p].n = MaxNetworkAttempts
  /\ UNCHANGED <<avars, live, wire, actions>>
Reply(p) == IF pane[p].reply # None THEN pane[p].reply ELSE Refused("NETWORK_UNAVAILABLE")
Proceed(p, pc) == pane' = [pane EXCEPT ![p].pc = pc, ![p].request = None, ![p].n = 0, ![p].reply = None]

ClientError == {"REJECTED", "RETRY_FORBIDDEN", "COMMAND_IN_PROGRESS",
                "ACTIVE_EXECUTION_CONFLICT", "EXECUTION_LEASE_EXPIRED"}

-----------------------------------------------------------------------------
(* The actions of a task pane.                                              *)

\* loadWorkflow
LoadWorkflow(p, i) ==
  /\ pane[p].pc = "idle"
  /\ pane' = [pane EXCEPT ![p] = [Idle EXCEPT !.id = i, !.loaded = edit[i].state]]
  /\ UNCHANGED <<avars, live, wire, actions>>

\* executeEdit: a new client, hence a new scope of keys.  A verified edit whose
\* snapshot is due is only published.
ExecuteEdit(p) ==
  /\ pane[p].pc = "idle" /\ actions < MaxActions
  /\ \/ pane[p].loaded \in {"approved", "claimed"}
     \/ pane[p].loaded = "session_verified" /\ Required
  /\ pane' = [pane EXCEPT ![p] = [Idle EXCEPT
       !.pc = IF pane[p].loaded = "session_verified" THEN "resume" ELSE "workflow",
       !.id = pane[p].id, !.action = actions + 1,
       !.exec = IF pane[p].loaded = "session_verified" THEN edit[pane[p].id].exec ELSE None]]
  /\ actions' = actions + 1
  /\ UNCHANGED <<avars, live, wire>>

\* The workflow is fetched again before the claim.
Claim(p) ==
  /\ pane[p].pc = "workflow"
  /\ IF edit[pane[p].id].state \in {"approved", "claimed"}
     THEN Call(p, "claim", Request0(p, "claim_execution", "claim", None))
     ELSE Settle(p, "failed") /\ UNCHANGED wire
  /\ UNCHANGED <<avars, live, actions>>

WorkflowUnavailable(p) ==
  pane[p].pc \in {"workflow", "resume"} /\ Settle(p, "failed") /\ UNCHANGED <<avars, live, wire, actions>>

DefiniteClaimRejection(code) ==
  code \in ClientError \ {"ACTIVE_EXECUTION_CONFLICT", "COMMAND_IN_PROGRESS", "RETRY_FORBIDDEN"}

Claimed(p) ==
  /\ Answered(p, "claim")
  /\ CASE Reply(p).ok -> pane' = [pane EXCEPT ![p] = [Idle EXCEPT !.pc = "read",
                           !.id = pane[p].id, !.action = pane[p].action,
                           !.exec = pane[p].request.key]]
       [] ~ Reply(p).ok /\ DefiniteClaimRejection(Reply(p).code) -> Settle(p, "failed")
       [] OTHER -> Settle(p, "uncertain")

Abort(p) == Call(p, "abort", Request0(p, "abort_claim", "abort", None))

\* The cells are read before the start is asked for.  Cells that differ from
\* the approved ones are reported, unless the report is too large.
ReadBefore(p) ==
  /\ pane[p].pc = "read"
  /\ IF cells[BookOf(p)] = Base
     THEN Call(p, "start", Request0(p, "mark_apply_started", "start", None))
     ELSE \/ Goto(p, "witness") /\ UNCHANGED wire
          \/ Settle(p, "failed") /\ UNCHANGED wire
  /\ UNCHANGED <<avars, live, actions>>

BeforeWriteError(p) == pane[p].pc = "read" /\ Abort(p) /\ UNCHANGED <<avars, live, actions>>

DefiniteStartRejection(code) ==
  code \in ClientError \ {"COMMAND_IN_PROGRESS", "RETRY_FORBIDDEN"}

\* A network that gave no answer is taken for a start.
FaultStartAssumed(p) ==
  /\ Answered(p, "start") /\ (Reply(p).ok \/ Reply(p).code = "NETWORK_UNAVAILABLE")
  /\ Proceed(p, "reread")
StartConfirmed(p) == Answered(p, "start") /\ Reply(p).ok /\ Proceed(p, "reread")

StartRejected(p) ==
  /\ pane[p].pc = "start" /\ pane[p].reply # None /\ ~ Reply(p).ok
  /\ DefiniteStartRejection(Reply(p).code)
  /\ Abort(p) /\ UNCHANGED <<avars, live, actions>>

StartConfirmationError(p) ==
  /\ Answered(p, "start") /\ ~ Reply(p).ok /\ ~ DefiniteStartRejection(Reply(p).code)
  /\ Settle(p, "uncertain")

\* Any failure from here on, and any reading after the deadline, is reported
\* as a write of unknown outcome.
Indeterminate(p) ==
  pane' = [pane EXCEPT ![p].pc = "witness", ![p].outcome = "indeterminate"]

\* The second reading, after the round trip of the start.
ReadAgain(p) ==
  /\ pane[p].pc = "reread"
  /\ \/ cells[BookOf(p)] = Base /\ Goto(p, "write")
     \/ Indeterminate(p)
  /\ UNCHANGED <<avars, live, wire, actions>>

\* applyChanges and sync; a sync that fails may have written.
ApplyChanges(p) ==
  /\ pane[p].pc = "write"
  /\ \/ /\ cells' = [cells EXCEPT ![BookOf(p)] = pane[p].id]
        /\ written' = [written EXCEPT ![pane[p].id] = @ + 1]
        /\ Goto(p, "readback") \/ Indeterminate(p)
     \/ Indeterminate(p) /\ UNCHANGED <<cells, written>>
  /\ UNCHANGED <<avars, saved, changes, wire, actions>>

ReadAfter(p) ==
  /\ pane[p].pc = "readback"
  /\ \/ pane' = [pane EXCEPT ![p].pc = "witness", ![p].outcome = "applied",
                             ![p].after = cells[BookOf(p)]]
     \/ Indeterminate(p)
  /\ UNCHANGED <<avars, live, wire, actions>>

Verify(p, outcome) ==
  Call(p, outcome, Request0(p, "verify_execution", outcome,
    Witness(outcome, outcome = "applied" /\ pane[p].after = pane[p].id)))

\* A witness above the size limit of the service shrinks to an indeterminate
\* one, or ends the action where that is too large as well.
ReportWitness(p) ==
  /\ pane[p].pc = "witness"
  /\ CASE pane[p].outcome = None -> Verify(p, "stale_precondition")
       [] pane[p].outcome = "applied" -> \/ Verify(p, "applied")
                                         \/ Verify(p, "indeterminate")
       [] OTHER -> Verify(p, "indeterminate")
  /\ UNCHANGED <<avars, live, actions>>

WitnessTooLarge(p) ==
  /\ pane[p].pc = "witness" /\ pane[p].outcome # None
  /\ Settle(p, "uncertain") /\ UNCHANGED <<avars, live, wire, actions>>

\* The verdict of the service ends the action, or lets the pane save: it must
\* where the policy requires it and the user may choose to elsewhere.
Verified(p) ==
  \E outcome \in {"applied", "indeterminate", "stale_precondition"} :
    /\ Answered(p, outcome) /\ Reply(p).ok
    /\ \/ Reply(p).state = "session_verified" /\ Proceed(p, "save")
       \/ ~ (Reply(p).state = "session_verified" /\ Required) /\ Finish(p, Reply(p).state)

\* A report that comes after the deadline is made again, as indeterminate.
LeaseExpired(p) ==
  /\ pane[p].pc = "applied" /\ pane[p].reply = Refused("EXECUTION_LEASE_EXPIRED")
  /\ Verify(p, "indeterminate") /\ UNCHANGED <<avars, live, actions>>

VerificationFails(p) ==
  \E outcome \in {"applied", "indeterminate", "stale_precondition"} :
    /\ Answered(p, outcome) /\ ~ Reply(p).ok
    /\ ~ (outcome = "applied" /\ Reply(p).code = "EXECUTION_LEASE_EXPIRED")
    /\ Settle(p, IF outcome = "stale_precondition" THEN "failed" ELSE "uncertain")

\* abortClaim: the failure is an ordinary one only if the claim was given back.
Aborted(p) ==
  Answered(p, "abort") /\ Settle(p, IF Reply(p).ok THEN "failed" ELSE "uncertain")

\* Saving what the workbook holds; a failed save may have saved.
Save(p) ==
  /\ pane[p].pc = "save"
  /\ \/ /\ saved' = [saved EXCEPT ![BookOf(p)] = Append(@, cells[BookOf(p)])]
        /\ \/ Required /\ Call(p, "publish", Request0(p, "publish_verified_snapshot", "publish", None))
           \/ ~ Required /\ Finish(p, "session_verified") /\ UNCHANGED wire
           \/ Settle(p, "uncertain") /\ UNCHANGED wire
     \/ Settle(p, "uncertain") /\ UNCHANGED <<saved, wire>>
  /\ UNCHANGED <<avars, cells, written, changes, actions>>

\* A publication nobody confirmed is looked up and never made again.
Published(i) == edit[i].publication > 0

PublicationAnswered(p) ==
  /\ Answered(p, "publish")
  /\ CASE Reply(p).ok -> Finish(p, "session_verified")
       [] ~ Reply(p).ok /\ Reply(p).code \in
            {"COMMAND_IN_PROGRESS", "SERVICE_UNAVAILABLE", "NETWORK_UNAVAILABLE"} ->
            pane[p].n = MaxNetworkAttempts /\ Proceed(p, "lookup")
       [] OTHER -> Settle(p, "uncertain")

Lookup(p) ==
  /\ pane[p].pc = "lookup"
  /\ IF Published(pane[p].id) THEN Finish(p, "session_verified") \/ Settle(p, "uncertain")
     ELSE Settle(p, "uncertain")
  /\ UNCHANGED <<avars, live, wire, actions>>

\* A pane that was opened again looks first, and never saves again.
Resume(p) ==
  /\ pane[p].pc = "resume"
  /\ IF Published(pane[p].id) THEN Finish(p, "session_verified") /\ UNCHANGED wire
     ELSE Call(p, "publish", Request0(p, "publish_verified_snapshot", "publish", None))
  /\ UNCHANGED <<avars, live, actions>>

\* The task pane is closed and opened again.
Close(p) ==
  /\ pane[p].pc # "idle"
  /\ pane' = [pane EXCEPT ![p] = Idle]
  /\ UNCHANGED <<avars, live, wire, actions>>

-----------------------------------------------------------------------------
(* Coauthors.                                                               *)

Coauthor(b) ==
  /\ changes < MaxChanges /\ changes' = changes + 1
  /\ \/ \E x \in {Base, Other} : cells[b] # x /\ cells' = [cells EXCEPT ![b] = x] /\ UNCHANGED saved
     \/ saved' = [saved EXCEPT ![b] = Append(@, cells[b])] /\ UNCHANGED cells
  /\ UNCHANGED <<avars, written, pane, wire, actions>>

PaneStep(p) ==
  \/ Claim(p) \/ WorkflowUnavailable(p) \/ Claimed(p) \/ ReadBefore(p) \/ BeforeWriteError(p)
  \/ StartConfirmed(p) \/ StartRejected(p) \/ StartConfirmationError(p) \/ ReadAgain(p)
  \/ ApplyChanges(p) \/ ReadAfter(p) \/ ReportWitness(p) \/ WitnessTooLarge(p)
  \/ Verified(p) \/ LeaseExpired(p) \/ VerificationFails(p) \/ Aborted(p)
  \/ Save(p) \/ PublicationAnswered(p) \/ Lookup(p) \/ Resume(p)
  \/ NetworkRetry(p)

Next ==
  \/ \E p \in Pane : PaneStep(p) \/ ExecuteEdit(p) \/ Close(p)
                       \/ \E i \in Edit : LoadWorkflow(p, i)
  \/ \E m \in wire : Serve(m)
  \/ \E b \in Book : Coauthor(b)

Spec == Init /\ [][Next]_officeVars
=============================================================================
