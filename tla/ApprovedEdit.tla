----------------------------- MODULE ApprovedEdit -----------------------------
(***************************************************************************)
(* What the edit service promises its clients, with no worker, no lease,   *)
(* no version and no clock: every command takes effect at most once and in *)
(* one step, a live workbook has at most one holder, and its published     *)
(* head moves only by a verified edit that was made on that head.          *)
(*                                                                         *)
(* EditService implements this specification (see EditProperties).         *)
(***************************************************************************)
EXTENDS Integers

CONSTANTS Key, Book, Session, Request, None

VARIABLES
  edit,      \* [Key -> the edit workflow of that id]
  holder,    \* [Book -> execution that holds the live workbook, or None]
  fence,     \* [Book -> last fencing token given to a holder]
  head,      \* [Book -> last published revision, 0 before the first]
  receipts   \* [Key -> the receipt of the command under that key, or None]

avars == <<edit, holder, fence, head, receipts>>

NoEdit == [state |-> "absent", binding |-> None, exec |-> None, fence |-> 0,
           required |-> FALSE, publication |-> 0]

AInit ==
  /\ edit = [k \in Key |-> NoEdit]
  /\ holder = [b \in Book |-> None]
  /\ fence = [b \in Book |-> 0]
  /\ head = [b \in Book |-> 0]
  /\ receipts = [k \in Key |-> None]

\* The one effect of command r: edit i becomes e and the key has its receipt.
Effect(r, i, e) ==
  /\ receipts[r.key] = None
  /\ edit' = [edit EXCEPT ![i] = e]
  /\ receipts' = [receipts EXCEPT ![r.key] =
                    [id |-> i, state |-> e.state, fence |-> e.fence]]

KeepsBooks == UNCHANGED <<holder, fence, head>>

Propose(r) ==
  /\ r.op = "propose"
  /\ edit[r.key].state = "absent"
  /\ edit'[r.key].state = "proposed"
  /\ LET b == edit'[r.key].binding IN
       /\ b.session = r.session /\ b.book \in Book /\ b.rev \in Nat \ {0}
       /\ Effect(r, r.key, [NoEdit EXCEPT !.state = "proposed", !.binding = b])
  /\ KeepsBooks

\* Preview, approval and rejection: the state moves, the workbook is not held.
Move(r, op, from, to) ==
  /\ r.op = op
  /\ edit[r.id].state = from
  /\ Effect(r, r.id, [edit[r.id] EXCEPT !.state = to])
  /\ KeepsBooks

\* The approval is consumed: the execution becomes the workbook's only holder,
\* under a fencing token larger than every earlier one, on the current head.
Hold(r) ==
  LET b == edit[r.id].binding.book IN
  /\ r.op = "claim_execution"
  /\ edit[r.id].state = "approved"
  /\ head[b] \in {0, edit[r.id].binding.rev}
  /\ holder[b] = None
  /\ holder' = [holder EXCEPT ![b] = r.key]
  /\ fence' = [fence EXCEPT ![b] = @ + 1]
  /\ Effect(r, r.id, [edit[r.id] EXCEPT !.state = "claimed", !.exec = r.key,
                                        !.fence = fence[b] + 1,
                                        !.required = r.required])
  /\ UNCHANGED head

Holds(r) == /\ edit[r.id].exec = r.exec
            /\ holder[edit[r.id].binding.book] = r.exec

Start(r) ==
  /\ r.op = "mark_apply_started"
  /\ edit[r.id].state = "claimed"
  /\ Holds(r)
  /\ Effect(r, r.id, [edit[r.id] EXCEPT !.state = "apply_started"])
  /\ KeepsBooks

\* Nothing was written: the workbook is free again.
GiveUp(r) ==
  /\ \/ r.op = "abort_claim"
     \/ r.op = "verify_execution" /\ r.witness.outcome = "stale_precondition"
  /\ edit[r.id].state = "claimed"
  /\ Holds(r)
  /\ Effect(r, r.id, [edit[r.id] EXCEPT
                        !.state = IF r.op = "abort_claim" THEN "aborted_before_apply"
                                                          ELSE "stale_precondition"])
  /\ holder' = [holder EXCEPT ![edit[r.id].binding.book] = None]
  /\ UNCHANGED <<fence, head>>

\* The one report of what was written.  Only a write seen to be the approved
\* one, of which no snapshot is due, frees the workbook.
Report(r) ==
  LET good == /\ r.witness.outcome = "applied"
              /\ r.witness.before
              /\ r.witness.after
      b == edit[r.id].binding.book
  IN
  /\ r.op = "verify_execution"
  /\ r.witness.outcome # "stale_precondition"
  /\ edit[r.id].state = "apply_started"
  /\ Holds(r)
  /\ Effect(r, r.id, [edit[r.id] EXCEPT
                        !.state = IF good THEN "session_verified"
                                  ELSE IF r.witness.outcome = "indeterminate"
                                       THEN "indeterminate"
                                       ELSE "verification_failed"])
  /\ holder' = IF good /\ ~ edit[r.id].required
               THEN [holder EXCEPT ![b] = None] ELSE holder
  /\ UNCHANGED <<fence, head>>

\* The saved successor of the base becomes the head, and frees the workbook.
Advance(r) ==
  LET w == edit[r.id]
      b == w.binding.book
  IN
  /\ r.op = "publish_verified_snapshot"
  /\ w.state = "session_verified"
  /\ w.required
  /\ w.publication = 0
  /\ Holds(r)
  /\ head[b] \in {0, w.binding.rev}
  /\ head' = [head EXCEPT ![b] = w.binding.rev + 1]
  /\ Effect(r, r.id, [w EXCEPT !.publication = w.binding.rev + 1])
  /\ holder' = [holder EXCEPT ![b] = None]
  /\ UNCHANGED fence

ANext == \E r \in Request :
  \/ Propose(r)
  \/ Move(r, "preview", "proposed", "previewed")
  \/ Move(r, "approve", "previewed", "approved")
  \/ Move(r, "reject", "previewed", "rejected")
  \/ Hold(r) \/ Start(r) \/ GiveUp(r) \/ Report(r) \/ Advance(r)

ASpec == AInit /\ [][ANext]_avars
=============================================================================
