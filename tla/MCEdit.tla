-------------------------------- MODULE MCEdit --------------------------------
(***************************************************************************)
(* Small instances of the edit service for TLC.  Keys are integers:        *)
(* workflow 10 has the keys 10, 11, ... for its commands, workflow 20 the  *)
(* keys 20, 21, ...  A run checks several cases: each starts from a        *)
(* database of its own and lists the requests its clients may send.        *)
(***************************************************************************)
EXTENDS EditProperties, TLC

CONSTANTS b1, s1, w1, w2

VARIABLE case    \* the case a behaviour belongs to; never changes

all == <<vars, case>>

Good  == [outcome |-> "applied", before |-> TRUE, after |-> TRUE]
Bad   == [outcome |-> "applied", before |-> TRUE, after |-> FALSE]
Stale == [outcome |-> "stale_precondition", before |-> FALSE, after |-> FALSE]
Lost  == [outcome |-> "indeterminate", before |-> TRUE, after |-> FALSE]

Req(k, op, i, e, required, x) ==
  [key |-> k, op |-> op, id |-> i, session |-> s1, exec |-> e,
   required |-> required, witness |-> x]

Plain(k, op, i)    == Req(k, op, i, None, FALSE, Lost)
Exec(k, op, i, e)  == Req(k, op, i, e, FALSE, Lost)
Take(k, i, required) == Req(k, "claim_execution", i, None, required, Lost)
Report(k, i, e, x) == Req(k, "verify_execution", i, e, FALSE, x)

\* The three commands that lead workflow i to its approval.
Prelude(i) ==
  {Plain(i, "propose", i), Plain(i+1, "preview", i), Plain(i+2, "approve", i)}

-----------------------------------------------------------------------------
(* Runs from the empty database.                                            *)

\* Negotiation of one workflow: approval against rejection, a key reused for
\* another command, and the claim.
NegotiateRequests ==
  Prelude(10) \cup
  {Plain(13, "reject", 10), Plain(12, "reject", 10), Take(13, 10, FALSE)}

-----------------------------------------------------------------------------
(* Runs from a database in which the workflows in Seed have been approved at *)
(* time 1 on revision 1, the state their three commands lead to.            *)

Base == [session |-> s1, book |-> b1, rev |-> 1]

Approved == [NoWorkflow EXCEPT !.state = "approved", !.version = 3,
                               !.binding = Base, !.expires = 1 + ApprovalTtl]

CompletedRow(r, i, state, version) ==
  [NoCommand EXCEPT !.status = "completed", !.request = r,
     !.receipt = [id |-> i, state |-> state, version |-> version, fence |-> 0]]

PreludeRow(k, i) ==
  CASE k = i     -> CompletedRow(Plain(k, "propose", i), i, "proposed", 1)
    [] k = i + 1 -> CompletedRow(Plain(k, "preview", i), i, "previewed", 2)
    [] OTHER     -> CompletedRow(Plain(k, "approve", i), i, "approved", 3)

SeededInit(Seed) ==
  /\ commands = [k \in Key |->
       IF \E i \in Seed : k \in i..(i+2)
       THEN PreludeRow(k, CHOOSE i \in Seed : k \in i..(i+2))
       ELSE NoCommand]
  /\ workflows = [k \in Key |-> IF k \in Seed THEN Approved ELSE NoWorkflow]
  /\ active = [b \in Book |-> NoActive]
  /\ fences = [b \in Book |-> 0]
  /\ heads = [b \in Book |-> 0]
  /\ clock = 1
  /\ worker = [p \in Worker |-> Idle]
  /\ registry = [s \in Session |-> Base]
  /\ saved = [b \in Book |-> 1]
  /\ assets = {}

\* One approved workflow: two claims, every report, the abort.
ExecuteRequests ==
  Prelude(10) \cup
  {Take(13, 10, TRUE), Take(14, 10, FALSE),
   Exec(15, "mark_apply_started", 10, 13), Exec(16, "abort_claim", 10, 13),
   Report(17, 10, 13, Good), Report(17, 10, 13, Stale),
   Report(16, 10, 13, Lost), Report(16, 10, 13, Bad)}

\* Lapsing approvals, execution deadlines and command claims; dead workers.
LeaseRequests ==
  Prelude(10) \cup
  {Take(13, 10, TRUE), Exec(14, "mark_apply_started", 10, 13),
   Report(15, 10, 13, Good)}

\* A verified write whose snapshot is due, as the commands above leave it:
\* lapsing publication claims, dead publishers, a workbook saved again.
VerifiedInit ==
  LET start  == Exec(14, "mark_apply_started", 10, 13)
      report == Report(15, 10, 13, Good)
      w == [Approved EXCEPT !.state = "session_verified", !.version = 6,
                            !.consumed = TRUE, !.exec = 13, !.fence = 1,
                            !.deadline = 1 + ExecutionTtl, !.required = TRUE]
  IN
  /\ commands = [k \in Key |->
       CASE k \in 10..12 -> PreludeRow(k, 10)
         [] k = 13 -> [CompletedRow(Take(13, 10, TRUE), 10, "claimed", 4)
                         EXCEPT !.receipt.fence = 1]
         [] k = 14 -> [CompletedRow(start, 10, "apply_started", 5)
                         EXCEPT !.receipt.fence = 1]
         [] k = 15 -> [CompletedRow(report, 10, "session_verified", 6)
                         EXCEPT !.receipt.fence = 1]
         [] OTHER -> NoCommand]
  /\ workflows = [k \in Key |-> IF k = 10 THEN w ELSE NoWorkflow]
  /\ active = [b \in Book |-> [NoActive EXCEPT !.id = 10, !.exec = 13, !.fence = 1]]
  /\ fences = [b \in Book |-> 1]
  /\ heads = [b \in Book |-> 0]
  /\ clock = 1
  /\ worker = [p \in Worker |-> Idle]
  /\ registry = [s \in Session |-> Base]
  /\ saved = [b \in Book |-> 2]
  /\ assets = {}

\* Two approved workflows on one live workbook.
Flow(i) == {Take(i+3, i, TRUE), Exec(i+4, "mark_apply_started", i, i+3),
            Report(i+5, i, i+3, Good),
            Exec(i+6, "publish_verified_snapshot", i, i+3)}
ContendRequests ==
  Prelude(10) \cup Prelude(20) \cup Flow(10) \cup Flow(20)
    \cup {Take(13, 20, TRUE), Report(15, 10, 13, Stale)}

\* A second workflow follows on the workbook that a first one publishes.
ChainRequests ==
  LeaseRequests \cup {Exec(16, "publish_verified_snapshot", 10, 13)}
    \cup Prelude(20) \cup Flow(20)

\* An approval outlives the command claims of two claims that race for it: a
\* slow worker finds its key taken over, and the approval spent under it.
SlowRequests ==
  {Take(13, 10, TRUE), Take(14, 10, TRUE), Exec(15, "mark_apply_started", 10, 13)}

\* The publication of a verified write, which the clients insist on.
DueRequests == LeaseRequests \cup {Exec(16, "publish_verified_snapshot", 10, 13)}

-----------------------------------------------------------------------------
(* The cases and the runs over them.                                        *)

OneKeys == 10..17
TwoKeys == 10..16 \cup 20..26
DueKeys == 10..16
OneRequests == NegotiateRequests \cup ExecuteRequests \cup LeaseRequests
TwoRequests == ContendRequests \cup ChainRequests \cup SlowRequests

Negotiate == INSTANCE EditService WITH
  Request <- NegotiateRequests, MaxClock <- 1, MaxOrphans <- 0, MaxRev <- 1
Execute == INSTANCE EditService WITH
  Request <- ExecuteRequests, MaxClock <- 1, MaxOrphans <- 0, MaxRev <- 2
Lease == INSTANCE EditService WITH
  Request <- LeaseRequests, MaxClock <- 3, MaxOrphans <- 1, MaxRev <- 1
Contend == INSTANCE EditService WITH
  Request <- ContendRequests, MaxClock <- 1, MaxOrphans <- 0, MaxRev <- 2
Chain == INSTANCE EditService WITH
  Request <- ChainRequests, MaxClock <- 1, MaxOrphans <- 0, MaxRev <- 3
Slow == INSTANCE EditService WITH
  Request <- SlowRequests, MaxClock <- 2, MaxOrphans <- 0, MaxRev <- 1

\* One workflow: negotiated, executed, and under lapsing leases.
OneInit ==
  \/ case = "negotiate" /\ Init
  \/ case \in {"execute", "lease"} /\ SeededInit({10})
OneNext ==
  /\ \/ case = "negotiate" /\ Negotiate!Next
     \/ case = "execute" /\ Execute!Next
     \/ case = "lease" /\ Lease!Next
  /\ UNCHANGED case
OneSpec == OneInit /\ [][OneNext]_all

\* Two workflows on one workbook: together, and the second after the first;
\* and two claims of one approval whose workers are slow or die.
TwoInit ==
  \/ case = "contend" /\ SeededInit({10, 20})
  \/ case = "slow" /\ SeededInit({10})
  \/ case = "chain" /\ VerifiedInit
TwoNext ==
  /\ \/ case = "contend" /\ Contend!Next
     \/ case = "chain" /\ Chain!Next
     \/ case = "slow" /\ Slow!Next
  /\ UNCHANGED case
TwoSpec == TwoInit /\ [][TwoNext]_all

\* The negotiation keeps the whole promise; the cases that start later take
\* only steps of it.
NegotiationKeepsPromise ==
  /\ case = "negotiate" => Promise!AInit
  /\ [][Promise!ANext]_(Promise!avars)
PromiseSteps == [][(case \in {"contend", "slow"}) => Promise!ANext]_(Promise!avars)

\* Liveness, without symmetry: the snapshot of a verified write falls due, and
\* clients insist on every command, whose workers may die.
DueInit == VerifiedInit /\ case = "due"
DueNext == Next /\ UNCHANGED case
DueSpec == DueInit /\ [][DueNext]_all /\ Fairness /\ OutagesEnd

WorkerSymmetry == Permutations({w1, w2})
=============================================================================
