------------------------------- MODULE MCAddin -------------------------------
(***************************************************************************)
(* Small instances of the add-in and of the host sessions it works         *)
(* through, for TLC, in five cases.  Both stand in front of what the edit  *)
(* service promises (ApprovedEdit).                                        *)
(***************************************************************************)
EXTENDS HostedAddin, TLC

CONSTANTS b1, s1, p1, p2, e1, e2
CONSTANTS e, w1, w2, h1

VARIABLE case    \* the case a behaviour belongs to; never changes

all == <<officeVars, hosted, case>>

-----------------------------------------------------------------------------
(* Execution: the same edit twice over two panes ("again"), two edits of    *)
(* one workbook ("rivals"), one pane among coauthors ("coauthors").         *)

AllKeys == {e1, e2, e} \cup (1..2) \X Stages

Again == INSTANCE OfficeExecutor WITH MaxChanges <- 0
Rivals == INSTANCE OfficeExecutor WITH
  Required <- FALSE, MaxNetworkAttempts <- 1, MaxChanges <- 1
Coauthors == INSTANCE OfficeExecutor WITH MaxNetworkAttempts <- 1

\* One edit is executed, by one pane at a time.
OneEditOnly == \A p \in Pane : pane'[p].id # e2
OnePaneOnly == \A p, q \in Pane : pane'[p] # Idle /\ pane'[q] # Idle => p = q

OfficeNext ==
  \/ case = "again" /\ Again!Next /\ OneEditOnly
  \/ case = "rivals" /\ Rivals!Next
  \/ case = "coauthors" /\ Coauthors!Next /\ OneEditOnly /\ OnePaneOnly

-----------------------------------------------------------------------------
(* Host sessions: one request at a time from the proposal on while the      *)
(* registry moves ("moves"), two requests about a started edit while its    *)
(* session ends ("ends").                                                   *)

\* Keys of the commands about edit e.
c  == <<1, "claim">>
st == <<1, "start">>
ab == <<1, "abort">>
v  == <<1, "applied">>
pb == <<1, "publish">>
pr == <<2, "claim">>
ap == <<2, "start">>
rj == <<2, "abort">>

NoWitness == [outcome |-> None, before |-> FALSE, after |-> FALSE]
Applied == [outcome |-> "applied", before |-> TRUE, after |-> TRUE]
R(op, key, exec, witness) ==
  [op |-> op, key |-> key, id |-> e, session |-> s1, exec |-> exec, required |-> FALSE,
   witness |-> witness]

Verifying == R("verify_execution", v, c, Applied)
Publishing == R("publish_verified_snapshot", pb, c, NoWitness)
AllRequests ==
  {R("preview", pr, None, NoWitness), R("approve", ap, None, NoWitness),
   R("reject", rj, None, NoWitness), R("claim_execution", c, None, NoWitness),
   R("mark_apply_started", st, c, NoWitness), R("abort_claim", ab, c, NoWitness),
   Verifying, Publishing}
LateRequests == {Verifying, Publishing}
TwoWorkers == {w1, w2}

Moves == INSTANCE EditHost WITH Edit <- Routed, Request <- AllRequests, MaxClock <- 0
Ends == INSTANCE EditHost WITH Edit <- Routed, Request <- LateRequests, MaxRev <- 1, MaxMoves <- 1

ASSUME Moves!HostAssumption /\ Ends!HostAssumption

\* One request at a time.
OneAtATime == \A p, q \in Worker : worker'[p].pc # "idle" /\ worker'[q].pc # "idle" => p = q

HostNext ==
  \/ case = "moves" /\ Moves!Next /\ OneAtATime
  \/ case = "ends" /\ Ends!Next

EditIn(state) ==
  [k \in Key |-> IF k = e THEN [NoEdit EXCEPT !.state = state, !.binding = Binding] ELSE NoEdit]

\* What propose leaves.
Proposed ==
  /\ edit = EditIn("proposed")
  /\ holder = [b \in Book |-> None] /\ fence = [b \in Book |-> 0]
  /\ receipts = [k \in Key |-> None]

\* What claim and start leave: the write is being made.
Started ==
  /\ edit = [EditIn("apply_started") EXCEPT ![e].exec = c, ![e].fence = 1, ![e].required = TRUE]
  /\ holder = [b \in Book |-> c] /\ fence = [b \in Book |-> 1]
  /\ receipts = [k \in Key |-> CASE k = c -> [id |-> e, state |-> "claimed", fence |-> 1]
                                      [] k = st -> [id |-> e, state |-> "apply_started", fence |-> 1]
                                      [] OTHER -> None]

-----------------------------------------------------------------------------
NoOffice ==
  /\ head = [b \in Book |-> 0] /\ cells = [b \in Book |-> Base] /\ saved = [b \in Book |-> <<Base>>]
  /\ written = [i \in Edit |-> 0] /\ pane = [p \in Pane |-> Idle] /\ wire = {}
  /\ actions = 0 /\ changes = 0

AllInit ==
  /\ \/ case \in {"again", "rivals", "coauthors"} /\ Init
     \/ case = "moves" /\ Proposed /\ NoOffice
     \/ case = "ends" /\ Started /\ NoOffice
  /\ Door!HostInit
  /\ case # "moves" => registry = [s \in Session |-> Binding]

AllNext ==
  /\ \/ OfficeNext /\ UNCHANGED hosted
     \/ HostNext /\ UNCHANGED <<live, pane, wire, actions>>
  /\ UNCHANGED case

AllSpec == AllInit /\ [][AllNext]_all

TwoPanes == {p1, p2}
Alike == Permutations(TwoWorkers) \cup Permutations(TwoPanes)
=============================================================================
