--------------------------- MODULE OfficeProperties ---------------------------
(***************************************************************************)
(* What the add-in, the service and the network must get right together.   *)
(***************************************************************************)
EXTENDS OfficeExecutor

PaneStates ==
  {"idle", "workflow", "claim", "read", "start", "reread", "write", "readback", "witness",
   "applied", "indeterminate", "stale_precondition", "abort", "save", "publish", "lookup",
   "resume"}

\* A pane waits for a call exactly in the steps that make one, and never tries
\* it more often than it may.
TypeOK ==
  /\ \A p \in Pane :
       /\ pane[p].pc \in PaneStates
       /\ pane[p].n \in 0..MaxNetworkAttempts
       /\ pane[p].request # None <=> pane[p].n > 0
       /\ pane[p].n > 0 <=> pane[p].pc \in {"claim", "start", "applied", "indeterminate",
                                           "stale_precondition", "abort", "publish"}
  /\ \A m \in wire : m.to \in Pane /\ m.n \in 1..MaxNetworkAttempts
  /\ written \in [Edit -> Nat]

\* A step writes the cells of a live workbook only under a start the service has
\* recorded for the execution that holds that workbook, whatever answers were
\* lost or came late.
WritesUnderItsStart ==
  \A p \in Pane : pane[p].pc = "write" /\ written' # written =>
    LET w == edit[pane[p].id]
    IN w.state = "apply_started" /\ w.exec = pane[p].exec
         /\ holder[w.binding.book] = pane[p].exec

\* An edit the service calls not applied has not touched its workbook, and none
\* is written twice.
UnappliedIsUntouched ==
  \A i \in Edit :
    written[i] <= IF edit[i].state \in {"approved", "claimed", "aborted_before_apply",
                                        "stale_precondition"} THEN 0 ELSE 1

\* An edit the service calls verified was written.
VerifiedIsWritten == \A i \in Edit : edit[i].state = "session_verified" => written[i] = 1

\* A failure the pane shows as an ordinary one, after which the user may try
\* again, leaves no execution of that action started: only an uncertain one may.
OrdinaryFailureIsClean ==
  \A p \in Pane :
    (pane[p].result = "failed" /\ pane[p].exec # None /\ edit[pane[p].id].exec = pane[p].exec) =>
      edit[pane[p].id].state \in
        {"claimed", "aborted_before_apply", "stale_precondition", "session_verified"}

\* The published head of a workbook is a saved revision that holds the edit.
HeadHasTheEdit ==
  \A i \in Edit : edit[i].publication > 0 =>
    saved[edit[i].binding.book][edit[i].publication] = i /\ written[i] = 1

\* What a pane shows as done is so: where a snapshot is due it is published.
DoneIsTrue ==
  \A p \in Pane : pane[p].result = "done" /\ pane[p].loaded = "session_verified" =>
    /\ edit[pane[p].id].state = "session_verified"
    /\ edit[pane[p].id].required => edit[pane[p].id].publication > 0

\* Execution tells the truth at every moment, to the service and to the user.
ExecutionIsTrue ==
  /\ TypeOK
  /\ UnappliedIsUntouched /\ VerifiedIsWritten
  /\ OrdinaryFailureIsClean /\ DoneIsTrue

\* An execution tells the truth about the workbook while calls are lost, repeated
\* and late, panes close and coauthors type, and it writes the cells only under
\* a start the service knows of (executeEdit, saveAndPublish).
EditIsCarriedOut ==
  /\ [](/\ ExecutionIsTrue
        /\ HeadHasTheEdit)
  /\ [][WritesUnderItsStart]_officeVars
=============================================================================
