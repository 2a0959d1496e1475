------------------------ MODULE ConversationProperties ------------------------
(***************************************************************************)
(* What a conversation promises.                                            *)
(***************************************************************************)
EXTENDS ConversationGraph

Pcs == {"start", "waiting", "bind", "bootstrap", "decide", "tool", "research", "planning",
        "inspection", "reading", "finalize", "store_blocked", "commit", "pinned", "write",
        "written", "returning", "done", "failed", "lost"}

\* The channels and the runtime, with the allowances of one turn
\* (AuditConversationState, AuditConversationRuntime).
TypeOK ==
  /\ package \in Bundle
  /\ {packageLock, threadLock} \subseteq Invocation \cup {None}
  /\ thread.bound \in Bundle \cup {0}
  /\ thread.step \in 0 .. MaxSteps
  /\ Len(thread.history) <= MaxHistory
  /\ thread.turn.observed \subseteq Record
  /\ \A i \in Invocation :
       /\ run[i].pc \in Pcs
       /\ run[i].bundle \in Bundle \cup {0}
       /\ run[i].research <= MaxResearch
       /\ run[i].planning <= MaxPlanning
       /\ run[i].inspection <= MaxInspection

-----------------------------------------------------------------------------
(* Authority.                                                               *)

ShownBy(observations) ==
  UNION {observations[k].result.shows : k \in DOMAIN observations}

\* A committed answer selects only records shown, and supplements made, in
\* its own turn: neither an earlier turn, nor a crashed one, nor the question
\* can lend it any (README: IDs of earlier answers carry no authority).
TurnsAreGrounded ==
  \A k \in DOMAIN thread.history :
    LET turn == thread.history[k]
    IN /\ turn.response.selected \subseteq ShownBy(turn.observations)
       /\ \A ref \in turn.refs :
            /\ ref.by = turn.invocation
            /\ ref \in RefsOf(turn.observations)

\* A workbook inspection whose range was not spelled as the reader reports it.
Respelled(observations) ==
  \E k \in Successes(observations, "workbook_inspection") :
    observations[k].result.input # observations[k].input.arg

\* What a turn has in its checkpoint is what its observations alone give: no
\* node of a healthy turn is refused by the replay (_turn_state), unless the
\* turn holds an inspection that was respelled, which the replay compares with
\* the request letter by letter (_validated_inspection_result).
ReplayAgrees ==
  \A i \in Invocation :
    /\ run[i].pc \in {"decide", "tool", "research", "planning", "inspection", "finalize", "commit"}
    /\ run[i].bundle \in Ready
    /\ ~Respelled(thread.turn.observations)
    => Accepted(i)

\* The raw workbook is read only where the ledger was, and one turn stays on
\* one sheet, in whatever order results and errors came
\* (_assert_inspection_ledger_first, _assert_inspection_scope_consistent).
RawAfterLedger ==
  LET inspected == Successes(thread.turn.observations, "workbook_inspection")
      Arg(k) == thread.turn.observations[k].input.arg
  IN /\ \A j, k \in inspected : Arg(j).sheet = Arg(k).sheet
     /\ \A k \in inspected : Arg(k).source = "raw" =>
          \E j \in inspected : j < k /\ Arg(j).source = "ledger" /\ Arg(j).sheet = Arg(k).sheet

\* A plan rests on records shown before it was asked for and on research made
\* before it in the same turn; where research may be had, it is had first
\* (_planning_binding, _run_planning_request).
PlanHasItsBasis ==
  LET observations == thread.turn.observations
  IN \A k \in Successes(observations, "procedure_planning") :
       LET arg == observations[k].input.arg
           before == SubSeq(observations, 1, k - 1)
       IN /\ arg.basis \subseteq ShownBy(before)
          /\ \A ref \in arg.research : ref \in RefsOf(before)
          /\ "standards_research" \in Enabled => HasStandardsBasis(arg)

-----------------------------------------------------------------------------
(* The budget of model calls.                                               *)

\* After a tool or a supplement the main model still has a call to answer
\* with, whatever the children spent (_child_model_call_budget).
FinalCallReserved ==
  \A i \in Invocation :
    run[i].pc = "decide" /\ Last(thread.turn.observations).tool \notin Silent =>
      thread.step + run[i].child < MaxSteps

-----------------------------------------------------------------------------
(* The history.                                                             *)

\* A turn that was returned is in the history exactly once, a turn that
\* failed is not in it, and turns are numbered as they were appended: runs
\* on one thread, crashes included, never lose or repeat a turn (_commit_turn,
\* _turn_result).
HistoryTellsTheTurns ==
  LET Turns(i) == {k \in DOMAIN thread.history : thread.history[k].invocation = i}
  IN /\ \A k \in DOMAIN thread.history : thread.history[k].turn_index = k
     /\ \A i \in Invocation :
          /\ run[i].pc = "done" => Cardinality(Turns(i)) = 1
          /\ run[i].pc = "failed" => Turns(i) = {}
          /\ Cardinality(Turns(i)) <= 1

\* A turn record is written only while the package is still the bundle its
\* answer was made from, and the thread is bound to (_commit_turn).
WrittenUnderItsBundle ==
  [][\A i \in Invocation :
       run[i].pc # "written" /\ run'[i].pc = "written" =>
         LET turn == Last(run'[i].history)
         IN turn.response.bundle = package' /\ turn.response.bundle = thread'.bound]_vars

\* A turn with a plan that follows an earlier turn, whose answers it starts from.
PlansOnAFocus ==
  /\ thread.history # <<>>
  /\ Successes(thread.turn.observations, "procedure_planning") # {}

\* The commit does not refuse an answer that finalize accepted: what was
\* found valid for the turn is valid for its record (_commit_turn_locked),
\* unless the turn plans on a focus, of which the record's check knows nothing.
CommitAcceptsTheAnswer ==
  \A i \in Invocation : run[i].pc = "write" /\ ~PlansOnAFocus => Committable(i)

-----------------------------------------------------------------------------
(* What the runs check together.                                            *)

\* The history of a thread, of values of the expected types, tells its turns.
HistoryIsTrue == TypeOK /\ HistoryTellsTheTurns

\* A healthy turn is not refused by its own program, but for the two kinds of
\* turn named above, and can always answer.
TurnGoesThrough == ReplayAgrees /\ CommitAcceptsTheAnswer /\ FinalCallReserved

\* The order of requests within a turn gives every supplement its basis.
SupplementsHaveTheirBasis == PlanHasItsBasis /\ RawAfterLedger

=============================================================================
