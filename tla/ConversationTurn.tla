--------------------------- MODULE ConversationTurn ---------------------------
(***************************************************************************)
(* What a turn of a conversation adds to a turn of the audit agent: the     *)
(* bounded supplements (a standards research, a procedure plan, workbook    *)
(* inspections), the focus on earlier answers, the replay of a checkpoint,  *)
(* and the answer that may select supplements of its own turn.              *)
(*                                                                          *)
(* A result has the fields of AgentTurn's results; a supplement shows no    *)
(* typed record and carries references of its own.                          *)
(***************************************************************************)
EXTENDS AgentTurn

CONSTANTS
  Invocation,        \* runs of run_audit_conversation_turn
  Enabled,           \* the supplements the caller enabled
  ResearchQuery,     \* well-formed research queries
  Hits,              \* [ResearchQuery -> sets of verified paragraphs]
  Bases,             \* the sets of records a plan request may name
  Targets,           \* those that name one risk and one assertion
  Citations,         \* records that are verified prepared citations
  Sheet,             \* sheets of the package (one range on each)
  Source,            \* inspection sources: "ledger", "raw"
  Spelling,          \* spellings of the range: "canonical", "loose"
  MaxResearch,       \* MAX_RESEARCH_REQUESTS
  MaxPlanning,       \* MAX_PLANNING_REQUESTS
  MaxInspection,     \* MAX_INSPECTION_REQUESTS
  MaxFocusTurns,     \* MAX_FOCUS_TURNS
  MaxFocusRecords    \* MAX_FOCUS_RECORDS

Supplements == {"standards_research", "procedure_planning", "workbook_inspection"}

-----------------------------------------------------------------------------
(* Requests, references and results.                                        *)

Ref(kind, what, i) == [kind |-> kind, of |-> what, by |-> i]
OfKind(refs, kind) == {r \in refs : r.kind = kind}

SupplementRequest(refs) ==
  [name : {"standards_research"}, arg : ResearchQuery \cup {Unknown}]
    \cup [name : {"procedure_planning"},
          arg : [basis : Bases, research : {{}} \cup {{r} : r \in OfKind(refs, "research")}]]
    \cup [name : {"workbook_inspection"},
          arg : [sheet : Sheet, source : Source, spelling : Spelling]]

Supplied(refs, input) ==
  [error |-> FALSE, shows |-> {}, cut |-> FALSE, refs |-> refs, input |-> input]

Successes(observations, tool) ==
  {k \in DOMAIN observations : observations[k].tool = tool /\ ~observations[k].result.error}

RefsOf(observations) ==
  UNION {observations[k].result.refs :
           k \in UNION {Successes(observations, tool) : tool \in Supplements}}

\* What running a supplement comes to: its result, the model calls it made
\* and whether it used up the allowance of the turn.
Outcome(result, calls, counted) == [result |-> result, calls |-> calls, counted |-> counted]
Refusal == Outcome(ToolError, 0, 0)

-----------------------------------------------------------------------------
(* Standards research.                                                      *)

\* Up to three of the candidates, or none.
Selections(candidates) == {chosen \in SUBSET candidates : Cardinality(chosen) <= 3}

\* The worker is called only when the search found a candidate; each selected
\* paragraph is read again.
ResearchResults(query, i) ==
  IF Hits[query] = {} THEN {Outcome(Supplied({}, query), 0, 1)}
  ELSE {Outcome(ToolError, 1, 1)}
    \cup {Outcome(Supplied({Ref("research", p, i) : p \in chosen}, query), 1, 1) :
            chosen \in Selections(Hits[query])}

ResearchOutcomes(request, i, count, budget) ==
  IF "standards_research" \notin Enabled \/ count >= MaxResearch \/ budget <= 0
  THEN {Refusal}
  ELSE {Outcome(ToolError, 0, 1)}
    \cup IF request.arg \in ResearchQuery THEN ResearchResults(request.arg, i) ELSE {}

-----------------------------------------------------------------------------
(* Procedure planning.                                                      *)

NamesOneTarget(basis) == basis \in Targets

\* Only records observed and research made in this turn; one risk and one
\* assertion among the records.
PlanningBinds(arg, observed, research) ==
  /\ arg.basis \subseteq observed
  /\ arg.research \subseteq research
  /\ NamesOneTarget(arg.basis)

HasStandardsBasis(arg) == arg.research \cup (arg.basis \cap Citations) # {}

\* A plan, or the reasoned absence of one, has a reference.
PlanResult(arg, i) == Supplied({Ref("plan", arg, i)}, arg)

\* Without a standards basis there is no plan, and no model call.
PlanResults(arg, i) ==
  IF HasStandardsBasis(arg)
  THEN {Outcome(ToolError, 1, 1), Outcome(PlanResult(arg, i), 1, 1)}
  ELSE {Outcome(PlanResult(arg, i), 0, 1)}

PlanningOutcomes(request, i, count, budget, observed, research) ==
  IF \/ "procedure_planning" \notin Enabled
     \/ count >= MaxPlanning
     \/ budget <= 0
     \/ ~PlanningBinds(request.arg, observed, research)
     \/ ~HasStandardsBasis(request.arg) /\ "standards_research" \in Enabled
  THEN {Refusal}
  ELSE {Outcome(ToolError, 0, 1)} \cup PlanResults(request.arg, i)

-----------------------------------------------------------------------------
(* Workbook inspection.                                                     *)

\* The reader computes with, and reports, the cleaned request.
Cleaned(arg) == [arg EXCEPT !.spelling = "canonical"]

FaultAttemptedBefore(prior) ==
  {prior[k].input.arg : k \in {j \in DOMAIN prior : prior[j].tool = "workbook_inspection"}}

InspectedBefore(prior) == {prior[k].input.arg : k \in Successes(prior, "workbook_inspection")}

\* One sheet per turn.
SameSheet(arg, prior) == \A before \in InspectedBefore(prior) : before.sheet = arg.sheet

\* The original is read again only where the ledger was read first.
LedgerFirst(arg, prior) ==
  arg.source = "raw" => [arg EXCEPT !.source = "ledger"] \in InspectedBefore(prior)

InspectionAllowed(arg, count, prior) ==
  /\ "workbook_inspection" \in Enabled
  /\ count < MaxInspection
  /\ SameSheet(arg, prior)
  /\ LedgerFirst(arg, prior)

InspectionResult(arg, i) == Supplied({Ref("inspection", Cleaned(arg), i)}, Cleaned(arg))

\* Reading the workbook may fail.
InspectionResults(arg, i) == {ToolError, InspectionResult(arg, i)}

\* An attempt counts even when it is refused for its scope or order.
InspectionCounted(count) ==
  IF "workbook_inspection" \in Enabled /\ count < MaxInspection THEN 1 ELSE 0

-----------------------------------------------------------------------------
(* The focus on earlier answers.                                            *)

\* The known records the newest answers cited, newest first, as many as fit;
\* those of one answer in a fixed order.
FocusRecords(history) ==
  LET recent == {k \in DOMAIN history : k > Len(history) - MaxFocusTurns}
      Citing(r) == {k \in recent : r \in history[k].response.evidence}
      cited == {r \in Record : Citing(r) # {}}
      Rank(r) == CHOOSE n \in DOMAIN SetToSeq(Record) : SetToSeq(Record)[n] = r
      Ahead(r) == {q \in cited : \/ Max(Citing(q)) > Max(Citing(r))
                                 \/ Max(Citing(q)) = Max(Citing(r)) /\ Rank(q) < Rank(r)}
  IN {r \in cited : Cardinality(Ahead(r)) < MaxFocusRecords}

\* No earlier turn, no focus.
FocusOf(history) == IF history = <<>> THEN None ELSE FocusRecords(history)

FocusedTurnState(history) ==
  IF history = <<>> THEN NewTurnState
  ELSE [NewTurnState EXCEPT !.observations = Append(@, Focus(FocusRecords(history))),
                            !.observed = @ \cup FocusRecords(history)]

-----------------------------------------------------------------------------
(* The replay of a checkpoint.                                              *)

BaseOf(observations) == SelectSeq(observations, LAMBDA o : o.tool \notin Supplements)
Asked(observations, input) == SelectSeq(observations, LAMBDA o : o.input = input)

\* Each supplement is the one this process got for that request, in order.
Witnessed(observations, witness) ==
  \A k \in DOMAIN observations :
    observations[k].tool \in Supplements =>
      LET occurrence == Len(Asked(SubSeq(observations, 1, k), observations[k].input))
          values == Asked(witness, observations[k].input)
      IN occurrence <= Len(values) /\ values[occurrence] = observations[k]

\* What a supplement must satisfy whoever reads it, from what precedes it.
InspectionStands(o, prior) ==
  /\ SameSheet(o.input.arg, prior)
  /\ LedgerFirst(o.input.arg, prior)
  /\ o.result.input = o.input.arg

SupplementsStand(observations) ==
  /\ Cardinality(Successes(observations, "standards_research")) <= MaxResearch
  /\ Cardinality(Successes(observations, "procedure_planning")) <= MaxPlanning
  /\ Cardinality(Successes(observations, "workbook_inspection")) <= MaxInspection
  /\ \A k \in Successes(observations, "workbook_inspection") :
       InspectionStands(observations[k], SubSeq(observations, 1, k - 1))

\* A plan's basis was authorized when it was made.
PlansStand(observations, focus) ==
  \A k \in Successes(observations, "procedure_planning") :
    LET prior == SubSeq(observations, 1, k - 1)
    IN /\ WitnessAccepts(BaseOf(prior), focus)
       /\ PlanningBinds(observations[k].input.arg, Replay(BaseOf(prior)).observed,
                        OfKind(RefsOf(prior), "research"))

\* Research and inspections count for completeness, plans do not.
FaultPlansCount(observations) ==
  \A k \in DOMAIN observations :
    observations[k].tool \in Supplements => ~observations[k].result.error

SupplementsComplete(observations) ==
  \A k \in DOMAIN observations :
    observations[k].tool \in Supplements \ {"procedure_planning"} => ~observations[k].result.error

\* The tools of a turn, from its observations.
ToolsOf(observations) ==
  LET spoken == SelectSeq(observations, LAMBDA o : o.tool \notin Silent)
  IN [k \in DOMAIN spoken |-> spoken[k].tool]

TurnStateAccepted(state, focus, witness) ==
  LET base == BaseOf(state.observations)
  IN /\ Witnessed(state.observations, witness)
     /\ SupplementsStand(state.observations)
     /\ WitnessAccepts(base, focus)
     /\ PlansStand(state.observations, focus)
     /\ state.used_tools = ToolsOf(state.observations)
     /\ state.discovery_complete =
          (Replay(base).discovery_complete /\ SupplementsComplete(state.observations))
     /\ state.observed = Replay(base).observed

-----------------------------------------------------------------------------
(* Decisions and answers.                                                   *)

ConversationFinal(refs) ==
  [action : {"final"}, tool : {None},
   final : [abstained : BOOLEAN, selected : SUBSET (Record \cup {Unknown}), refs : SUBSET refs]]

\* An action that contradicts its fields.
Muddled(refs) ==
  [action : {"tool", "final"},
   tool : {CHOOSE r \in Requests(Query, Record) : TRUE} \cup SupplementRequest(refs),
   final : {[abstained |-> TRUE, selected |-> {}, refs |-> {}]}]

ConversationDecisions(step, childCalls, refs) ==
  IF MustFinalize(step, childCalls) THEN ConversationFinal(refs)
  ELSE [action : {"tool"}, tool : Requests(Query, Record) \cup SupplementRequest(refs), final : {None}]
         \cup ConversationFinal(refs) \cup Muddled(refs)

Route(decision) ==
  IF decision.action # "tool" THEN "finalize"
  ELSE CASE decision.tool.name = "standards_research" -> "research"
         [] decision.tool.name = "procedure_planning" -> "planning"
         [] decision.tool.name = "workbook_inspection" -> "inspection"
         [] OTHER -> "tool"

\* Supplements alone are no evidence: the answer itself then abstains.
BaseDecision(decision) ==
  IF decision.final = None THEN decision
  ELSE IF decision.final.refs # {} /\ decision.final.selected = {}
  THEN [decision EXCEPT !.final.abstained = TRUE]
  ELSE decision

\* Only supplements of this turn are selected, and a plan that was made is.
FaultTakesAnyRef(refs, observations) ==
  Successes(observations, "procedure_planning") # {} => OfKind(refs, "plan") # {}

SupplementsSelected(refs, observations) ==
  /\ refs \subseteq RefsOf(observations)
  /\ Successes(observations, "procedure_planning") # {} => OfKind(refs, "plan") # {}

\* What the commit, and every later reader, asks of a stored answer.  The
\* caller gives no focus to check the plans against.
ResponseStands(answer, observations) ==
  /\ SupplementsStand(observations)
  /\ PlansStand(observations, None)
  /\ SupplementsSelected(answer.refs, observations)

=============================================================================
