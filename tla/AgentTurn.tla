------------------------------ MODULE AgentTurn ------------------------------
(***************************************************************************)
(* One turn of the audit agent: what the model may ask of the package, what *)
(* each answer lets it cite, and when a final answer is accepted.           *)
(*                                                                          *)
(* Records are the typed facts, relations, citations and statements of a    *)
(* prepared package.  The texts, sections and cells of a record are left    *)
(* out; which record shows or cites which other one is a parameter.         *)
(***************************************************************************)
EXTENDS Naturals, Sequences, FiniteSets, SequencesExt

CONSTANTS
  Record,        \* typed records of the package
  Unknown,       \* an identifier that names no record
  Query,         \* search texts
  Brief,         \* records the briefing and the mapping show
  Found,         \* [Query -> SUBSET Record]: what a search shows
  Traced,        \* [Record -> SUBSET Record]: what a trace of a record shows
  Cites,         \* [Record -> SUBSET Record]: the evidence behind a claim on a record
  Cut,           \* requests whose result is truncated by its limit
  MaxSteps,      \* max_steps
  MaxSelected,   \* MAX_SELECTED_RECORDS
  MaxEvidence,   \* MAX_EVIDENCE_RECORDS
  None

ASSUME AgentAssumption ==
  /\ Brief \subseteq Record
  /\ \A q \in Query : Found[q] \subseteq Record
  /\ \A r \in Record : Traced[r] \subseteq Record
  /\ MaxSteps \in Nat \ {0}

-----------------------------------------------------------------------------
(* Tools.                                                                   *)

Requests(queries, records) ==
  [name : {"audit_search", "assertion_procedures"}, arg : queries]
    \cup [name : {"audit_get", "trace"}, arg : records \cup {Unknown}]

ToolError == [error |-> TRUE, shows |-> {}, cut |-> TRUE]
Shows(request, records) ==
  [error |-> FALSE, shows |-> records, cut |-> request \in Cut]

\* A record can be opened or traced only once a typed result has shown it.
Authorized(request, observed) == request.arg \in observed

ExecuteTool(request, observed) ==
  IF request.name \in {"audit_search", "assertion_procedures"}
  THEN Shows(request, Found[request.arg])
  ELSE IF ~Authorized(request, observed) THEN ToolError
  ELSE Shows(request, {request.arg} \cup IF request.name = "trace" THEN Traced[request.arg] ELSE {})

\* The records a result makes citable: its typed records, never an error's.
ObservedFrom(result) == IF result.error THEN {} ELSE result.shows

DiscoveryComplete(result) == ~result.error /\ ~result.cut

-----------------------------------------------------------------------------
(* The turn state.                                                          *)

Observation(tool, input, result) == [tool |-> tool, input |-> input, result |-> result]

\* Feedback to the model carries no records.
Feedback(tool) == Observation(tool, None, ToolError)
Silent == {"conversation_focus", "answer_validation", "agent_protocol"}

BriefResult == [error |-> FALSE, shows |-> Brief, cut |-> [name |-> "brief", arg |-> None] \in Cut]
Bootstrap == <<Observation("brief", None, BriefResult),
               Observation("assertion_procedures", None, BriefResult)>>

NewTurnState ==
  [observations |-> Bootstrap,
   used_tools |-> <<"brief", "assertion_procedures">>,
   observed |-> ObservedFrom(BriefResult),
   discovery_complete |-> DiscoveryComplete(BriefResult)]

\* The requests made so far: none is executed twice.
SeenRequests(observations) ==
  {observations[i].input : i \in {j \in DOMAIN observations : observations[j].tool \notin Silent}}
    \ {None}

Answered(request, state) ==
  IF request \in SeenRequests(state.observations)
  THEN ToolError
  ELSE ExecuteTool(request, state.observed)

\* A tool action.  One that also carries a final answer is only told so.
ApplyToolTurn(state, decision) ==
  LET request == decision.tool
      result == Answered(request, state)
  IN IF decision.final # None
     THEN [state EXCEPT !.observations = Append(@, Feedback("agent_protocol"))]
     ELSE [observations |-> Append(state.observations,
                                   Observation(request.name, request, result)),
           used_tools |-> Append(state.used_tools, request.name),
           observed |-> state.observed \cup ObservedFrom(result),
           discovery_complete |-> state.discovery_complete /\ DiscoveryComplete(result)]

-----------------------------------------------------------------------------
(* The final answer.                                                        *)

\* A plan either abstains or selects records; all of them shown before.
PlanIsValid(plan, observed) ==
  /\ plan.abstained = (plan.selected = {})
  /\ plan.selected \subseteq Record
  /\ plan.selected \subseteq observed
  /\ Cardinality(plan.selected) <= MaxSelected

\* The evidence of the claims, linked records included.
EvidenceOf(plan) == UNION {Cites[r] : r \in plan.selected}
WithinEvidenceBudget(plan) == Cardinality(EvidenceOf(plan)) <= MaxEvidence

\* Whether an action is a final answer the turn may end with.
Acceptable(decision, state) ==
  /\ decision.action = "final"
  /\ decision.tool = None
  /\ decision.final # None
  /\ PlanIsValid(decision.final, state.observed)
  /\ WithinEvidenceBudget(decision.final)

\* What a refused answer leaves behind.
Refused(state, decision) ==
  [state EXCEPT !.observations =
     Append(@, Feedback(IF decision.tool # None THEN "agent_protocol"
                        ELSE "answer_validation"))]

Response(state, decision, bundle, turns, evidenceComplete) ==
  [abstained |-> decision.final.abstained,
   selected |-> decision.final.selected,
   evidence |-> EvidenceOf(decision.final),
   bundle |-> bundle,
   turns |-> turns,
   tools_used |-> state.used_tools,
   complete |-> evidenceComplete /\ state.discovery_complete]

BlockedResponse(bundle) ==
  [abstained |-> TRUE, selected |-> {}, evidence |-> {}, bundle |-> bundle,
   turns |-> 0, tools_used |-> <<>>, complete |-> FALSE]

-----------------------------------------------------------------------------
(* The model.                                                               *)

Plans(records) == [abstained : BOOLEAN, selected : SUBSET (records \cup {Unknown})]

\* Every action the turn schema admits; an action may contradict its fields.
ToolDecisions(requests) == [action : {"tool"}, tool : requests, final : {None}]
FinalDecisions(records) == [action : {"final"}, tool : {None}, final : Plans(records)]
MuddledDecisions(requests) ==
  {[action |-> a, tool |-> CHOOSE r \in requests : TRUE,
    final |-> [abstained |-> TRUE, selected |-> {}]] : a \in {"tool", "final"}}

\* With no model call left, the schema of the answer admits a final one only.
MustFinalize(step, childCalls) == step + childCalls >= MaxSteps

Decisions(step, childCalls) ==
  LET requests == Requests(Query, Record)
  IN FinalDecisions(Record)
       \cup IF MustFinalize(step, childCalls) THEN {}
            ELSE ToolDecisions(requests) \cup MuddledDecisions(requests)

-----------------------------------------------------------------------------
(* The witness: a turn's state computed again from its observations alone.  *)

FocusResult(records) == [error |-> FALSE, shows |-> records, cut |-> FALSE]
Focus(records) == Observation("conversation_focus", None, FocusResult(records))

\* One observation of the replay.
Replayed(replay, o) ==
  LET expected == Answered(o.input, replay)
  IN CASE o.tool = "conversation_focus" ->
            [replay EXCEPT !.observations = Append(@, o),
                           !.observed = @ \cup o.result.shows]
       [] o.tool \in {"answer_validation", "agent_protocol"} ->
            [replay EXCEPT !.observations = Append(@, o)]
       [] OTHER ->
            [observations |-> Append(replay.observations,
                                     Observation(o.tool, o.input, expected)),
             used_tools |-> Append(replay.used_tools, o.tool),
             observed |-> replay.observed \cup ObservedFrom(expected),
             discovery_complete |-> replay.discovery_complete /\ DiscoveryComplete(expected)]

\* The replay of observations that follow the bootstrap.
Replay(observations) ==
  FoldLeft(Replayed, NewTurnState, SubSeq(observations, 3, Len(observations)))

\* The observations are those a turn with this focus could have made.
WitnessAccepts(observations, focus) ==
  /\ Len(observations) >= 2
  /\ SubSeq(observations, 1, 2) = Bootstrap
  /\ Replay(observations).observations = observations
  /\ {i \in DOMAIN observations : observations[i].tool = "conversation_focus"}
       = IF focus = None THEN {} ELSE {3}
  /\ focus # None => observations[3] = Focus(focus)

=============================================================================
