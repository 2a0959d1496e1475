------------------------------ MODULE AgentLoop ------------------------------
(***************************************************************************)
(* run_audit_agent: one bounded turn over a prepared package that others    *)
(* may prepare again meanwhile.  The documents are loaded once; the traces  *)
(* read the package again.                                                  *)
(***************************************************************************)
EXTENDS AgentTurn

CONSTANTS
  Bundle,        \* identities of the package's committed bundle: 1, 2, ...
  Ready          \* the bundles that are neither rejected nor not ready

VARIABLES
  package,       \* the bundle committed now
  agent          \* the run

vars == <<package, agent>>

NoAgent == [pc |-> "prepare", bundle |-> 0, state |-> NewTurnState, step |-> 0,
            decision |-> None, hydrated |-> 0, response |-> None]

Init == package \in Bundle /\ agent = NoAgent

\* load_validated_audit_bundle: a rejected or unready package is answered
\* without the model.
Prepare ==
  /\ agent.pc = "prepare"
  /\ agent' = IF package \in Ready
              THEN [agent EXCEPT !.pc = "request", !.bundle = package]
              ELSE [agent EXCEPT !.pc = "done", !.bundle = package,
                                 !.hydrated = package,
                                 !.response = BlockedResponse(package)]
  /\ UNCHANGED package

\* The loop has max_steps turns of the model.
ModelAnswers ==
  /\ agent.pc = "request"
  /\ agent.step < MaxSteps
  /\ \E decision \in Decisions(agent.step + 1, 0) :
       agent' = [agent EXCEPT !.pc = IF decision.action = "tool" THEN "apply" ELSE "judge",
                              !.step = @ + 1,
                              !.decision = decision]
  /\ UNCHANGED package

\* A provider error ends the run, as does the end of the loop.
ModelFails ==
  /\ agent.pc = "request"
  /\ agent' = [agent EXCEPT !.pc = "failed"]
  /\ UNCHANGED package

Apply ==
  /\ agent.pc = "apply"
  /\ agent' = [agent EXCEPT !.pc = "request",
                            !.state = ApplyToolTurn(@, agent.decision),
                            !.decision = None]
  /\ UNCHANGED package

Judge ==
  /\ agent.pc = "judge"
  /\ agent' = IF Acceptable(agent.decision, agent.state)
              THEN [agent EXCEPT !.pc = "unchanged"]
              ELSE [agent EXCEPT !.pc = "request",
                                 !.state = Refused(@, agent.decision),
                                 !.decision = None]
  /\ UNCHANGED package

\* _assert_bundle_unchanged, before and after the evidence is traced.
SameBundle(next) ==
  agent' = [agent EXCEPT !.pc = IF package = agent.bundle THEN next ELSE "failed"]

CheckBefore == agent.pc = "unchanged" /\ SameBundle("hydrate") /\ UNCHANGED package

\* The traces of the final evidence read what is committed now, or fail.
Hydrate ==
  /\ agent.pc = "hydrate"
  /\ \/ agent' = [agent EXCEPT !.pc = "recheck", !.hydrated = package]
     \/ agent' = [agent EXCEPT !.pc = "failed"]
  /\ UNCHANGED package

FaultNoRecheck ==
  /\ agent.pc = "recheck"
  /\ agent' = [agent EXCEPT !.pc = "respond"]
  /\ UNCHANGED package

CheckAfter == agent.pc = "recheck" /\ SameBundle("respond") /\ UNCHANGED package

Respond ==
  /\ agent.pc = "respond"
  /\ \E evidenceComplete \in BOOLEAN :
       agent' = [agent EXCEPT !.pc = "done",
                              !.response = Response(agent.state, agent.decision, agent.bundle,
                                                    agent.step, evidenceComplete)]
  /\ UNCHANGED package

\* Somebody prepares the package again; an identity never returns.
PackagePreparedAgain ==
  /\ package + 1 \in Bundle
  /\ package' = package + 1
  /\ UNCHANGED agent

Run == \/ Prepare \/ ModelAnswers \/ ModelFails \/ Apply \/ Judge
       \/ CheckBefore \/ Hydrate \/ CheckAfter \/ Respond

Next == Run \/ PackagePreparedAgain

Spec == Init /\ [][Next]_vars

-----------------------------------------------------------------------------
(* What the agent must get right.                                           *)

\* The state of the run (_AuditAgentTurnState).
TypeOK ==
  /\ agent.pc \in {"prepare", "request", "apply", "judge", "unchanged", "hydrate",
                   "recheck", "respond", "done", "failed"}
  /\ agent.step \in 0 .. MaxSteps
  /\ agent.state.observed \subseteq Record
  /\ Len(agent.state.used_tools) <= 2 + MaxSteps

\* The records a run has been shown, by following its observations.
ShownTo(observations) ==
  UNION {observations[i].result.shows : i \in DOMAIN observations}

\* An answer rests only on records the model was shown in this run, however
\* many refused answers, errors and repeated requests came before
\* (_validate_plan, _observed_from_result).
AnswerIsGrounded ==
  agent.response # None => agent.response.selected \subseteq ShownTo(agent.state.observations)

\* The evidence of an answer was read from the bundle the answer names.
EvidenceFromItsBundle == agent.response # None => agent.hydrated = agent.response.bundle

\* What a record is opened by was shown before: a request that names another
\* one shows nothing (_execute_tool).
NothingOpenedUnseen ==
  \A i \in DOMAIN agent.state.observations :
    LET o == agent.state.observations[i]
    IN o.tool \in {"audit_get", "trace"} /\ ~o.result.error =>
         o.input.arg \in ShownTo(SubSeq(agent.state.observations, 1, i - 1))

\* The state is what its observations alone say it is: a checkpoint of it
\* grants no authority of its own (_audit_agent_observation_witness).
WitnessAgrees ==
  /\ WitnessAccepts(agent.state.observations, None)
  /\ Replay(agent.state.observations) = agent.state

\* The last model call always ends in an answer that is judged: no tool is
\* left without a call to use its result (remaining_model_calls).
NoToolAfterLastCall == agent.pc = "apply" => agent.step < MaxSteps

\* What the agent answers, and how it came to it, holds.
AgentIsTrue ==
  /\ TypeOK
  /\ AnswerIsGrounded /\ EvidenceFromItsBundle /\ NothingOpenedUnseen
  /\ WitnessAgrees /\ NoToolAfterLastCall

=============================================================================
