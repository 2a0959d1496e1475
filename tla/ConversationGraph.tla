-------------------------- MODULE ConversationGraph ---------------------------
(***************************************************************************)
(* Runs of run_audit_conversation_turn on one thread: each loads the        *)
(* package, waits for the lock of the thread, and drives the graph whose    *)
(* channels are checkpointed after every node.  Processes crash; others     *)
(* prepare the package again.                                               *)
(*                                                                          *)
(* `thread` is what survives: the channels of the last checkpoint and, with *)
(* the history, the artifacts it refers to.  `run` is what a process holds. *)
(***************************************************************************)
EXTENDS ConversationTurn

CONSTANTS
  Bundle,            \* identities of the committed bundle: 1, 2, ...
  Ready,             \* the bundles that are neither rejected nor not ready
  MaxHistory         \* MAX_HISTORY_TURNS

ASSUME ConversationAssumption ==
  /\ Bundle \subseteq Nat \ {0} /\ 1 \in Bundle
  /\ MaxHistory \in Nat /\ {MaxResearch, MaxPlanning, MaxInspection} \subseteq Nat
  /\ None \notin Invocation

VARIABLES
  package,           \* the bundle committed now
  packageLock,       \* the run that holds the package lock
  threadLock,        \* the run that holds the thread lock
  thread,            \* the checkpointed channels
  run                \* [Invocation -> the state of its process]

vars == <<package, packageLock, threadLock, thread, run>>

NoTurn == [observations |-> <<>>, used_tools |-> <<>>, observed |-> {},
           discovery_complete |-> FALSE]

NewThread == [bound |-> 0, history |-> <<>>, turn |-> NoTurn, decision |-> None,
              answer |-> None, step |-> 0]

Idle == [pc |-> "start", bundle |-> 0, witness |-> <<>>, child |-> 0, research |-> 0,
         planning |-> 0, inspection |-> 0, history |-> <<>>]

Init ==
  /\ package = 1
  /\ packageLock = None
  /\ threadLock = None
  /\ thread = NewThread
  /\ run = [i \in Invocation |-> Idle]

Goto(i, pc) == run' = [run EXCEPT ![i].pc = pc]

\* A node that raises ends the run; the channels stay as they were.
Ends(i, pc) ==
  /\ Goto(i, pc)
  /\ threadLock' = IF threadLock = i THEN None ELSE threadLock
  /\ packageLock' = IF packageLock = i THEN None ELSE packageLock
  /\ UNCHANGED <<package, thread>>

Fail(i) == Ends(i, "failed")

\* A node that returns: its channels are checkpointed.
Returns(i, channels, pc) ==
  /\ thread' = channels
  /\ Goto(i, pc)
  /\ UNCHANGED <<package, packageLock, threadLock>>

Accepted(i) == TurnStateAccepted(thread.turn, FocusOf(thread.history), run[i].witness)

-----------------------------------------------------------------------------
(* Before the graph.                                                        *)

\* The package is loaded before the thread is locked.
Prepare(i) ==
  /\ run[i].pc = "start"
  /\ run' = [run EXCEPT ![i].pc = "waiting", ![i].bundle = package]
  /\ UNCHANGED <<package, packageLock, threadLock, thread>>

LockThread(i) ==
  /\ run[i].pc = "waiting"
  /\ threadLock = None
  /\ threadLock' = i
  /\ Goto(i, "bind")
  /\ UNCHANGED <<package, packageLock, thread>>

-----------------------------------------------------------------------------
(* The nodes.                                                               *)

\* A thread is bound to one bundle for good; every turn starts from nothing.
Bind(i) ==
  /\ run[i].pc = "bind"
  /\ IF thread.bound \notin {0, run[i].bundle} \/ Len(thread.history) >= MaxHistory
     THEN Fail(i)
     ELSE Returns(i, [NewThread EXCEPT !.bound = run[i].bundle, !.history = thread.history],
                  IF run[i].bundle \in Ready THEN "bootstrap" ELSE "store_blocked")

BootstrapTurn(i) ==
  /\ run[i].pc = "bootstrap"
  /\ Returns(i, [thread EXCEPT !.turn = FocusedTurnState(thread.history)], "decide")

\* The model sees references in its observations, and may be handed older
\* ones by the question.
KnownRefs ==
  RefsOf(thread.turn.observations) \cup UNION {thread.history[k].refs : k \in DOMAIN thread.history}

Decide(i) ==
  /\ run[i].pc = "decide"
  /\ IF thread.step + run[i].child >= MaxSteps \/ ~Accepted(i)
     THEN Fail(i)
     ELSE \/ \E decision \in ConversationDecisions(thread.step + 1, run[i].child, KnownRefs) :
               Returns(i, [thread EXCEPT !.decision = decision, !.step = @ + 1],
                       Route(decision))
          \/ Fail(i)

ExecuteToolTurn(i) ==
  /\ run[i].pc = "tool"
  /\ IF Accepted(i)
     THEN Returns(i, [thread EXCEPT !.turn = ApplyToolTurn(@, thread.decision),
                                    !.decision = None], "decide")
     ELSE Fail(i)

\* What a supplement leaves: an observation, its witness, and the counts.
Supplement(i, outcome, counter) ==
  LET o == Observation(thread.decision.tool.name, thread.decision.tool, outcome.result)
      counts == o.tool # "procedure_planning"
  IN /\ thread' = [thread EXCEPT
                     !.turn.observations = Append(@, o),
                     !.turn.used_tools = Append(@, o.tool),
                     !.turn.discovery_complete = @ /\ (counts => ~o.result.error),
                     !.decision = None]
     /\ run' = [run EXCEPT ![i].pc = "decide",
                           ![i].witness = Append(@, o),
                           ![i].child = @ + outcome.calls,
                           ![i][counter] = @ + outcome.counted]
     /\ UNCHANGED <<package, packageLock, threadLock>>

Repeated == thread.decision.tool \in SeenRequests(thread.turn.observations)

\* One later call of the main model stays reserved.
ChildModelCallBudget(i) == MaxSteps - thread.step - run[i].child - 1

ExecuteResearch(i) ==
  /\ run[i].pc = "research"
  /\ IF ~Accepted(i) \/ thread.decision.final # None THEN Fail(i)
     ELSE \E outcome \in IF Repeated THEN {Refusal}
                         ELSE ResearchOutcomes(thread.decision.tool, i, run[i].research,
                                               ChildModelCallBudget(i)) :
            Supplement(i, outcome, "research")

ExecutePlan(i) ==
  /\ run[i].pc = "planning"
  /\ IF ~Accepted(i) \/ thread.decision.final # None THEN Fail(i)
     ELSE \E outcome \in IF Repeated THEN {Refusal}
                         ELSE PlanningOutcomes(thread.decision.tool, i, run[i].planning,
                                               ChildModelCallBudget(i), thread.turn.observed,
                                               OfKind(RefsOf(thread.turn.observations),
                                                      "research")) :
            Supplement(i, outcome, "planning")

\* The package is compared with the bundle before the workbook is read.
ExecuteInspection(i) ==
  LET count == run[i].inspection
  IN /\ run[i].pc = "inspection"
     /\ IF ~Accepted(i) THEN Fail(i)
        ELSE IF Repeated THEN Supplement(i, Refusal, "inspection")
        ELSE IF ~InspectionAllowed(thread.decision.tool.arg, count, thread.turn.observations)
        THEN Supplement(i, Outcome(ToolError, 0, InspectionCounted(count)), "inspection")
        ELSE IF package # run[i].bundle THEN Fail(i)
        ELSE Goto(i, "reading") /\ UNCHANGED <<package, packageLock, threadLock, thread>>

\* ... and again once it is; an unreadable source is only an error result.
InspectionReturns(i) ==
  /\ run[i].pc = "reading"
  /\ \E result \in InspectionResults(thread.decision.tool.arg, i) :
       IF ~result.error /\ package # run[i].bundle THEN Fail(i)
       ELSE Supplement(i, Outcome(result, 0, 1), "inspection")

SelectionStands(decision) ==
  SupplementsSelected(decision.final.refs, thread.turn.observations)

\* AgentLoop has the steps of the final evidence check; here it is one.
Finalize(i) ==
  LET decision == BaseDecision(thread.decision)
      refused == [thread EXCEPT !.decision = None]
  IN /\ run[i].pc = "finalize"
     /\ IF ~Accepted(i) THEN Fail(i)
        ELSE IF ~Acceptable(decision, thread.turn)
        THEN Returns(i, [refused EXCEPT !.turn = Refused(@, decision)], "decide")
        ELSE IF package # run[i].bundle THEN Fail(i)
        ELSE IF ~SelectionStands(decision)
        THEN Returns(i, [refused EXCEPT
                           !.turn.observations = Append(@, Feedback("answer_validation"))],
                     "decide")
        ELSE \/ \E evidenceComplete \in BOOLEAN :
                  Returns(i, [refused EXCEPT
                                !.answer = [response |-> Response(thread.turn, decision,
                                                                  run[i].bundle, thread.step,
                                                                  evidenceComplete),
                                            refs |-> decision.final.refs]],
                          "commit")
             \/ Fail(i)

StoreBlocked(i) ==
  /\ run[i].pc = "store_blocked"
  /\ Returns(i, [thread EXCEPT !.answer = [response |-> BlockedResponse(run[i].bundle),
                                           refs |-> {}]], "commit")

-----------------------------------------------------------------------------
(* The commit.                                                              *)

FaultCommitUnpinned(i) ==
  /\ run[i].pc = "commit"
  /\ Goto(i, "pinned")
  /\ UNCHANGED <<package, packageLock, threadLock, thread>>

PinPackage(i) ==
  /\ run[i].pc = "commit"
  /\ packageLock = None
  /\ packageLock' = i
  /\ Goto(i, "pinned")
  /\ UNCHANGED <<package, threadLock, thread>>

CheckBundle(i) ==
  /\ run[i].pc = "pinned"
  /\ IF package = run[i].bundle
     THEN Goto(i, "write") /\ UNCHANGED <<package, packageLock, threadLock, thread>>
     ELSE Fail(i)

TurnRecord(i) ==
  [turn_index |-> Len(thread.history) + 1, invocation |-> i,
   response |-> thread.answer.response, refs |-> thread.answer.refs,
   observations |-> thread.turn.observations]

Committable(i) ==
  /\ run[i].bundle \in Ready => Accepted(i)
  /\ ResponseStands(thread.answer, thread.turn.observations)
  /\ thread.answer.response.bundle = thread.bound

FaultThreadLetGo(i) ==
  /\ run[i].pc = "write"
  /\ IF Committable(i)
     THEN /\ run' = [run EXCEPT ![i].pc = "written",
                                ![i].history = Append(thread.history, TurnRecord(i))]
          /\ packageLock' = None
          /\ threadLock' = None
          /\ UNCHANGED <<package, thread>>
     ELSE Fail(i)

\* The turn record and the new history are written; the lock is let go.
WriteTurn(i) ==
  /\ run[i].pc = "write"
  /\ IF Committable(i)
     THEN /\ run' = [run EXCEPT ![i].pc = "written",
                                ![i].history = Append(thread.history, TurnRecord(i))]
          /\ packageLock' = IF packageLock = i THEN None ELSE packageLock
          /\ UNCHANGED <<package, threadLock, thread>>
     ELSE Fail(i)

\* The thread has the turn once the node's channels are checkpointed.
CheckpointTurn(i) ==
  /\ run[i].pc = "written"
  /\ Returns(i, [thread EXCEPT !.history = run[i].history], "returning")

\* _turn_result reads the turn it committed, still under the thread's lock.
ReturnTurn(i) ==
  LET turn == Last(run[i].history)
  IN /\ run[i].pc = "returning"
     /\ IF ResponseStands(turn, turn.observations) THEN Ends(i, "done") ELSE Fail(i)

-----------------------------------------------------------------------------
(* The environment.                                                         *)

\* A process dies: its locks are released, what it held is lost.
Crash(i) ==
  /\ run[i].pc \notin {"start", "done", "failed", "lost"}
  /\ Ends(i, "lost")

\* Preparation commits under the package lock; an identity never returns.
PackagePreparedAgain ==
  /\ packageLock = None
  /\ package + 1 \in Bundle
  /\ package' = package + 1
  /\ UNCHANGED <<packageLock, threadLock, thread, run>>

Step(i) ==
  \/ Prepare(i) \/ LockThread(i) \/ Bind(i) \/ BootstrapTurn(i) \/ Decide(i) \/ ExecuteToolTurn(i)
  \/ ExecuteResearch(i) \/ ExecutePlan(i) \/ ExecuteInspection(i) \/ InspectionReturns(i)
  \/ Finalize(i) \/ StoreBlocked(i) \/ PinPackage(i) \/ CheckBundle(i) \/ WriteTurn(i)
  \/ CheckpointTurn(i) \/ ReturnTurn(i)

Next == (\E i \in Invocation : Step(i) \/ Crash(i)) \/ PackagePreparedAgain

Spec == Init /\ [][Next]_vars

=============================================================================
