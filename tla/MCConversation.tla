---------------------------- MODULE MCConversation ----------------------------
(***************************************************************************)
(* Small packages and questions for the conversation and for the audit     *)
(* agent it grew from.  The run checks several cases, each with the        *)
(* records, supplements and model calls it is about: several runs on one   *)
(* thread, and one run with many requests.                                 *)
(***************************************************************************)
EXTENDS ConversationProperties

CONSTANTS f1, f2, f3, q1, r1, r2, p1, s1, s2, i1, i2, i3

VARIABLES
  agent,    \* the run of the audit agent, on the package of the conversation
  case      \* the case a behaviour belongs to; never changes

all == <<vars, agent, case>>

\* f1 is in the briefing, f2 is found by a search, f3 is linked from f2.
Shown == {f1}
SearchHits == [q \in Query |-> {f2}]
NoLinks == [r \in Record |-> {}]
Evidence == [r \in Record |-> {r}]
ResearchHits == [q \in ResearchQuery |-> IF q = r2 THEN {} ELSE {p1}]
OneTarget == {{f1}}
TwoTargets == {{f1}, {f1, f2}}
Nothing == {}

Runs == Permutations(Invocation)
Started == {i \in Invocation : run[i].pc # "start"}

\* The only tools a case runs beside its supplements.
ToolsIn(names) ==
  \A i \in Invocation : run[i].pc = "tool" => thread.decision.tool.name \in names

-----------------------------------------------------------------------------
(* Several runs on one thread.                                              *)

\* Three runs of one model call each; the package is prepared again.
Crowd == INSTANCE ConversationProperties WITH
  Record <- {f1}, Query <- {}, Enabled <- {}, ResearchQuery <- {}, Citations <- {},
  Bases <- {}, Targets <- {}, Sheet <- {}, Source <- {"ledger"}, MaxSteps <- 1
\* Two runs that search, open and answer, with a focus cut at one record.
Ground == INSTANCE ConversationProperties WITH
  Record <- {f1, f2}, Enabled <- {}, ResearchQuery <- {}, Citations <- {},
  Bases <- {}, Targets <- {}, Sheet <- {}, Source <- {"ledger"}, Bundle <- {1}, MaxSteps <- 2
\* Two runs with research and without the tools of the agent; the second knows
\* the references of the first.
Refs == INSTANCE ConversationProperties WITH
  Record <- {f1}, Query <- {}, Enabled <- {"standards_research"}, ResearchQuery <- {r1},
  Citations <- {}, Bases <- {}, Targets <- {}, Sheet <- {}, Source <- {"ledger"},
  Bundle <- {1}, MaxSteps <- 3

\* Two runs that plan; the second starts from the answer of the first.
Follow == INSTANCE ConversationProperties WITH
  Record <- {f1}, Query <- {}, Enabled <- {"procedure_planning"}, ResearchQuery <- {},
  Citations <- {}, Bases <- OneTarget, Targets <- OneTarget, Sheet <- {}, Bundle <- {1},
  MaxSteps <- 3

ThreadNext ==
  \/ case = "crowd" /\ Crowd!Next
  \/ case = "ground" /\ Ground!Next /\ Cardinality(Started') <= 2
  \/ case = "refs" /\ Refs!Next /\ Cardinality(Started') <= 2 /\ ToolsIn({})'
  \/ case = "follow" /\ Follow!Next /\ Cardinality(Started') <= 2 /\ ToolsIn({})'

-----------------------------------------------------------------------------
(* One run with many requests.                                              *)

\* Every supplement, and a package prepared again.
Equipped == INSTANCE ConversationProperties WITH
  Record <- {f1}, Query <- {}, Sheet <- {s1}, Spelling <- {"canonical", "loose"},
  Bases <- OneTarget, Targets <- OneTarget, MaxInspection <- 2, MaxSteps <- 4
\* Searches, research and planning; the other tools are left to the agent's case.
Planner == INSTANCE ConversationProperties WITH
  Record <- {f1, f2}, Enabled <- {"standards_research", "procedure_planning"},
  ResearchQuery <- {r1}, Citations <- {}, Sheet <- {}, Bundle <- {1}
\* Inspections of two sheets, in two spellings, failed and repeated ones included.
Inspect == INSTANCE ConversationProperties WITH
  Record <- {f1}, Spelling <- {"canonical", "loose"}, Query <- {}, Enabled <- {"workbook_inspection"},
  ResearchQuery <- {}, Bases <- {}, Targets <- {}, Citations <- {}, Bundle <- {1},
  MaxSteps <- 4
\* The audit agent, with links and a truncated search.
Agent == INSTANCE AgentLoop WITH
  Traced <- [r \in Record |-> IF r = f2 THEN {f3} ELSE {}],
  Cites <- [r \in Record |-> IF r = f3 THEN {f3, f2} ELSE {r}],
  Cut <- {[name |-> "audit_search", arg |-> q1]},
  MaxSteps <- 4

RunNext ==
  /\ \/ case = "supplement" /\ Equipped!Next
     \/ case = "plan" /\ Planner!Next /\ ToolsIn({"audit_search"})'
     \/ case = "inspect" /\ Inspect!Next
  /\ Cardinality(Started') <= 1

-----------------------------------------------------------------------------

AllInit ==
  \/ /\ case \in {"crowd", "ground", "refs", "follow", "supplement", "plan", "inspect"}
     /\ Init /\ agent = None
  \/ case = "agent" /\ Agent!Init /\ Init
AllNext ==
  /\ \/ ThreadNext /\ UNCHANGED agent
     \/ RunNext /\ UNCHANGED agent
     \/ case = "agent" /\ Agent!Next /\ UNCHANGED <<packageLock, threadLock, thread, run>>
  /\ UNCHANGED case
AllSpec == AllInit /\ [][AllNext]_all

\* Each case by its own limits: its turns go through.
EveryTurnGoesThrough ==
  /\ case = "crowd" => Crowd!TurnGoesThrough
  /\ case = "ground" => Ground!TurnGoesThrough
  /\ case = "refs" => Refs!TurnGoesThrough
  /\ case = "follow" => Follow!TurnGoesThrough
  /\ case = "supplement" => Equipped!TurnGoesThrough
  /\ case = "plan" => Planner!TurnGoesThrough
  /\ case = "inspect" => Inspect!TurnGoesThrough

\* The answers of the audit agent hold.
AgentAnswersHold == case = "agent" => Agent!AgentIsTrue
=============================================================================
