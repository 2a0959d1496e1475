SPECIFICATION AllSpec
CONSTANTS
  f1 = f1
  f2 = f2
  f3 = f3
  q1 = q1
  r1 = r1
  r2 = r2
  p1 = p1
  s1 = s1
  s2 = s2
  i1 = i1
  i2 = i2
  i3 = i3
  Unknown = Unknown
  None = None
  Brief <- Shown
  Found <- SearchHits
  Traced <- NoLinks
  Cites <- Evidence
  Cut <- Nothing
  Hits <- ResearchHits
  MaxSelected = 2
  MaxEvidence = 2
  MaxResearch = 1
  MaxPlanning = 1
  MaxFocusTurns = 1
  MaxFocusRecords = 1
  Spelling = {"canonical"}
  Bundle = {1, 2}
  Ready = {1}
  Invocation = {i1, i2, i3}
  Record = {f1, f2, f3}
  Query = {q1}
  Enabled = {"standards_research", "procedure_planning", "workbook_inspection"}
  ResearchQuery = {r1, r2}
  Citations <- Shown
  Bases <- TwoTargets
  Targets <- TwoTargets
  Sheet = {s1, s2}
  Source = {"ledger", "raw"}
  MaxInspection = 3
  MaxSteps = 5
  MaxHistory = 2
CHECK_DEADLOCK FALSE
SYMMETRY Runs
INVARIANTS
  HistoryIsTrue
  TurnsAreGrounded
  EveryTurnGoesThrough
  SupplementsHaveTheirBasis
  AgentAnswersHold
PROPERTIES
  WrittenUnderItsBundle
