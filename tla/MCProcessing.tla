---------------------------- MODULE MCProcessing ----------------------------
(***************************************************************************)
(* Small instances of the processing service for TLC.  A run checks two    *)
(* cases: jobs from their start on, and the execution of a planned job.    *)
(***************************************************************************)
EXTENDS ProcessingProperties, TLC

VARIABLE case    \* the case a behaviour belongs to; never changes

all == <<vars, case>>

CONSTANTS j1, w1, w2, k1, k2, sheet1, sheet2, r1, r2

Both     == [mode |-> "all_sheets", sheets |-> {sheet1, sheet2}]
One      == [mode |-> "selected_sheets", sheets |-> {sheet1}]
Book     == [mode |-> "workbook", sheets |-> {}]

StartOf(j, w) == [job |-> j, workbook |-> w]
Select(j, key, sel) == [job |-> j, key |-> key, selection |-> sel]

\* Two start commands under one key: the second is a conflict.
Starts == {StartOf(j1, w1), StartOf(j1, w2)}

\* One key reused for another selection, one selection under two keys.
OneScope == {Select(j1, k1, One), Select(j1, k1, Book), Select(j1, k2, One)}
TwoScopes == {Select(j1, k1, Both), Select(j1, k1, One)}
NoCommands == {}
InsistOne == {Select(j1, k1, One)}
InsistTwo == {Select(j1, k1, Both)}

-----------------------------------------------------------------------------
(* The state in which planning leaves a job: every execution run starts     *)
(* here.                                                                    *)

PlannedInit ==
  /\ jobs = [j \in Job |-> [NoJob EXCEPT !.status = "awaiting_scope",
                                         !.workbook = w1, !.fence = 1]]
  /\ bundles = [j \in Job |-> None]
  /\ runner = [p \in Runner |-> Idle]
  /\ lock = [j \in Job |-> None]
  /\ staging = [j \in Job |-> [EmptyStaging EXCEPT !.source = TRUE, !.package = TRUE]]
  /\ store = {}

-----------------------------------------------------------------------------
(* The cases and the runs over them.                                        *)

Plan == INSTANCE ProcessingService WITH StartCommand <- Starts, ScopeCommand <- OneScope, LeaseTtl <- 2
Exec == INSTANCE ProcessingService WITH StartCommand <- NoCommands, ScopeCommand <- TwoScopes
End == INSTANCE ProcessingProperties WITH StartCommand <- Starts, ScopeCommand <- InsistOne
Retry == INSTANCE ProcessingProperties WITH StartCommand <- NoCommands, ScopeCommand <- InsistTwo

AllScopes == OneScope \cup TwoScopes

SafeInit ==
  \/ case = "plan" /\ Init
  \/ case = "exec" /\ PlannedInit
SafeNext ==
  /\ \/ case = "plan" /\ Plan!Next
     \/ case = "exec" /\ Exec!Next
  /\ UNCHANGED case

SafeSpec == SafeInit /\ [][SafeNext]_all

\* A planned job takes only steps of the promise; one that starts keeps all of it.
ServiceKeepsPromise ==
  /\ case = "plan" => Promise!PInit
  /\ [][Promise!PNext]_(Promise!promised)

\* Liveness, without symmetry.
LiveInit ==
  \/ case = "end" /\ Init
  \/ case = "retry" /\ PlannedInit
LiveNext ==
  /\ \/ case = "end" /\ End!Next
     \/ case = "retry" /\ Retry!Next
  /\ UNCHANGED case
LiveSpec ==
  /\ LiveInit /\ [][LiveNext]_all
  /\ case = "end" => End!Fairness
  /\ case = "retry" => Retry!Fairness

RunnerSymmetry == Permutations(Runner)
=============================================================================
