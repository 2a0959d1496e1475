-------------------------- MODULE MCAuditAggregate --------------------------
(***************************************************************************)
(* Small instances of the aggregation for TLC, in three cases: two sheets  *)
(* that change while their aggregate is made ("publish"), an aggregate     *)
(* that is made and loaded again, before or after the workbook was         *)
(* converted again ("load"), and publications of which one fails or dies   *)
(* ("undo").                                                               *)
(***************************************************************************)
EXTENDS AuditAggregateProperties, TLC

CONSTANTS p1, w1, w2, s1, s2, wb, m1, r1

VARIABLE case    \* the case a behaviour belongs to; never changes

all == <<allVars, case>>

Publishing == INSTANCE AuditAggregate
              WITH MaxJobs <- 1, MaxCrashes <- 0, MaxFaults <- 0, MaxInputs <- 0
Loading == INSTANCE AuditAggregate WITH MaxOps <- 2, MaxJobs <- 2, MaxCrashes <- 0, MaxFaults <- 0
Undoing == INSTANCE AuditAggregate WITH MaxOps <- 1, MaxInputs <- 0

\* With nothing stored a forced aggregation is an aggregation.
OfTwoSheets ==
  \A w \in Worker : ~ job'[w].force /\ job'[w].selection # {s2}

OfOneSheet ==
  /\ \A p \in Process : op'[p].scope # s2
  /\ \A w \in Worker : job'[w].selection \in {{s1}, All, None}

AllInit == AggregateInit /\ case \in {"publish", "load", "undo"}
AllNext ==
  /\ \/ case = "publish" /\ Publishing!AggregateNext /\ OfTwoSheets
     \/ case = "load" /\ Loading!AggregateNext /\ OfOneSheet
     \/ case = "undo" /\ Undoing!AggregateNext /\ OfOneSheet
  /\ UNCHANGED case
AllSpec == AllInit /\ [][AllNext]_all

WorkerSymmetry == Permutations(Worker)
=============================================================================
