------------------------------ MODULE JobPromise ------------------------------
(***************************************************************************)
(* What the processing service promises of a job: it is planned once for   *)
(* one workbook, bound once to one selection, and ends once, as a failure  *)
(* or with one bundle of exactly what was selected.  Runners, leases,      *)
(* locks, crashes and takeovers do not show.                               *)
(***************************************************************************)
CONSTANTS Job, Workbook, ExecutionKey, Selection, None,
          BundleOf(_, _, _)  \* a bundle holds a job's selection completely

VARIABLES
  phase,    \* [Job -> "absent", "planning", "awaiting", "executing", ...]
  subject,  \* [Job -> the workbook it is about]
  binding,  \* [Job -> <<key, selection>> or None]
  bundle    \* [Job -> its bundle or None]

promised == <<phase, subject, binding, bundle>>

PInit ==
  /\ phase = [j \in Job |-> "absent"]
  /\ subject = [j \in Job |-> None]
  /\ binding = [j \in Job |-> None]
  /\ bundle = [j \in Job |-> None]

Become(j, p) == phase' = [phase EXCEPT ![j] = p]

PSubmit(j, w) ==
  /\ phase[j] = "absent"
  /\ Become(j, "planning")
  /\ subject' = [subject EXCEPT ![j] = w]
  /\ UNCHANGED <<binding, bundle>>

PPlan(j) ==
  /\ phase[j] = "planning"
  /\ Become(j, "awaiting")
  /\ UNCHANGED <<subject, binding, bundle>>

PBind(j, key, sel) ==
  /\ phase[j] = "awaiting"
  /\ Become(j, "executing")
  /\ binding' = [binding EXCEPT ![j] = <<key, sel>>]
  /\ UNCHANGED <<subject, bundle>>

PPublish(j) ==
  /\ phase[j] = "executing"
  /\ Become(j, "published")
  /\ bundle'[j] # None
  /\ BundleOf(bundle'[j], j, binding[j][2])
  /\ bundle' = [bundle EXCEPT ![j] = bundle'[j]]
  /\ UNCHANGED <<subject, binding>>

PGiveUp(j) ==
  /\ phase[j] \in {"planning", "executing"}
  /\ Become(j, "failed")
  /\ UNCHANGED <<subject, binding, bundle>>

PNext ==
  \E j \in Job :
    \/ \E w \in Workbook : PSubmit(j, w)
    \/ PPlan(j)
    \/ \E key \in ExecutionKey, sel \in Selection : PBind(j, key, sel)
    \/ PPublish(j)
    \/ PGiveUp(j)

PSpec == PInit /\ [][PNext]_promised
=============================================================================
