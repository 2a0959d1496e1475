--------------------------- MODULE MCAuditBundles ---------------------------
(***************************************************************************)
(* Small instances of the audit bundles for TLC, in three cases: readers   *)
(* beside writers, a conversion and a death ("read"), a replacement that   *)
(* fails ("fail"), and the reuse of stages over models, retrievers,        *)
(* reviews and conversions ("reuse").                                      *)
(***************************************************************************)
EXTENDS AuditBundleProperties, TLC

CONSTANTS p1, p2, s1, wb, m1, m2, r1, r2

VARIABLE case    \* the case a behaviour belongs to; never changes

all == <<vars, case>>

OneModel == {m1}
OneRetriever == {r1}

Reading == INSTANCE AuditBundles WITH
  Model <- OneModel, Retriever <- OneRetriever, MaxFaults <- 0
Failing == INSTANCE AuditBundles WITH
  Model <- OneModel, Retriever <- OneRetriever, MaxCrashes <- 0, MaxInputs <- 0
Reusing == INSTANCE AuditBundles WITH MaxFaults <- 0

\* One process at a time, on the bundle of the workbook.
OfWorkbook ==
  /\ \E p \in Process : op'[p] = NoOp
  /\ \A p \in Process : op'[p].scope \in {wb, None}

\* Reviews that approve: one that rejects writes the same files with less to
\* verify, and is left to the case of the reuse.
Approving == \A p \in Process : op[p].verdict # "rejected"
\* Prepares that are not forced: readers meet forced ones in the case "fail".
Unforced == \A p \in Process : ~ op[p].force

AllInit == Init /\ case \in {"read", "fail", "reuse"}
AllNext ==
  /\ \/ case = "read" /\ Reading!Next /\ Approving' /\ Unforced'
     \/ case = "fail" /\ Failing!Next /\ Approving'
     \/ case = "reuse" /\ Reusing!Next /\ OfWorkbook
  /\ UNCHANGED case
AllSpec == AllInit /\ [][AllNext]_all

ProcessSymmetry == Permutations(Process)
=============================================================================
