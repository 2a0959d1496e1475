------------------------------ MODULE MCPackage ------------------------------
(***************************************************************************)
(* Small instances of the converted packages for TLC: a source that is     *)
(* saved again ("change"), two processes without faults ("review"), and a  *)
(* newer converter after commands that died ("crash").                     *)
(***************************************************************************)
EXTENDS PackageProperties, TLC

CONSTANTS p1, p2, a1, a2, m1

VARIABLE case    \* the case a behaviour belongs to; never changes

all == <<vars, case>>

Changes ==
  /\ ops' <= 2 /\ crashes' <= 1
  /\ \A p \in Process : op'[p].version # 2 /\ op'[p].params # a2

Reviews == source' = 0 /\ crashes' = 0

\* One process at a time.
Crashes == source' = 0 /\ \E p \in Process : op'[p] = NoOp

AllInit == Init /\ case \in {"change", "review", "crash"}
AllNext ==
  /\ Next
  /\ \/ case = "change" /\ Changes
     \/ case = "review" /\ Reviews
     \/ case = "crash" /\ Crashes
  /\ UNCHANGED case
AllSpec == AllInit /\ [][AllNext]_all

ProcessSymmetry == Permutations(Process)
=============================================================================
