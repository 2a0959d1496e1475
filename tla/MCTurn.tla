------------------------------- MODULE MCTurn -------------------------------
(***************************************************************************)
(* Small instances of the conversation turn service for TLC, in two cases: *)
(* turns repeated over faults, and three calls at the lock of one thread.  *)
(***************************************************************************)
EXTENDS TurnProperties, TLC

CONSTANTS k1, k2, k3, t1, b1, s1, s2, sheetA, sheetB, w1, w2, w3

VARIABLE case    \* the case a behaviour belongs to; never changes

all == <<vars, case>>

\* A legacy snapshot without a published scope, one with, and no mapping.
Legacy == [id |-> s1, scope |-> None]
Scoped == [id |-> s2, scope |-> sheetA]
Missing == [id |-> None, scope |-> None]

Snapshots == {Legacy, Scoped, Missing}
OneSnapshot == {Legacy}

Ask(t, scope) == [bundle |-> b1, thread |-> t, scope |-> scope]

\* On one thread with and without a scope, and on a thread of its own.
Mixed == {Ask(t1, None), Ask(t1, sheetB), Ask(None, None)}
OneThread == {Ask(t1, None)}

\* Two workers repeat turns under two keys.
Repeat == INSTANCE TurnService WITH MaxCalls <- 2
RepeatNext ==
  /\ Repeat!Next
  /\ worker'[w3] = worker[w3] /\ claims'[k3] = claims[k3]

\* Three workers, each with a turn of its own, on one thread.
Lock == INSTANCE TurnService WITH
  Snapshot <- OneSnapshot, Command <- OneThread, MaxFaults <- 0, MaxMoves <- 0

LiveInit == Init /\ case \in {"repeat", "lock"}
LiveNext ==
  /\ \/ case = "repeat" /\ RepeatNext
     \/ case = "lock" /\ Lock!Next
  /\ UNCHANGED case
\* A step of a call is enabled in a case whenever Advance is.
LiveSpec == LiveInit /\ [][LiveNext]_all /\ Fairness
=============================================================================
