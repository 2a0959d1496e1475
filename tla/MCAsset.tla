------------------------------- MODULE MCAsset -------------------------------
(***************************************************************************)
(* Small instances of the upload of workbooks for TLC, in three cases:     *)
(* requests of one key that fail and die, requests whose power fails, and  *)
(* the gates of the web adapter in front of the service.                   *)
(***************************************************************************)
EXTENDS WorkbookAssetProperties, ExecutorGate, TLC

CONSTANTS k1, c1, c2, c3, u1, u2, r1, r2, r3

VARIABLE case    \* the case a behaviour belongs to; never changes

all == <<vars, gateVars, case>>

OneWorkbook == {c1}

Failing == INSTANCE WorkbookAsset WITH MaxOutages <- 0
Power == INSTANCE WorkbookAsset WITH
  MaxDeaths <- 0, MaxFaults <- 0, Workbook <- OneWorkbook

\* One thread, hence two slots, and a request that waits behind them.
ASSUME GateAssumption

AllInit == Init /\ GateInit /\ case \in {"failing", "power", "gate"}
AllNext ==
  /\ \/ case = "failing" /\ Failing!Next /\ UNCHANGED gateVars
     \/ case = "power" /\ Power!Next /\ UNCHANGED gateVars
     \/ case = "gate" /\ GateNext /\ UNCHANGED vars
  /\ UNCHANGED case

\* What must happen to an upload is never enabled in the case of the gates.
AllSpec == AllInit /\ [][AllNext]_all /\ Fairness
=============================================================================
