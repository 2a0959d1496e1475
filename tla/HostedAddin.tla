----------------------------- MODULE HostedAddin -----------------------------
(***************************************************************************)
(* The add-in (OfficeProperties) and the host sessions through which its   *)
(* requests come to the service (EditHostProperties), side by side.        *)
(***************************************************************************)
EXTENDS OfficeProperties

CONSTANTS
  Routed,      \* the edits host sessions are issued for, a subset of Key
  Host, Worker, SessionTtl, MaxRev, MaxMoves, MaxClock

VARIABLES sessions, registry, moves, clock, worker

hosted == <<sessions, registry, moves, clock, worker>>

Door == INSTANCE EditHostProperties WITH Edit <- Routed

ASSUME DoorAssumption == Door!HostAssumption

\* A host session admits nobody for less than the binding of its edit, except
\* to answer what was published already, and that changes nothing
\* (_authorize_host, _authorize_published_host).
SessionsAreGoodFor ==
  /\ [](/\ Door!AuthorityIsTrue
        /\ Door!RecoveryIsAnswered)
  /\ [][Door!FallbackOnlyReplays]_(Door!vars)
=============================================================================
