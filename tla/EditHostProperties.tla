------------------------- MODULE EditHostProperties -------------------------
(***************************************************************************)
(* What a host session is good for, and for how long.                      *)
(***************************************************************************)
EXTENDS EditHost

TypeOK ==
  /\ \A h \in Host : sessions[h] # None => sessions[h] \in HostSessions
  /\ \A s \in Session : registry[s] # None =>
       registry[s] \in OpenWorkbooks /\ registry[s].session = s
  /\ moves \in 0..MaxMoves /\ clock \in 0..MaxClock
  /\ \A p \in Worker : worker[p] # Idle =>
       /\ worker[p].pc \in Places
       /\ worker[p].op \in Issues \cup StoredReads \cup Recoverable \cup Commands \cup {None}
       /\ worker[p].code \in {None, "session", "binding", "route", "service", "fault"}
       /\ worker[p].pc = "effect" => worker[p].op \in Commands

Admitted(w) == w.pc \in {"service", "effect", "answered"} /\ w.op \notin Issues

\* A request that arrives after its session was revoked, or expired, is never
\* admitted, by the live binding nor by the recovery of a publication
\* (_record, resolve_stored).
DeadSessionsStayOut == \A p \in Worker : Admitted(worker[p]) => worker[p].alive

\* The three bindings a request compares are read one after another while
\* the registry moves.  Still, a request that saw no move from its arrival on
\* is admitted, or its session issued, only under the binding of its edit, or
\* for the recovery of a publication that is committed (_valid_record,
\* _authorize_published_host).  A report is left out: the adapter compares its
\* bindings too (verify_execution calls _authorize_host), the service it
\* serves says that a moved registry must not prevent one, and so neither the
\* admission nor the refusal of such a report is a promise of this code.
AuthorityIsCurrent ==
  \A p \in Worker :
    LET w == worker[p] IN
    /\ w.pc \in {"service", "effect", "create"}
    /\ w.op \notin StoredReads \cup {"verify_execution"}
    /\ w.moved = moves
    => \/ registry[BindingOf(w.id).session] = BindingOf(w.id)
       \/ w.op \in Recoverable \cup {"issue_published"} /\ edit[w.id].publication # 0

\* A step of a request admitted because its publication is committed changes nothing:
\* the fallback is for replay and recovery (publish_snapshot).
FallbackOnlyReplays ==
  \A p \in Worker : worker[p].fallback /\ worker[p].pc = "effect" /\ worker'[p].pc # "effect"
    => UNCHANGED avars

\* A publication whose answer was lost is asked for again through the same
\* session after the head and the open workbook have moved on.  The moved
\* binding is no reason to refuse it (_authorize_published_host: "Authorize
\* immutable replay/recovery after the raw source head has advanced").
RecoveryIsAnswered ==
  \A p \in Worker :
    LET w == worker[p] IN
    /\ w.op \in Recoverable /\ w.settled
    /\ w.op = "publish_verified_snapshot" => ExecFits(w)
    => w.code # "binding"

\* What a host session admits at every moment.
AuthorityIsTrue ==
  TypeOK /\ DeadSessionsStayOut /\ AuthorityIsCurrent
=============================================================================
