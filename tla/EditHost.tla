------------------------------ MODULE EditHost ------------------------------
(***************************************************************************)
(* The host sessions of the Office add-in (workbook_edit_host.py) and the  *)
(* way the edit web adapter authorises a request by one of them            *)
(* (workbook_edit_web.py), in front of what the edit service promises      *)
(* (ApprovedEdit).  A host session pins the binding of an edit to an open  *)
(* workbook; the registry of open workbooks, the published head and the    *)
(* clock move between any two of the reads a request makes.                *)
(***************************************************************************)
EXTENDS ApprovedEdit

CONSTANTS
  Host,        \* host session ids; a fresh one is drawn for each session
  Worker,      \* requests served at the same time
  Edit,        \* the edits, a subset of Key
  SessionTtl,  \* session_ttl
  MaxRev,      \* bound on the revisions of an open workbook
  MaxMoves,    \* bound on the changes of the registry
  MaxClock     \* bound on the clock

VARIABLES
  sessions,  \* [Host -> the host session record, or None]
  registry,  \* [Session -> the binding now registered for it, or None]
  moves,     \* number of changes of the registry
  clock,
  worker     \* [Worker -> the request it serves]

hostVars == <<sessions, registry, moves, clock, worker>>
vars == <<avars, hostVars>>

Policy == {"required", "session_only"}

\* Who may call what: the product host issues sessions, everything else goes
\* through one.  Stored reads do not ask for the live binding.
Issues == {"issue", "issue_published"}
StoredReads == {"get_workflow", "get_snapshot_publication"}
\* What falls back on a committed publication when the binding has moved.
Recoverable == {"publish_verified_snapshot", "get_host_bootstrap"}
\* propose names an open workbook and takes no host session.
Commands == {"preview", "approve", "reject", "claim_execution", "mark_apply_started",
             "abort_claim", "verify_execution", "publish_verified_snapshot"}
\* The commands whose service reads the registry again; the others look at
\* the stored edit alone.
Bound == {"preview", "approve", "reject", "claim_execution", "mark_apply_started"}

States == {"absent", "proposed", "previewed", "approved", "rejected", "claimed", "apply_started",
           "aborted_before_apply", "stale_precondition", "session_verified", "indeterminate",
           "verification_failed"}

\* What is asked, what the service stores of an edit, and a host session.
Requests ==
  [op : Commands, key : Key, id : Edit, session : Session, exec : Key \cup {None},
   required : BOOLEAN,
   witness : [outcome : {"applied", "indeterminate", "stale_precondition", None},
              before : BOOLEAN, after : BOOLEAN]]
OpenWorkbooks == [session : Session, book : Book, rev : 1..MaxRev]
Documents ==
  [state : States, binding : OpenWorkbooks \cup {None}, exec : Key \cup {None}, fence : Nat,
   required : BOOLEAN, publication : Nat]
HostSessions ==
  [id : Edit, binding : OpenWorkbooks, policy : Policy, expires : Nat, revoked : BOOLEAN]

\* What an instance assumes of the constants.
HostAssumption ==
  /\ Edit \subseteq Key /\ Request \subseteq Requests
  /\ SessionTtl \in Nat \ {0} /\ MaxRev \in Nat \ {0} /\ MaxMoves \in Nat /\ MaxClock \in Nat
  /\ None \notin Key \cup {"binding"} /\ None \notin HostSessions

\* alive and moved are the life of the session and the count of moves when
\* the request arrived, settled whether its publication was committed then.
Idle == [pc |-> "idle", op |-> None, request |-> None, id |-> None, host |-> None,
         policy |-> None, current |-> None, code |-> None, fallback |-> FALSE,
         alive |-> FALSE, moved |-> 0, settled |-> FALSE]

Places == {"idle", "record", "current", "workflow", "head", "stored", "published", "create",
           "service", "effect", "answered", "refused"}

BindingOf(i) == edit[i].binding
Alive(h) == sessions[h] # None /\ ~ sessions[h].revoked /\ clock < sessions[h].expires
OnHead(b) == head[b.book] \in {0, b.rev}

-----------------------------------------------------------------------------
Goes(p, pc) == worker' = [worker EXCEPT ![p].pc = pc]
Refuse(p, code) == worker' = [worker EXCEPT ![p].pc = "refused", ![p].code = code]
Keeps == UNCHANGED <<avars, sessions, registry, moves, clock>>

\* A request arrives for edit i, which was proposed, through session h.
Arrives(p, op, r, i, h, policy) ==
  /\ worker[p].pc = "idle" /\ edit[i].state # "absent"
  /\ worker' = [worker EXCEPT ![p] =
       [Idle EXCEPT !.op = op, !.request = r, !.id = i, !.host = h, !.policy = policy,
                    !.pc = CASE op = "issue" -> "current"
                             [] op = "issue_published" -> "published"
                             [] OTHER -> "record",
                    !.alive = Alive(h), !.moved = moves,
                    !.settled = edit[i].publication # 0]]
  /\ Keeps

\* An id that was never issued is refused like a revoked one, and left out.
Command(p, r, h) ==
  r.op \in Commands /\ sessions[h] # None /\ Arrives(p, r.op, r, r.id, h, None)
Read(p, op, i, h) ==
  /\ op \in StoredReads \cup {"get_host_bootstrap"} /\ sessions[h] # None
  /\ Arrives(p, op, None, i, h, None)
Issue(p, op, i, h, policy) ==
  /\ op \in Issues /\ sessions[h] = None
  /\ \A q \in Worker : worker[q].op \in Issues => worker[q].host # h
  /\ op = "issue_published" => policy = "required"
  /\ Arrives(p, op, None, i, h, policy)

\* _record: the session exists, is not revoked and has not expired.
Lives(s) == ~ s.revoked /\ clock < s.expires

\* resolve, or resolve_stored for a stored read: the record comes first.
Record(p) ==
  LET w == worker[p] IN
  /\ w.pc = "record"
  /\ IF ~ Lives(sessions[w.host])
     THEN Refuse(p, "session")
     ELSE IF w.op \notin StoredReads
     THEN Goes(p, "current")
     ELSE IF sessions[w.host].id = w.id
     THEN Goes(p, "service")
     ELSE Refuse(p, "route")
  /\ Keeps

\* The binding moved or is gone: a publication and a bootstrap may still be
\* the recovery of a completed one.
Unbound(p) == IF worker[p].op \in Recoverable THEN Goes(p, "stored") ELSE Refuse(p, "binding")

\* The product host's resolver reads the registry.
Current(p) ==
  LET s == BindingOf(worker[p].id).session IN
  /\ worker[p].pc = "current"
  /\ IF registry[s] = None
     THEN Unbound(p)
     ELSE worker' = [worker EXCEPT ![p].pc = "workflow", ![p].current = registry[s]]
  /\ Keeps

\* The other resolver asks the service for the edit's binding, which it gives
\* only while the registry agrees with it ...
Workflow(p) ==
  LET b == BindingOf(worker[p].id) IN
  /\ worker[p].pc = "workflow"
  /\ IF registry[b.session] = b THEN Goes(p, "head") ELSE Unbound(p)
  /\ Keeps

\* The claim names its policy; a route must be the session's own, and durable
\* publication needs a session that requires it.
Fits(w, s) ==
  /\ s.id = w.id
  /\ w.op = "claim_execution" => w.request.session = s.binding.session
  /\ w.op = "publish_verified_snapshot" => s.policy = "required"

\* ... and while the published head is the edit's base.  Then the three
\* bindings are compared, and the route.
CompareBindings(p) ==
  LET w == worker[p]
      b == BindingOf(w.id)
  IN
  /\ w.pc = "head"
  /\ IF ~ OnHead(b) \/ w.current # b \/ (w.op \notin Issues /\ sessions[w.host].binding # b)
     THEN Unbound(p)
     ELSE IF w.op \in Issues
     THEN Goes(p, "create")
     ELSE IF Fits(w, sessions[w.host])
     THEN Goes(p, "service")
     ELSE Refuse(p, "route")
  /\ Keeps

\* _authorize_published_host: the record again, now without the live binding,
Stored(p) ==
  LET w == worker[p] IN
  /\ w.pc = "stored"
  /\ IF ~ Lives(sessions[w.host])
     THEN Refuse(p, "session")
     ELSE IF Fits(w, sessions[w.host])
     THEN Goes(p, "published")
     ELSE Refuse(p, "route")
  /\ Keeps

ExecFits(w) ==
  /\ edit[w.id].exec # None
  /\ w.op = "publish_verified_snapshot" => edit[w.id].exec = w.request.exec

FaultPublicationOf(w) == ExecFits(w)
PublicationOf(w) == ExecFits(w) /\ edit[w.id].publication # 0

\* and the publication of the very execution the request is about; for
\* issue_published, the binding of a published edit.
Published(p) ==
  LET w == worker[p] IN
  /\ w.pc = "published"
  /\ worker' = [worker EXCEPT
       ![p].fallback = TRUE,
       ![p].pc = IF ~ PublicationOf(w) THEN "refused"
                 ELSE IF w.op \in Issues THEN "create" ELSE "service",
       ![p].code = IF PublicationOf(w) THEN None ELSE "binding"]
  /\ Keeps

\* _issue_binding: the clock and the new record.
Create(p) ==
  LET w == worker[p] IN
  /\ w.pc = "create"
  /\ sessions' = [sessions EXCEPT ![w.host] =
       [id |-> w.id, binding |-> BindingOf(w.id), policy |-> w.policy,
        expires |-> clock + SessionTtl, revoked |-> FALSE]]
  /\ Goes(p, "answered")
  /\ UNCHANGED <<avars, registry, moves, clock>>

-----------------------------------------------------------------------------
(***************************************************************************)
(* The service behind the adapter.                                         *)
(***************************************************************************)
\* A completed command is answered from its receipt; some commands read the
\* registry and the head again; a read is answered with what is stored.
Serve(p) ==
  LET w == worker[p]
      b == BindingOf(w.id)
  IN
  /\ w.pc = "service"
  /\ IF w.op \notin Commands \/ receipts[w.request.key] # None
     THEN Goes(p, "answered")
     ELSE IF w.op \in Bound /\ ~ (registry[b.session] = b /\ OnHead(b))
     THEN Refuse(p, "service")
     ELSE Goes(p, "effect")
  /\ Keeps

Perform(r) ==
  \/ Move(r, "preview", "proposed", "previewed")
  \/ Move(r, "approve", "previewed", "approved")
  \/ Move(r, "reject", "previewed", "rejected")
  \/ Hold(r) \/ Start(r) \/ GiveUp(r) \/ Report(r) \/ Advance(r)

\* A claim through a session takes the session's policy.
Effective(p) ==
  IF worker[p].op = "claim_execution"
  THEN [worker[p].request EXCEPT !.required = sessions[worker[p].host].policy = "required"]
  ELSE worker[p].request

\* The command takes effect, or the service refuses it for a reason of its
\* own: the state of the edit, a lease, its storage.
Take(p) ==
  /\ worker[p].pc = "effect"
  /\ \/ Perform(Effective(p)) /\ Goes(p, "answered")
     \/ UNCHANGED avars /\ Refuse(p, "service")
  /\ UNCHANGED <<sessions, registry, moves, clock>>

\* A resolver or the repository is unavailable.
Fault(p) ==
  /\ worker[p].pc \in {"record", "current", "workflow", "head", "stored", "published", "create"}
  /\ Refuse(p, "fault")
  /\ Keeps

Return(p) ==
  /\ worker[p].pc \in {"answered", "refused"}
  /\ worker' = [worker EXCEPT ![p] = Idle]
  /\ Keeps

-----------------------------------------------------------------------------
(***************************************************************************)
(* The product host, and time.                                             *)
(***************************************************************************)
Revoke(h) ==
  /\ sessions[h] # None /\ ~ sessions[h].revoked
  /\ sessions' = [sessions EXCEPT ![h].revoked = TRUE]
  /\ UNCHANGED <<avars, registry, moves, clock, worker>>

\* A workbook is opened, saved to another revision, or closed.
Register(s, b) ==
  /\ moves < MaxMoves /\ registry[s] # b
  /\ registry' = [registry EXCEPT ![s] = b]
  /\ moves' = moves + 1
  /\ UNCHANGED <<avars, sessions, clock, worker>>

Bindings(s) == {[session |-> s, book |-> b, rev |-> n] : b \in Book, n \in 1..MaxRev} \cup {None}

Tick ==
  /\ clock < MaxClock
  /\ clock' = clock + 1
  /\ UNCHANGED <<avars, sessions, registry, moves, worker>>

\* What the service keeps of the edits it has.
EditOK(i) ==
  /\ edit[i].state # "absent" => BindingOf(i) \in OpenWorkbooks
  /\ edit[i].state \in {"claimed", "apply_started", "session_verified"} => edit[i].exec # None
  /\ edit[i].publication # 0 => edit[i].state = "session_verified"

EditsStored ==
  edit \in [Key -> Documents] /\ fence \in [Book -> Nat] /\ \A i \in Edit : EditOK(i)

HostInit ==
  /\ EditsStored
  /\ sessions = [h \in Host |-> None]
  /\ registry \in [Session -> OpenWorkbooks \cup {None}]
  /\ \A s \in Session : registry[s] \in Bindings(s)
  /\ moves = 0 /\ clock = 0
  /\ worker = [p \in Worker |-> Idle]

Next ==
  \/ \E p \in Worker :
       \/ \E r \in Request, h \in Host : Command(p, r, h)
       \/ \E op \in StoredReads \cup {"get_host_bootstrap"}, i \in Edit, h \in Host : Read(p, op, i, h)
       \/ \E op \in Issues, i \in Edit, h \in Host, policy \in Policy : Issue(p, op, i, h, policy)
       \/ Record(p) \/ Current(p) \/ Workflow(p) \/ CompareBindings(p) \/ Stored(p) \/ Published(p)
       \/ Create(p) \/ Serve(p) \/ Take(p) \/ Fault(p) \/ Return(p)
  \/ \E h \in Host : Revoke(h)
  \/ \E s \in Session : \E b \in Bindings(s) : Register(s, b)
  \/ Tick

HostSpec == HostInit /\ [][Next]_vars
=============================================================================
