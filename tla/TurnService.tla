----------------------------- MODULE TurnService -----------------------------
(***************************************************************************)
(* The conversation turn service: the artifact repository that claims       *)
(* idempotency keys and keeps receipts, the in-process lock of a thread,    *)
(* and submit_turn over both.                                               *)
(*                                                                          *)
(* A worker is a thread of the serving process executing one call.  The     *)
(* repository outlives the process; the lock table does not.                *)
(***************************************************************************)
EXTENDS Naturals, FiniteSets

CONSTANTS
  Worker,        \* threads of the serving process
  Key,           \* idempotency keys of one principal
  Thread,        \* public thread identifiers a command may name
  Bundle,        \* bundle identifiers
  Snapshot,      \* what the host publishes under a bundle: [id, scope]
  Command,       \* commands: [bundle, thread, scope], thread and scope may be None
  MaxCalls,      \* bound: calls of submit_turn
  MaxCrashes,    \* bound: deaths of the process
  MaxFaults,     \* bound: repository operations that raise without an effect
  MaxMoves,      \* bound: changes of a mapping by the host
  None

VARIABLES
  claims,        \* idempotency entries of the repository
  threads,       \* bindings of public threads in the repository
  mapping,       \* the host's bundle snapshots
  entries,       \* the lock table: thread -> [lock, users]
  holder,        \* lock object -> the worker that holds it
  worker,        \* calls in progress
  calls, crashes, faults, moves,
  started        \* how often the runner was started under a key

repository == <<claims, threads>>
turnLock == <<entries, holder>>
bounds == <<calls, crashes, faults, moves>>
vars == <<claims, threads, mapping, entries, holder, worker, calls, crashes,
          faults, moves, started>>

-----------------------------------------------------------------------------

NoClaim == [state |-> "absent", command |-> None, token |-> 0, receipt |-> None]
Idle == [pc |-> "idle", key |-> None, command |-> None, token |-> 0, lock |-> 0,
         snapshot |-> None, result |-> None, failed |-> FALSE,
         runtime_started |-> FALSE]

\* The lock objects: each worker refers to at most one, and so does the entry
\* of each thread a worker is in.
LockObject == 1 .. 2 * Cardinality(Worker)

\* What a public thread is bound to.
ThreadBinding ==
  [bundle : Bundle, id : {s.id : s \in Snapshot},
   scope : {s.scope : s \in Snapshot} \cup {c.scope : c \in Command}]

ASSUME TurnAssumption ==
  /\ IsFiniteSet(Worker)
  /\ MaxCalls \in Nat
  /\ \A c \in Command : c.bundle \in Bundle /\ c.thread \in Thread \cup {None}
  /\ None \notin Worker \cup Key \cup ThreadBinding \cup [lock : LockObject, users : Nat]

\* Without a thread in the command, the key names a thread of its own.
ThreadOf(key, command) == IF command.thread = None THEN key ELSE command.thread
ThreadName == Thread \cup Key
MyThread(w) == ThreadOf(worker[w].key, worker[w].command)

Init ==
  /\ claims = [k \in Key |-> NoClaim]
  /\ threads = [t \in ThreadName |-> None]
  /\ mapping \in [Bundle -> Snapshot]
  /\ entries = [t \in ThreadName |-> None]
  /\ holder = [l \in LockObject |-> None]
  /\ worker = [w \in Worker |-> Idle]
  /\ calls = 0 /\ crashes = 0 /\ faults = 0 /\ moves = 0
  /\ started = [k \in Key |-> 0]

Step(w, pc, next) == worker[w].pc = pc /\ worker' = [worker EXCEPT ![w].pc = next]

\* An exception inside the lock leaves it on the way out.
Raise(w) == worker' = [worker EXCEPT ![w].pc = "release", ![w].failed = TRUE]

-----------------------------------------------------------------------------
(* The repository.                                                          *)

\* claim: the entry after a claim of the key.
Claimed(entry, command, token) ==
  IF entry.state = "absent"
  THEN [NoClaim EXCEPT !.state = "pending", !.command = command, !.token = token]
  ELSE entry

OwnsClaim(entry, command, token) ==
  /\ entry.state = "pending"
  /\ entry.command = command
  /\ entry.token = token

\* bind_thread: a thread keeps its first binding.
CanBind(thread, binding) == threads[thread] \in {None, binding}

\* publish: the entry after a publication by the claimant.
Published(entry, receipt) ==
  [entry EXCEPT !.state = "completed", !.token = 0, !.receipt = receipt]

-----------------------------------------------------------------------------
(* The lock of a thread.                                                    *)

FreshLock ==
  CHOOSE l \in LockObject :
    /\ \A t \in ThreadName : entries[t] = None \/ entries[t].lock # l
    /\ \A w \in Worker : worker[w].lock # l

\* hold, under the guard: the entry is found or made, and counted.
EnterLock(w) ==
  LET t == MyThread(w)
      lock == IF entries[t] = None THEN FreshLock ELSE entries[t].lock
      users == IF entries[t] = None THEN 0 ELSE entries[t].users
  IN /\ worker[w].pc = "enter"
     /\ entries' = [entries EXCEPT ![t] = [lock |-> lock, users |-> users + 1]]
     /\ worker' = [worker EXCEPT ![w].pc = "acquire", ![w].lock = lock]
     /\ UNCHANGED <<repository, mapping, holder, bounds, started>>

AcquireLock(w) ==
  /\ Step(w, "acquire", "resolve")
  /\ holder[worker[w].lock] = None
  /\ holder' = [holder EXCEPT ![worker[w].lock] = w]
  /\ UNCHANGED <<repository, mapping, entries, bounds, started>>

FaultKeepsLock(w) ==
  /\ Step(w, "release", "leave")
  /\ UNCHANGED <<repository, mapping, turnLock, bounds, started>>

ReleaseLock(w) ==
  /\ Step(w, "release", "leave")
  /\ holder' = [holder EXCEPT ![worker[w].lock] = None]
  /\ UNCHANGED <<repository, mapping, entries, bounds, started>>

FaultAbortAlways(w) ==
  IF worker[w].failed THEN [worker[w] EXCEPT !.pc = "abort", !.lock = 0] ELSE Idle

\* The call is over: a failed one that never reached the runner still has to
\* release its claim.
AfterLock(w) ==
  IF worker[w].failed /\ ~worker[w].runtime_started
  THEN [worker[w] EXCEPT !.pc = "abort", !.lock = 0]
  ELSE Idle

\* Whether the last user leaves.
FaultFirstLeaves(users) == users >= 1

LastUser(users) == users = 1

\* The end of hold, under the guard: the last user discards the entry.
LeaveLock(w) ==
  LET t == MyThread(w)
  IN /\ worker[w].pc = "leave"
     /\ entries' = [entries EXCEPT ![t] = IF entries[t] = None \/ LastUser(@.users)
                                          THEN None
                                          ELSE [lock |-> @.lock, users |-> @.users - 1]]
     /\ worker' = [worker EXCEPT ![w] = AfterLock(w)]
     /\ UNCHANGED <<repository, mapping, holder, bounds, started>>

-----------------------------------------------------------------------------
(* submit_turn.                                                             *)

\* The claim decides the call: it goes on only as the new claimant.  A
\* completed key is replayed, a pending one refused, another command conflicts.
Submit(w, key, command) ==
  LET entry == Claimed(claims[key], command, calls + 1)
  IN /\ worker[w].pc = "idle"
     /\ calls < MaxCalls
     /\ calls' = calls + 1
     /\ claims' = [claims EXCEPT ![key] = entry]
     /\ worker' = [worker EXCEPT ![w] =
                    IF OwnsClaim(entry, command, calls + 1)
                    THEN [Idle EXCEPT !.pc = "enter", !.key = key, !.command = command,
                                      !.token = calls + 1]
                    ELSE Idle]
     /\ UNCHANGED <<threads, mapping, turnLock, crashes, faults, moves, started>>

\* bundles.resolve, and the scope of the command against the one the bundle is
\* published with.
ScopeAgrees(command, snapshot) ==
  snapshot.scope = None \/ command.scope \in {None, snapshot.scope}

EffectiveScope(command, snapshot) ==
  IF snapshot.scope = None THEN command.scope ELSE snapshot.scope

Resolve(w) ==
  LET command == worker[w].command
      snapshot == mapping[command.bundle]
  IN /\ worker[w].pc = "resolve"
     /\ IF snapshot.id # None /\ ScopeAgrees(command, snapshot)
        THEN worker' = [worker EXCEPT ![w].pc = "bind", ![w].snapshot = snapshot]
        ELSE Raise(w)
     /\ UNCHANGED <<repository, mapping, turnLock, bounds, started>>

Binding(w) ==
  [bundle |-> worker[w].command.bundle, id |-> worker[w].snapshot.id,
   scope |-> EffectiveScope(worker[w].command, worker[w].snapshot)]

\* bind_thread; from here on the runner counts as started.
BindThread(w) ==
  /\ worker[w].pc = "bind"
  /\ IF CanBind(MyThread(w), Binding(w))
     THEN /\ threads' = [threads EXCEPT ![MyThread(w)] = Binding(w)]
          /\ worker' = [worker EXCEPT ![w].pc = "run", ![w].runtime_started = TRUE]
     ELSE Raise(w) /\ UNCHANGED threads
  /\ UNCHANGED <<claims, mapping, turnLock, bounds, started>>

\* The runner is called: it may write checkpoints and artifacts from now on.
StartRunner(w) ==
  /\ Step(w, "run", "running")
  /\ started' = [started EXCEPT ![worker[w].key] = @ + 1]
  /\ UNCHANGED <<repository, mapping, turnLock, bounds>>

\* The runner answers, and the answer passes the public boundary or not.
RunnerAnswers(w) ==
  /\ worker[w].pc = "running"
  /\ \/ worker' = [worker EXCEPT
                    ![w].pc = "publish",
                    ![w].result = [key |-> worker[w].key, thread |-> MyThread(w),
                                   binding |-> Binding(w)]]
     \/ Raise(w)
  /\ UNCHANGED <<repository, mapping, turnLock, bounds, started>>

PublishReceipt(w) ==
  LET key == worker[w].key
  IN /\ worker[w].pc = "publish"
     /\ IF OwnsClaim(claims[key], worker[w].command, worker[w].token)
        THEN /\ claims' = [claims EXCEPT ![key] = Published(@, worker[w].result)]
             /\ worker' = [worker EXCEPT ![w].pc = "release"]
        ELSE Raise(w) /\ UNCHANGED claims
     /\ UNCHANGED <<threads, mapping, turnLock, bounds, started>>

\* abort, of the claimant's own pending entry.
AbortClaim(w) ==
  LET key == worker[w].key
  IN /\ worker[w].pc = "abort"
     /\ claims' = IF OwnsClaim(claims[key], worker[w].command, worker[w].token)
                  THEN [claims EXCEPT ![key] = NoClaim]
                  ELSE claims
     /\ worker' = [worker EXCEPT ![w] = Idle]
     /\ UNCHANGED <<threads, mapping, turnLock, bounds, started>>

-----------------------------------------------------------------------------
(* Faults and the host.                                                     *)

\* The host's repository, or its mapping, raises without an effect.
OperationFails(w) ==
  /\ faults < MaxFaults
  /\ faults' = faults + 1
  /\ \/ worker[w].pc \in {"resolve", "bind", "publish"} /\ Raise(w)
     \/ worker[w].pc = "abort" /\ worker' = [worker EXCEPT ![w] = Idle]
  /\ UNCHANGED <<repository, mapping, turnLock, calls, crashes, moves, started>>

\* The process dies: its calls and its locks are gone, the repository stays.
Crash ==
  /\ crashes < MaxCrashes
  /\ \E w \in Worker : worker[w].pc # "idle"
  /\ crashes' = crashes + 1
  /\ worker' = [w \in Worker |-> Idle]
  /\ entries' = [t \in ThreadName |-> None]
  /\ holder' = [l \in LockObject |-> None]
  /\ UNCHANGED <<repository, mapping, calls, faults, moves, started>>

\* The host publishes another snapshot under a bundle.
Remap(b, s) ==
  /\ moves < MaxMoves
  /\ mapping[b] # s
  /\ moves' = moves + 1
  /\ mapping' = [mapping EXCEPT ![b] = s]
  /\ UNCHANGED <<repository, turnLock, worker, calls, crashes, faults, started>>

Advance(w) ==
  \/ EnterLock(w) \/ AcquireLock(w) \/ Resolve(w) \/ BindThread(w)
  \/ StartRunner(w) \/ RunnerAnswers(w) \/ PublishReceipt(w)
  \/ ReleaseLock(w) \/ LeaveLock(w) \/ AbortClaim(w)

Next ==
  \/ \E w \in Worker :
       \/ \E key \in Key, command \in Command : Submit(w, key, command)
       \/ Advance(w)
       \/ OperationFails(w)
  \/ Crash
  \/ \E b \in Bundle, s \in Snapshot : Remap(b, s)

Spec == Init /\ [][Next]_vars

\* A thread of the process is scheduled until its call returns.
Fairness == \A w \in Worker : WF_vars(Advance(w))

=============================================================================
