--------------------------- MODULE TurnProperties ---------------------------
(***************************************************************************)
(* What the conversation turn service must get right.                      *)
(***************************************************************************)
EXTENDS TurnService

\* The states of the variables (service.py, the entries and the lock table).
TypeOK ==
  /\ \A k \in Key :
       /\ claims[k].state \in {"absent", "pending", "completed"}
       /\ claims[k].command \in Command \cup {None}
       /\ claims[k].token \in 0 .. MaxCalls
  /\ \A t \in ThreadName :
       entries[t] # None => entries[t].lock \in LockObject /\ entries[t].users \in 1 .. Cardinality(Worker)
  /\ holder \in [LockObject -> Worker \cup {None}]
  /\ \A w \in Worker :
       worker[w].pc \in {"idle", "enter", "acquire", "resolve", "bind", "run", "running",
                         "publish", "release", "leave", "abort"}

-----------------------------------------------------------------------------

\* However often a turn is repeated, by whatever calls, over faults and deaths
\* of the process, the runner is called at most once under its key: a turn is
\* never put into the history twice (submit_turn, runtime_started).
RunnerOncePerKey == \A k \in Key : started[k] <= 1

\* A call is in the turn of its thread between taking and releasing its lock.
InTurn(w) == worker[w].pc \in {"resolve", "bind", "run", "running", "publish", "release"}

\* Two turns of one thread never run at the same time, although the lock
\* object of a thread is made, shared and discarded by the calls themselves
\* (InMemoryTurnLock.hold).
TurnsExclude ==
  \A v, w \in Worker : InTurn(v) /\ InTurn(w) /\ MyThread(v) = MyThread(w) => v = w

\* The users of a thread's lock: those who wait for it, hold it or leave it.
Users(t) == {w \in Worker : worker[w].lock # 0 /\ MyThread(w) = t}

\* The lock table forgets a thread exactly when its last user leaves, and all
\* users of a thread wait on one object: no entry leaks, none is lost
\* (InMemoryTurnLock, "bounded entry lifetime").
LockTableExact ==
  \A t \in ThreadName :
    /\ (entries[t] = None) = (Users(t) = {})
    /\ entries[t] # None =>
         /\ entries[t].users = Cardinality(Users(t))
         /\ \A w \in Users(t) : worker[w].lock = entries[t].lock

\* A receipt answers the command its key was claimed with, on the thread of
\* that command, over the very snapshot and scope the thread is bound to, and
\* its turn really ran (publish, bind_thread).
ReceiptFits ==
  \A k \in Key : claims[k].state = "completed" =>
    LET receipt == claims[k].receipt
    IN /\ receipt.key = k
       /\ receipt.thread = ThreadOf(k, claims[k].command)
       /\ receipt.binding = threads[receipt.thread]
       /\ receipt.binding.bundle = claims[k].command.bundle
       /\ started[k] = 1

\* A key is pending only while its call runs, or because its runner was
\* started and the outcome is unknown: a turn refused before that can be tried
\* again.  A death or a failing abort loses the claim, as the code accepts.
PendingIsExplained ==
  \A k \in Key : claims[k].state = "pending" =>
    \/ \E w \in Worker : worker[w].key = k /\ worker[w].token = claims[k].token
    \/ started[k] > 0
    \/ crashes + faults > 0

\* A repeated turn is safe whatever happened to it before: it runs at most once,
\* its receipt is that of its command, and it stays open only with a reason.
RepeatsAreSafe == TypeOK /\ RunnerOncePerKey /\ ReceiptFits /\ PendingIsExplained

\* The lock of a thread does its work although nothing owns its lock object.
LockHolds == TurnsExclude /\ LockTableExact

\* Every call returns: nobody waits for the lock of a thread for ever
\* (hold, the finally clauses).
CallsReturn == \A w \in Worker : worker[w].pc # "idle" ~> worker[w].pc = "idle"

=============================================================================
