------------------------------ MODULE TurnProofs ------------------------------
(***************************************************************************)
(* Machine-checked proofs about the conversation turn service, for every   *)
(* set of workers, keys, threads, bundles and commands, and any number of  *)
(* calls, deaths of the process, faults and changes of the mapping.        *)
(*                                                                         *)
(* The argument.  Each call has a token of its own, so a key has at most   *)
(* one call that owns its claim (Owning), and only that call moves the     *)
(* count of its runner (Started).  A thread keeps its first binding, which *)
(* is the one of whoever runs on it (Bound).  The users a lock entry       *)
(* counts are the calls that refer to its lock object (LockTableExact), so *)
(* that more lock objects than calls suffice, and who is in a turn holds   *)
(* that object (Holding).                                                  *)
(***************************************************************************)
EXTENDS TurnProperties, FiniteSetTheorems, TLAPS

\* The points of a call, by what it has done.
WithLock == {"acquire", "resolve", "bind", "run", "running", "publish", "release", "leave"}
AtWork   == {"enter", "acquire", "resolve", "bind", "run", "running", "publish"}
Unbound  == {"enter", "acquire", "resolve", "bind", "abort"}
Running  == {"run", "running", "publish"}
Over     == {"release", "leave"}

Receipt == [key : Key, thread : ThreadName, binding : ThreadBinding]

Entry == [state : {"absent", "pending", "completed"}, command : Command \cup {None},
          token : Nat, receipt : Receipt \cup {None}]

CallState ==
  [pc : {"idle", "abort"} \cup AtWork \cup Over, key : Key \cup {None},
   command : Command \cup {None}, token : Nat, lock : {0} \cup LockObject,
   snapshot : Snapshot \cup {None}, result : Receipt \cup {None},
   failed : BOOLEAN, runtime_started : BOOLEAN]

Types ==
  /\ claims \in [Key -> Entry]
  /\ threads \in [ThreadName -> ThreadBinding \cup {None}]
  /\ mapping \in [Bundle -> Snapshot]
  /\ entries \in [ThreadName -> [lock : LockObject, users : Nat] \cup {None}]
  /\ holder \in [LockObject -> Worker \cup {None}]
  /\ worker \in [Worker -> CallState]
  /\ calls \in 0 .. MaxCalls /\ crashes \in Nat /\ faults \in Nat
  /\ started \in [Key -> Nat]

\* What a call knows, by the point it has reached.
CallOK(r) ==
  /\ r.pc = "idle" => r.key = None
  /\ r.pc # "idle" => r.key \in Key /\ r.command \in Command /\ r.token # 0
  /\ r.lock # 0 <=> r.pc \in WithLock
  /\ r.pc \in {"bind"} \cup Running => r.snapshot \in Snapshot
  /\ r.pc \in Unbound => ~ r.runtime_started
  /\ r.pc \in Running => r.runtime_started
  /\ r.pc \in AtWork => ~ r.failed
  /\ r.pc = "abort" => r.failed

Calls == \A w \in Worker : CallOK(worker[w])

\* No two calls have one token, and none is of the future.
Tokens ==
  /\ \A w \in Worker : worker[w].token <= calls
  /\ \A k \in Key : claims[k].token <= calls
  /\ \A v, w \in Worker :
       v # w /\ worker[v].pc # "idle" /\ worker[w].pc # "idle" =>
         worker[v].token # worker[w].token

\* A call owns the claim of its key until it has published or given up.
OwningOK(w) ==
  IF worker[w].pc \in Over /\ ~ worker[w].failed
  THEN claims[worker[w].key].state = "completed"
  ELSE OwnsClaim(claims[worker[w].key], worker[w].command, worker[w].token)

Owning == \A w \in Worker : worker[w].pc # "idle" => OwningOK(w)

\* The runner of a key has been called by the call that is past that point.
Started ==
  /\ \A k \in Key :
       /\ started[k] <= 1
       /\ claims[k].state = "absent" => started[k] = 0
  /\ \A w \in Worker : worker[w].pc # "idle" =>
       started[worker[w].key] =
         IF worker[w].runtime_started /\ worker[w].pc # "run" THEN 1 ELSE 0

\* Who runs on a thread runs over what it is bound to, and says so.
BoundOK(w) ==
  /\ worker[w].pc \in Running => threads[MyThread(w)] = Binding(w)
  /\ worker[w].pc = "publish" =>
       worker[w].result = [key |-> worker[w].key, thread |-> MyThread(w),
                           binding |-> Binding(w)]

Bound == \A w \in Worker : BoundOK(w)

\* A receipt answers the command of its key, over the binding of its thread.
ReceiptOK(k) ==
  LET receipt == claims[k].receipt
  IN /\ receipt \in Receipt
     /\ receipt.key = k
     /\ receipt.thread = ThreadOf(k, claims[k].command)
     /\ receipt.binding = threads[receipt.thread]
     /\ receipt.binding.bundle = claims[k].command.bundle
     /\ started[k] = 1

Receipts == \A k \in Key : claims[k].state = "completed" => ReceiptOK(k)

\* Why a key may be pending.
Explained(k) ==
  \/ \E v \in Worker : worker[v].key = k /\ worker[v].token = claims[k].token
  \/ started[k] > 0
  \/ crashes + faults > 0

\* Who is in a turn holds the lock object it refers to.
Holding == \A w \in Worker : InTurn(w) => holder[worker[w].lock] = w

\* The invariant.
Inv ==
  /\ Types /\ Calls /\ Tokens /\ Owning /\ Started /\ Bound
  /\ Holding /\ LockTableExact /\ Receipts /\ PendingIsExplained

USE TurnAssumption
-----------------------------------------------------------------------------
(* Lemmas.                                                                  *)

\* What the invariant says of a call under way.
LEMMA Underway ==
  ASSUME Inv, NEW w \in Worker, worker[w].pc # "idle"
  PROVE  /\ worker[w] \in CallState /\ worker \in [Worker -> CallState]
         /\ CallOK(worker[w])
         /\ worker[w].key \in Key /\ worker[w].command \in Command
         /\ worker[w].token # 0 /\ worker[w].token <= calls
         /\ MyThread(w) \in ThreadName
         /\ OwningOK(w) /\ BoundOK(w)
         /\ started[worker[w].key] =
              IF worker[w].runtime_started /\ worker[w].pc # "run" THEN 1 ELSE 0
         /\ claims \in [Key -> Entry] /\ claims[worker[w].key] \in Entry
<1>1. /\ worker[w] \in CallState /\ worker \in [Worker -> CallState]
      /\ CallOK(worker[w]) /\ worker[w].token <= calls
      /\ OwningOK(w) /\ BoundOK(w)
      /\ started[worker[w].key] =
           IF worker[w].runtime_started /\ worker[w].pc # "run" THEN 1 ELSE 0
      /\ claims \in [Key -> Entry]
  BY DEF Inv, Types, Calls, Tokens, Owning, Bound, Started
<1>2. worker[w].key \in Key /\ worker[w].command \in Command /\ worker[w].token # 0
  BY <1>1 DEF CallOK
<1>3. MyThread(w) \in ThreadName
  BY <1>2 DEF MyThread, ThreadOf, ThreadName
<1> QED
  BY <1>1, <1>2, <1>3

\* A call that still owns its claim is the only one with its key.
LEMMA OneOwner ==
  ASSUME Inv, NEW v \in Worker, NEW w \in Worker, v # w,
         worker[v].pc # "idle", worker[w].pc # "idle",
         ~ (worker[w].pc \in Over /\ ~ worker[w].failed)
  PROVE  worker[v].key # worker[w].key
<1> SUFFICES ASSUME worker[v].key = worker[w].key PROVE FALSE
  OBVIOUS
<1>1. OwnsClaim(claims[worker[w].key], worker[w].command, worker[w].token)
  BY Underway DEF OwningOK
<1>2. OwnsClaim(claims[worker[v].key], worker[v].command, worker[v].token)
  BY <1>1, Underway DEF OwningOK, OwnsClaim
<1>3. worker[v].token = worker[w].token
  BY <1>1, <1>2 DEF OwnsClaim
<1> QED
  BY <1>3 DEF Inv, Tokens

\* What a call may be bound to can be told from no binding at all.
LEMMA BindingType ==
  ASSUME Inv, NEW w \in Worker, worker[w].pc \in {"bind"} \cup Running
  PROVE  Binding(w) \in ThreadBinding /\ Binding(w) # None
<1>1. /\ worker[w].command \in Command /\ worker[w].snapshot \in Snapshot
      /\ worker[w].command.bundle \in Bundle
  BY Underway DEF CallOK, Running
<1>2. Binding(w) \in ThreadBinding
  BY <1>1 DEF Binding, ThreadBinding, EffectiveScope
<1> QED
  BY <1>2

\* A receipt is over a binding that its thread has.
LEMMA ReceiptBound ==
  ASSUME Inv, NEW k \in Key, claims[k].state = "completed"
  PROVE  /\ claims[k].receipt.thread \in ThreadName
         /\ threads[claims[k].receipt.thread] # None
  BY DEF Inv, Receipts, ReceiptOK, Receipt

\* The same users, when no call changes its key, its command or its lock.
LEMMA UsersStay ==
  ASSUME \A v \in Worker : /\ worker'[v].lock = worker[v].lock
                           /\ worker'[v].key = worker[v].key
                           /\ worker'[v].command = worker[v].command,
         NEW t
  PROVE  Users(t)' = Users(t)
BY DEF Users, MyThread, ThreadOf

\* The table stays exact when neither its entries nor its users change.
LEMMA TableStays ==
  ASSUME Inv, entries' = entries,
         \A v \in Worker : /\ worker'[v].lock = worker[v].lock
                           /\ worker'[v].key = worker[v].key
                           /\ worker'[v].command = worker[v].command
  PROVE  LockTableExact'
<1>1. \A t : Users(t)' = Users(t)
  BY UsersStay
<1>2. \A t : \A v \in Users(t) : worker'[v].lock = worker[v].lock
  BY DEF Users
<1> QED
  BY <1>1, <1>2 DEF Inv, LockTableExact

\* A pending key is explained by the call that claimed it.
LEMMA ExplainedByCall ==
  ASSUME NEW k, NEW w \in Worker,
         worker'[w].key = k, worker'[w].token = claims'[k].token
  PROVE  Explained(k)'
BY DEF Explained

\* A key that is still pending as before is explained by what explained it,
\* unless that was call w.
LEMMA StillExplained ==
  ASSUME Inv, NEW w \in Worker, NEW x, worker' = [worker EXCEPT ![w] = x],
         NEW k \in Key, claims[k].state = "pending", claims'[k] = claims[k],
         started'[k] = started[k],
         worker[w].key = k /\ worker[w].token = claims[k].token => Explained(k)',
         crashes' = crashes, faults' \in Nat, faults' >= faults
  PROVE  Explained(k)'
<1>1. \A v \in Worker \ {w} : worker'[v] = worker[v]
  BY DEF Inv, Types
<1>2. Explained(k) /\ crashes \in Nat /\ faults \in Nat
  BY DEF Inv, PendingIsExplained, Explained, Types
<1>3. CASE \E v \in Worker : worker[v].key = k /\ worker[v].token = claims[k].token
  <2>1. PICK v \in Worker : worker[v].key = k /\ worker[v].token = claims[k].token
    BY <1>3
  <2>2. CASE v = w
    BY <2>1, <2>2
  <2>3. CASE v # w
    <3>1. worker'[v].key = k /\ worker'[v].token = claims'[k].token
      BY <1>1, <2>1, <2>3
    <3> QED
      BY <3>1, ExplainedByCall
  <2> QED
    BY <2>2, <2>3
<1>4. CASE started[k] > 0
  BY <1>4 DEF Explained
<1>5. CASE crashes + faults > 0
  <2>1. crashes' + faults' > 0
    BY <1>2, <1>5
  <2> QED
    BY <2>1 DEF Explained
<1>6. \/ \E v \in Worker : worker[v].key = k /\ worker[v].token = claims[k].token
      \/ started[k] > 0
      \/ crashes + faults > 0
  BY <1>2 DEF Explained
<1> QED
  BY <1>3, <1>4, <1>5, <1>6

-----------------------------------------------------------------------------
(* Kinds of steps.                                                          *)

\* A step of call w, which goes on as x: what it must respect for the others.
LEMMA StepKeeps ==
  ASSUME Inv, NEW w \in Worker, worker[w].pc # "idle",
         NEW x \in CallState, worker' = [worker EXCEPT ![w] = x],
         x.pc # "idle",
         x.key = worker[w].key, x.command = worker[w].command,
         x.token = worker[w].token, x.lock = worker[w].lock,
         CallOK(x), BoundOK(w)', OwningOK(w)',
         \/ UNCHANGED <<claims, started>>
         \/ ~ (worker[w].pc \in Over /\ ~ worker[w].failed),
         claims' \in [Key -> Entry],
         \A k \in Key \ {x.key} : claims'[k] = claims[k] /\ started'[k] = started[k],
         claims'[x.key].token <= calls,
         started' \in [Key -> Nat],
         started'[x.key] = IF x.runtime_started /\ x.pc # "run" THEN 1 ELSE 0,
         claims'[x.key].state = "completed" =>
           \/ UNCHANGED <<claims, started>>
           \/ ReceiptOK(x.key)',
         threads' \in [ThreadName -> ThreadBinding \cup {None}],
         \A t \in ThreadName : threads[t] # None => threads'[t] = threads[t],
         holder' \in [LockObject -> Worker \cup {None}],
         \A l \in LockObject : holder'[l] # holder[l] =>
           l = x.lock /\ holder[l] \in {None, w},
         InTurn(w)' => holder'[x.lock] = w,
         UNCHANGED <<mapping, entries, calls, crashes>>,
         faults' \in Nat, faults' >= faults
  PROVE  Inv'
<1>1. /\ worker \in [Worker -> CallState]
      /\ worker'[w] = x
      /\ \A v \in Worker \ {w} : worker'[v] = worker[v]
  BY DEF Inv, Types
<1>2. /\ x.key \in Key /\ x.command \in Command /\ x.token # 0 /\ x.token <= calls
      /\ claims \in [Key -> Entry] /\ calls \in Nat
      /\ calls' = calls
  BY Underway DEF Inv, Types
<1>3. \A v \in Worker : /\ worker'[v].lock = worker[v].lock
                        /\ worker'[v].key = worker[v].key
                        /\ worker'[v].command = worker[v].command
                        /\ worker'[v].token = worker[v].token
                        /\ worker'[v].pc # "idle" <=> worker[v].pc # "idle"
  BY <1>1
<1>4. Types'
  BY <1>1 DEF Inv, Types
<1>5. Calls'
  BY <1>1 DEF Inv, Calls
<1>6. Tokens'
  <2>1. \A k \in Key : claims'[k].token <= calls
    BY <1>2 DEF Inv, Tokens
  <2> QED
    BY <1>2, <1>3, <2>1 DEF Inv, Tokens
<1>7. ASSUME NEW v \in Worker \ {w}, worker[v].pc # "idle"
      PROVE  /\ claims'[worker[v].key] = claims[worker[v].key]
             /\ started'[worker[v].key] = started[worker[v].key]
  <2>1. CASE UNCHANGED <<claims, started>>
    BY <2>1
  <2>2. CASE ~ (worker[w].pc \in Over /\ ~ worker[w].failed)
    BY <2>2, <1>7, OneOwner, Underway
  <2> QED
    BY <2>1, <2>2
<1>8. Owning'
  <2> SUFFICES ASSUME NEW v \in Worker, worker'[v].pc # "idle"
               PROVE  OwningOK(v)'
    BY DEF Owning
  <2>1. CASE v = w
    BY <1>1, <2>1
  <2>2. CASE v # w
    <3>1. OwningOK(v) /\ worker'[v] = worker[v] /\ worker[v].pc # "idle"
      BY <1>1, <2>2, Underway
    <3> QED
      BY <1>7, <2>2, <3>1 DEF OwningOK
  <2> QED
    BY <2>1, <2>2
<1>9. Started'
  <2>1. \A k \in Key : started'[k] <= 1
    BY <1>2 DEF Inv, Started
  <2>2. \A k \in Key : claims'[k].state = "absent" => started'[k] = 0
    <3>1. claims'[x.key].state # "absent"
      BY <1>1 DEF OwningOK, OwnsClaim
    <3> QED
      BY <3>1 DEF Inv, Started
  <2>3. ASSUME NEW v \in Worker, worker'[v].pc # "idle"
        PROVE  started'[worker'[v].key] =
                 IF worker'[v].runtime_started /\ worker'[v].pc # "run" THEN 1 ELSE 0
    <3>1. CASE v = w
      BY <1>1, <3>1
    <3>2. CASE v # w
      BY <1>1, <1>7, <2>3, <3>2, Underway
    <3> QED
      BY <3>1, <3>2
  <2> QED
    BY <2>1, <2>2, <2>3 DEF Started
<1>10. Bound'
  <2> SUFFICES ASSUME NEW v \in Worker PROVE BoundOK(v)'
    BY DEF Bound
  <2>1. CASE v = w
    BY <2>1
  <2>2. CASE v # w
    <3>1. BoundOK(v) /\ worker'[v] = worker[v]
      BY <1>1, <2>2 DEF Inv, Bound
    <3>2. MyThread(v)' = MyThread(v) /\ Binding(v)' = Binding(v)
      BY <3>1 DEF MyThread, Binding
    <3>3. ASSUME worker[v].pc \in Running PROVE threads'[MyThread(v)] = Binding(v)
      <4>1. worker[v].pc # "idle"
        BY <3>3 DEF Running
      <4>2. MyThread(v) \in ThreadName /\ threads[MyThread(v)] = Binding(v)
        BY <3>1, <3>3, <4>1, Underway DEF BoundOK
      <4>3. Binding(v) # None
        BY <3>3, BindingType
      <4> QED
        BY <4>2, <4>3
    <3> QED
      BY <3>1, <3>2, <3>3 DEF BoundOK
  <2> QED
    BY <2>1, <2>2
<1>11. Holding'
  <2> SUFFICES ASSUME NEW v \in Worker, InTurn(v)' PROVE holder'[worker'[v].lock] = v
    BY DEF Holding
  <2>1. CASE v = w
    BY <1>1, <2>1
  <2>2. CASE v # w
    <3>1. worker'[v] = worker[v] /\ InTurn(v)
      BY <1>1, <2>2 DEF InTurn
    <3>2. worker[v] \in CallState /\ worker[v].lock # 0
      BY <3>1, Underway DEF InTurn, CallOK, WithLock
    <3>3. worker[v].lock \in LockObject
      BY <3>2 DEF CallState
    <3>4. holder[worker[v].lock] = v
      BY <3>1 DEF Inv, Holding
    <3> QED
      BY <2>2, <3>1, <3>3, <3>4
  <2> QED
    BY <2>1, <2>2
<1>12. LockTableExact'
  BY <1>3, TableStays
<1>13. Receipts'
  <2> SUFFICES ASSUME NEW k \in Key, claims'[k].state = "completed" PROVE ReceiptOK(k)'
    BY DEF Receipts
  <2>1. CASE k = x.key /\ ~ UNCHANGED <<claims, started>>
    BY <2>1
  <2>2. CASE k # x.key \/ UNCHANGED <<claims, started>>
    <3>1. claims'[k] = claims[k] /\ started'[k] = started[k] /\ claims[k] \in Entry
      BY <1>2, <2>2
    <3>2. ReceiptOK(k)
      BY <3>1 DEF Inv, Receipts
    <3>3. threads'[claims[k].receipt.thread] = threads[claims[k].receipt.thread]
      BY <3>1, ReceiptBound
    <3> QED
      BY <3>1, <3>2, <3>3 DEF ReceiptOK
  <2> QED
    BY <2>1, <2>2
<1>14. PendingIsExplained'
  <2> SUFFICES ASSUME NEW k \in Key, claims'[k].state = "pending" PROVE Explained(k)'
    BY DEF PendingIsExplained, Explained
  <2>1. CASE k = x.key
    <3>1. claims'[x.key].token = x.token
      BY <1>1, <2>1 DEF OwningOK, OwnsClaim
    <3>2. worker'[w].key = k /\ worker'[w].token = claims'[k].token
      BY <1>1, <2>1, <3>1
    <3> QED
      BY <3>2, ExplainedByCall
  <2>2. CASE k # x.key
    <3>1. claims'[k] = claims[k] /\ started'[k] = started[k] /\ crashes' = crashes
      BY <2>2
    <3>2. claims[k].state = "pending" /\ worker[w].key # k
      BY <2>2, <3>1
    <3> QED
      BY <3>1, <3>2, StillExplained
  <2> QED
    BY <2>1, <2>2
<1> QED
  BY <1>4, <1>5, <1>6, <1>8, <1>9, <1>10, <1>11, <1>12, <1>13, <1>14 DEF Inv

\* A step after which call w goes on as x, and which changes nothing else but
\* the faults.
LEMMA QuietStep ==
  ASSUME Inv, NEW w \in Worker, worker[w].pc # "idle",
         NEW x \in CallState, worker' = [worker EXCEPT ![w] = x],
         x.pc # "idle",
         x.key = worker[w].key, x.command = worker[w].command,
         x.token = worker[w].token, x.lock = worker[w].lock,
         x.pc \in Over /\ ~ x.failed <=> worker[w].pc \in Over /\ ~ worker[w].failed,
         started[x.key] = IF x.runtime_started /\ x.pc # "run" THEN 1 ELSE 0,
         CallOK(x), BoundOK(w)', InTurn(w)' => InTurn(w),
         UNCHANGED <<repository, mapping, turnLock, calls, crashes, started>>,
         faults' \in Nat, faults' >= faults
  PROVE  Inv'
<1>1. worker'[w] = x
  BY DEF Inv, Types
<1>2. UNCHANGED <<claims, threads, mapping, entries, holder, calls, crashes, started>>
  BY DEF repository, turnLock
<1>3. OwningOK(w)'
  BY <1>1, <1>2, Underway DEF OwningOK
<1>4. /\ claims' \in [Key -> Entry] /\ started' \in [Key -> Nat]
      /\ threads' \in [ThreadName -> ThreadBinding \cup {None}]
      /\ holder' \in [LockObject -> Worker \cup {None}]
      /\ claims'[x.key].token <= calls
  BY <1>2, Underway DEF Inv, Types, Tokens
<1>5. InTurn(w)' => holder'[x.lock] = w
  BY <1>2 DEF Inv, Holding
<1> QED
  BY <1>2, <1>3, <1>4, <1>5, StepKeeps

\* An exception inside the lock.
LEMMA RaiseKeeps ==
  ASSUME Inv, NEW w \in Worker, worker[w].pc \in {"resolve", "bind", "running", "publish"},
         Raise(w), UNCHANGED <<repository, mapping, turnLock, calls, crashes, started>>,
         faults' \in Nat, faults' >= faults
  PROVE  Inv'
<1> DEFINE x == [worker[w] EXCEPT !.pc = "release", !.failed = TRUE]
<1>1. worker[w].pc # "idle"
  OBVIOUS
<1>2. worker[w] \in CallState
  BY <1>1, Underway
<1>3. /\ x \in CallState /\ x.pc = "release" /\ x.failed
      /\ x.key = worker[w].key /\ x.command = worker[w].command
      /\ x.token = worker[w].token /\ x.lock = worker[w].lock
      /\ x.runtime_started = worker[w].runtime_started
  BY <1>2 DEF CallState, Over
<1>4. worker' = [worker EXCEPT ![w] = x] /\ worker'[w] = x
  BY DEF Raise, Inv, Types
<1> HIDE DEF x
<1>5. CallOK(x)
  BY <1>1, <1>3, Underway DEF CallOK, WithLock, AtWork, Unbound, Running
<1>6. BoundOK(w)' /\ (InTurn(w)' => InTurn(w))
  BY <1>3, <1>4 DEF BoundOK, InTurn, Running
<1>7. started[x.key] = IF x.runtime_started /\ x.pc # "run" THEN 1 ELSE 0
  BY <1>1, <1>3, Underway
<1>8. x.pc \in Over /\ ~ x.failed <=> worker[w].pc \in Over /\ ~ worker[w].failed
  BY <1>3 DEF Over
<1> QED
  BY <1>1, <1>3, <1>4, <1>5, <1>6, <1>7, <1>8, QuietStep

-----------------------------------------------------------------------------
(* One lemma per action.                                                    *)

LEMMA AcquireLockKeeps ==
  ASSUME Inv, NEW w \in Worker, AcquireLock(w)
  PROVE  Inv'
<1> DEFINE x == [worker[w] EXCEPT !.pc = "resolve"]
<1>1. /\ worker[w].pc = "acquire" /\ worker[w].pc # "idle"
      /\ holder[worker[w].lock] = None
      /\ holder' = [holder EXCEPT ![worker[w].lock] = w]
      /\ worker' = [worker EXCEPT ![w] = x]
      /\ UNCHANGED <<claims, threads, mapping, entries, calls, crashes, faults, started>>
  BY DEF AcquireLock, Step, repository, bounds
<1>2. /\ worker[w] \in CallState /\ CallOK(worker[w]) /\ OwningOK(w)
      /\ worker \in [Worker -> CallState]
      /\ claims \in [Key -> Entry] /\ worker[w].key \in Key
  BY <1>1, Underway
<1>3. /\ x \in CallState /\ x.pc = "resolve" /\ x.failed = worker[w].failed
      /\ x.key = worker[w].key /\ x.command = worker[w].command
      /\ x.token = worker[w].token /\ x.lock = worker[w].lock
      /\ x.runtime_started = worker[w].runtime_started
  BY <1>2 DEF CallState, AtWork
<1>4. worker'[w] = x
  BY <1>1, <1>2
<1> HIDE DEF x
<1>5. CallOK(x) /\ x.lock \in LockObject
  BY <1>1, <1>2, <1>3 DEF CallOK, CallState, WithLock, AtWork, Unbound, Running
<1>6. BoundOK(w)'
  BY <1>3, <1>4 DEF BoundOK, Running
<1>7. OwningOK(w)'
  BY <1>1, <1>2, <1>3, <1>4 DEF OwningOK, Over
<1>8. started'[x.key] = IF x.runtime_started /\ x.pc # "run" THEN 1 ELSE 0
  BY <1>1, <1>3, Underway
<1>9. /\ holder' \in [LockObject -> Worker \cup {None}]
      /\ holder'[x.lock] = w
      /\ \A l \in LockObject : holder'[l] # holder[l] =>
           l = x.lock /\ holder[l] \in {None, w}
  BY <1>1, <1>3, <1>5 DEF Inv, Types
<1>10. /\ started' \in [Key -> Nat] /\ faults' \in Nat /\ faults' >= faults
       /\ threads' \in [ThreadName -> ThreadBinding \cup {None}]
       /\ claims'[x.key].token <= calls
  BY <1>1, <1>2, <1>3 DEF Inv, Types, Tokens
<1> QED
  BY <1>1, <1>2, <1>3, <1>5, <1>6, <1>7, <1>8, <1>9, <1>10, StepKeeps

LEMMA ReleaseLockKeeps ==
  ASSUME Inv, NEW w \in Worker, ReleaseLock(w)
  PROVE  Inv'
<1> DEFINE x == [worker[w] EXCEPT !.pc = "leave"]
<1>1. /\ worker[w].pc = "release" /\ worker[w].pc # "idle"
      /\ holder' = [holder EXCEPT ![worker[w].lock] = None]
      /\ worker' = [worker EXCEPT ![w] = x]
      /\ UNCHANGED <<claims, threads, mapping, entries, calls, crashes, faults, started>>
  BY DEF ReleaseLock, Step, repository, bounds
<1>2. /\ worker[w] \in CallState /\ CallOK(worker[w]) /\ OwningOK(w)
      /\ worker \in [Worker -> CallState]
      /\ claims \in [Key -> Entry] /\ worker[w].key \in Key
  BY <1>1, Underway
<1>3. /\ x \in CallState /\ x.pc = "leave" /\ x.failed = worker[w].failed
      /\ x.key = worker[w].key /\ x.command = worker[w].command
      /\ x.token = worker[w].token /\ x.lock = worker[w].lock
      /\ x.runtime_started = worker[w].runtime_started
  BY <1>2 DEF CallState, Over
<1>4. worker'[w] = x
  BY <1>1, <1>2
<1> HIDE DEF x
<1>5. CallOK(x) /\ x.lock \in LockObject
  BY <1>1, <1>2, <1>3 DEF CallOK, CallState, WithLock, AtWork, Unbound, Running
<1>6. BoundOK(w)' /\ ~ InTurn(w)'
  BY <1>3, <1>4 DEF BoundOK, Running, InTurn
<1>7. OwningOK(w)'
  BY <1>1, <1>2, <1>3, <1>4 DEF OwningOK, Over
<1>8. started'[x.key] = IF x.runtime_started /\ x.pc # "run" THEN 1 ELSE 0
  BY <1>1, <1>3, Underway
<1>9. /\ holder' \in [LockObject -> Worker \cup {None}]
      /\ \A l \in LockObject : holder'[l] # holder[l] =>
           l = x.lock /\ holder[l] \in {None, w}
  <2>1. holder[worker[w].lock] = w
    BY <1>1 DEF Inv, Holding, InTurn
  <2> QED
    BY <1>1, <1>3, <1>5, <2>1 DEF Inv, Types
<1>10. /\ started' \in [Key -> Nat] /\ faults' \in Nat /\ faults' >= faults
       /\ threads' \in [ThreadName -> ThreadBinding \cup {None}]
       /\ claims'[x.key].token <= calls
  BY <1>1, <1>2, <1>3 DEF Inv, Types, Tokens
<1> QED
  BY <1>1, <1>2, <1>3, <1>5, <1>6, <1>7, <1>8, <1>9, <1>10, StepKeeps

LEMMA ResolveKeeps ==
  ASSUME Inv, NEW w \in Worker, Resolve(w)
  PROVE  Inv'
<1>1. /\ worker[w].pc = "resolve" /\ worker[w].pc # "idle"
      /\ UNCHANGED <<repository, mapping, turnLock, calls, crashes, started>>
      /\ faults' \in Nat /\ faults' >= faults
  BY DEF Resolve, bounds, Inv, Types
<1>2. CASE Raise(w)
  BY <1>1, <1>2, RaiseKeeps
<1>3. CASE ~ Raise(w)
  <2> DEFINE s == mapping[worker[w].command.bundle]
             x == [worker[w] EXCEPT !.pc = "bind", !.snapshot = s]
  <2>1. worker' = [worker EXCEPT ![w] = x]
    BY <1>3 DEF Resolve
  <2>2. /\ worker[w] \in CallState /\ CallOK(worker[w])
        /\ worker \in [Worker -> CallState]
        /\ worker[w].command \in Command
    BY <1>1, Underway
  <2>3. s \in Snapshot
    BY <2>2 DEF Inv, Types
  <2>4. /\ x \in CallState /\ x.pc = "bind" /\ x.failed = worker[w].failed
        /\ x.key = worker[w].key /\ x.command = worker[w].command
        /\ x.token = worker[w].token /\ x.lock = worker[w].lock
        /\ x.runtime_started = worker[w].runtime_started
        /\ x.snapshot = s
    BY <2>2, <2>3 DEF CallState, AtWork
  <2>5. worker'[w] = x
    BY <2>1, <2>2
  <2> HIDE DEF x, s
  <2>6. CallOK(x)
    BY <1>1, <2>2, <2>3, <2>4 DEF CallOK, WithLock, AtWork, Unbound, Running
  <2>7. BoundOK(w)' /\ (InTurn(w)' => InTurn(w))
    BY <1>1, <2>4, <2>5 DEF BoundOK, Running, InTurn
  <2>8. started[x.key] = IF x.runtime_started /\ x.pc # "run" THEN 1 ELSE 0
    BY <1>1, <2>4, Underway
  <2>9. x.pc \in Over /\ ~ x.failed <=> worker[w].pc \in Over /\ ~ worker[w].failed
    BY <1>1, <2>4 DEF Over
  <2> QED
    BY <1>1, <2>1, <2>4, <2>6, <2>7, <2>8, <2>9, QuietStep
<1> QED
  BY <1>2, <1>3

LEMMA BindThreadKeeps ==
  ASSUME Inv, NEW w \in Worker, BindThread(w)
  PROVE  Inv'
<1>1. /\ worker[w].pc = "bind" /\ worker[w].pc # "idle"
      /\ UNCHANGED <<claims, mapping, entries, holder, calls, crashes, faults, started>>
      /\ faults' \in Nat /\ faults' >= faults
  BY DEF BindThread, turnLock, bounds, Inv, Types
<1>2. CASE ~ CanBind(MyThread(w), Binding(w))
  <2>1. Raise(w) /\ UNCHANGED threads
    BY <1>2 DEF BindThread
  <2>2. UNCHANGED <<repository, mapping, turnLock, calls, crashes, started>>
    BY <1>1, <2>1 DEF repository, turnLock
  <2> QED
    BY <1>1, <2>1, <2>2, RaiseKeeps
<1>3. CASE CanBind(MyThread(w), Binding(w))
  <2> DEFINE x == [worker[w] EXCEPT !.pc = "run", !.runtime_started = TRUE]
  <2>1. /\ worker' = [worker EXCEPT ![w] = x]
        /\ threads' = [threads EXCEPT ![MyThread(w)] = Binding(w)]
    BY <1>3 DEF BindThread
  <2>2. /\ worker[w] \in CallState /\ CallOK(worker[w]) /\ OwningOK(w)
        /\ worker \in [Worker -> CallState]
        /\ claims \in [Key -> Entry] /\ worker[w].key \in Key
        /\ MyThread(w) \in ThreadName
        /\ Binding(w) \in ThreadBinding
    BY <1>1, Underway, BindingType
  <2>3. /\ x \in CallState /\ x.pc = "run" /\ x.failed = worker[w].failed
        /\ x.key = worker[w].key /\ x.command = worker[w].command
        /\ x.token = worker[w].token /\ x.lock = worker[w].lock
        /\ x.runtime_started = TRUE /\ x.snapshot = worker[w].snapshot
    BY <2>2 DEF CallState, AtWork
  <2>4. worker'[w] = x
    BY <2>1, <2>2
  <2> HIDE DEF x
  <2>5. CallOK(x)
    BY <1>1, <2>2, <2>3 DEF CallOK, WithLock, AtWork, Unbound, Running
  <2>6. /\ threads' \in [ThreadName -> ThreadBinding \cup {None}]
        /\ \A t \in ThreadName : threads[t] # None => threads'[t] = threads[t]
        /\ threads'[MyThread(w)] = Binding(w)
    BY <1>3, <2>1, <2>2 DEF Inv, Types, CanBind
  <2>7. MyThread(w)' = MyThread(w) /\ Binding(w)' = Binding(w)
    BY <2>3, <2>4 DEF MyThread, Binding
  <2>8. BoundOK(w)'
    BY <2>3, <2>4, <2>6, <2>7 DEF BoundOK
  <2>9. OwningOK(w)'
    BY <1>1, <2>2, <2>3, <2>4 DEF OwningOK, Over
  <2>10. started'[x.key] = IF x.runtime_started /\ x.pc # "run" THEN 1 ELSE 0
    BY <1>1, <2>2, <2>3, Underway DEF CallOK, Unbound
  <2>11. /\ started' \in [Key -> Nat]
         /\ holder' \in [LockObject -> Worker \cup {None}]
         /\ claims'[x.key].token <= calls
         /\ InTurn(w)' => holder'[x.lock] = w
    BY <1>1, <2>2, <2>3 DEF Inv, Types, Tokens, Holding, InTurn
  <2> QED
    BY <1>1, <2>1, <2>2, <2>3, <2>5, <2>6, <2>8, <2>9, <2>10, <2>11, StepKeeps
<1> QED
  BY <1>2, <1>3

LEMMA StartRunnerKeeps ==
  ASSUME Inv, NEW w \in Worker, StartRunner(w)
  PROVE  Inv'
<1> DEFINE x == [worker[w] EXCEPT !.pc = "running"]
<1>1. /\ worker[w].pc = "run" /\ worker[w].pc # "idle"
      /\ worker' = [worker EXCEPT ![w] = x]
      /\ started' = [started EXCEPT ![worker[w].key] = @ + 1]
      /\ UNCHANGED <<claims, threads, mapping, entries, holder, calls, crashes, faults>>
  BY DEF StartRunner, Step, repository, turnLock, bounds
<1>2. /\ worker[w] \in CallState /\ CallOK(worker[w]) /\ OwningOK(w) /\ BoundOK(w)
      /\ worker \in [Worker -> CallState]
      /\ claims \in [Key -> Entry] /\ worker[w].key \in Key
      /\ started[worker[w].key] = 0
  BY <1>1, Underway
<1>3. /\ x \in CallState /\ x.pc = "running" /\ x.failed = worker[w].failed
      /\ x.key = worker[w].key /\ x.command = worker[w].command
      /\ x.token = worker[w].token /\ x.lock = worker[w].lock
      /\ x.runtime_started = worker[w].runtime_started
      /\ x.snapshot = worker[w].snapshot
  BY <1>2 DEF CallState, AtWork
<1>4. worker'[w] = x
  BY <1>1, <1>2
<1> HIDE DEF x
<1>5. CallOK(x)
  BY <1>1, <1>2, <1>3 DEF CallOK, WithLock, AtWork, Unbound, Running
<1>6. BoundOK(w)'
  <2>1. MyThread(w)' = MyThread(w) /\ Binding(w)' = Binding(w)
    BY <1>3, <1>4 DEF MyThread, Binding
  <2> QED
    BY <1>1, <1>2, <1>3, <1>4, <2>1 DEF BoundOK, Running
<1>7. OwningOK(w)' /\ claims'[x.key].state # "completed"
  BY <1>1, <1>2, <1>3, <1>4 DEF OwningOK, Over, OwnsClaim
<1>8. /\ started' \in [Key -> Nat]
      /\ started'[x.key] = IF x.runtime_started /\ x.pc # "run" THEN 1 ELSE 0
      /\ \A k \in Key \ {x.key} : started'[k] = started[k]
  <2>1. started \in [Key -> Nat]
    BY DEF Inv, Types
  <2>2. x.runtime_started
    BY <1>3, <1>5 DEF CallOK, Running
  <2> QED
    BY <1>1, <1>2, <1>3, <2>1, <2>2
<1>9. /\ threads' \in [ThreadName -> ThreadBinding \cup {None}]
      /\ holder' \in [LockObject -> Worker \cup {None}]
      /\ faults' \in Nat /\ faults' >= faults
      /\ claims'[x.key].token <= calls
      /\ InTurn(w)' => holder'[x.lock] = w
  BY <1>1, <1>2, <1>3 DEF Inv, Types, Tokens, Holding, InTurn
<1>10. ~ (worker[w].pc \in Over /\ ~ worker[w].failed)
  BY <1>1 DEF Over
<1> QED
  BY <1>1, <1>2, <1>3, <1>5, <1>6, <1>7, <1>8, <1>9, <1>10, StepKeeps

LEMMA RunnerAnswersKeeps ==
  ASSUME Inv, NEW w \in Worker, RunnerAnswers(w)
  PROVE  Inv'
<1>1. /\ worker[w].pc = "running" /\ worker[w].pc # "idle"
      /\ UNCHANGED <<repository, mapping, turnLock, calls, crashes, started>>
      /\ faults' \in Nat /\ faults' >= faults
  BY DEF RunnerAnswers, bounds, Inv, Types
<1>2. CASE Raise(w)
  BY <1>1, <1>2, RaiseKeeps
<1>3. CASE ~ Raise(w)
  <2> DEFINE receipt == [key |-> worker[w].key, thread |-> MyThread(w), binding |-> Binding(w)]
             x == [worker[w] EXCEPT !.pc = "publish", !.result = receipt]
  <2>1. worker' = [worker EXCEPT ![w] = x]
    BY <1>3 DEF RunnerAnswers
  <2>2. /\ worker[w] \in CallState /\ CallOK(worker[w]) /\ BoundOK(w)
        /\ worker \in [Worker -> CallState] /\ worker[w].key \in Key
        /\ MyThread(w) \in ThreadName /\ Binding(w) \in ThreadBinding
    BY <1>1, Underway, BindingType DEF Running
  <2>3. receipt \in Receipt
    BY <2>2 DEF Receipt
  <2>4. /\ x \in CallState /\ x.pc = "publish" /\ x.failed = worker[w].failed
        /\ x.key = worker[w].key /\ x.command = worker[w].command
        /\ x.token = worker[w].token /\ x.lock = worker[w].lock
        /\ x.runtime_started = worker[w].runtime_started
        /\ x.snapshot = worker[w].snapshot
        /\ x.result = receipt
    BY <2>2, <2>3 DEF CallState, AtWork
  <2>5. worker'[w] = x
    BY <2>1, <2>2
  <2> HIDE DEF x
  <2>6. CallOK(x)
    BY <1>1, <2>2, <2>4 DEF CallOK, WithLock, AtWork, Unbound, Running
  <2>7. MyThread(w)' = MyThread(w) /\ Binding(w)' = Binding(w) /\ threads' = threads
    BY <1>1, <2>4, <2>5 DEF MyThread, Binding, repository
  <2>8. BoundOK(w)' /\ (InTurn(w)' => InTurn(w))
    BY <1>1, <2>2, <2>4, <2>5, <2>7 DEF BoundOK, Running, InTurn
  <2>9. started[x.key] = IF x.runtime_started /\ x.pc # "run" THEN 1 ELSE 0
    BY <1>1, <2>4, Underway
  <2>10. x.pc \in Over /\ ~ x.failed <=> worker[w].pc \in Over /\ ~ worker[w].failed
    BY <1>1, <2>4 DEF Over
  <2> QED
    BY <1>1, <2>1, <2>4, <2>6, <2>8, <2>9, <2>10, QuietStep
<1> QED
  BY <1>2, <1>3

LEMMA PublishReceiptKeeps ==
  ASSUME Inv, NEW w \in Worker, PublishReceipt(w)
  PROVE  Inv'
<1>1. /\ worker[w].pc = "publish" /\ worker[w].pc # "idle"
      /\ UNCHANGED <<threads, mapping, turnLock, entries, holder, calls, crashes,
                     faults, started>>
      /\ faults' \in Nat /\ faults' >= faults
  BY DEF PublishReceipt, turnLock, bounds, Inv, Types
<1>2. /\ worker[w] \in CallState /\ CallOK(worker[w]) /\ OwningOK(w) /\ BoundOK(w)
      /\ worker \in [Worker -> CallState] /\ claims \in [Key -> Entry]
      /\ worker[w].key \in Key /\ MyThread(w) \in ThreadName
      /\ Binding(w) \in ThreadBinding
      /\ worker[w].runtime_started
      /\ started[worker[w].key] = 1
  BY <1>1, Underway, BindingType DEF Running, CallOK
<1>3. OwnsClaim(claims[worker[w].key], worker[w].command, worker[w].token)
  BY <1>1, <1>2 DEF OwningOK, Over
<1> DEFINE x == [worker[w] EXCEPT !.pc = "release"]
           c == Published(claims[worker[w].key], worker[w].result)
<1>4. /\ worker' = [worker EXCEPT ![w] = x]
      /\ claims' = [claims EXCEPT ![worker[w].key] = c]
  BY <1>3 DEF PublishReceipt
<1>5. worker[w].result = [key |-> worker[w].key, thread |-> MyThread(w), binding |-> Binding(w)]
  BY <1>1, <1>2 DEF BoundOK
<1>6. worker[w].result \in Receipt
  BY <1>2, <1>5 DEF Receipt
<1>7. /\ c \in Entry /\ c.state = "completed" /\ c.token = 0
      /\ c.receipt = worker[w].result /\ c.command = worker[w].command
  BY <1>2, <1>3, <1>6 DEF Entry, Published, OwnsClaim
<1>8. /\ x \in CallState /\ x.pc = "release" /\ x.failed = worker[w].failed
      /\ x.key = worker[w].key /\ x.command = worker[w].command
      /\ x.token = worker[w].token /\ x.lock = worker[w].lock
      /\ x.runtime_started = worker[w].runtime_started
  BY <1>2 DEF CallState, Over
<1>9. worker'[w] = x /\ claims'[worker[w].key] = c
  BY <1>2, <1>4
<1>10. /\ claims' \in [Key -> Entry]
       /\ \A k \in Key \ {x.key} : claims'[k] = claims[k]
  BY <1>2, <1>4, <1>7, <1>8
<1> HIDE DEF x, c
<1>11. CallOK(x) /\ ~ x.failed
  BY <1>1, <1>2, <1>8 DEF CallOK, WithLock, AtWork, Unbound, Running
<1>12. BoundOK(w)'
  BY <1>8, <1>9 DEF BoundOK, Running
<1>13. OwningOK(w)'
  BY <1>7, <1>8, <1>9, <1>11 DEF OwningOK, Over
<1>14. PICK k \in Key : k = x.key
  BY <1>2, <1>8
<1>15. ReceiptOK(k)'
  <2>1. /\ claims'[k].receipt = [key |-> k, thread |-> MyThread(w), binding |-> Binding(w)]
        /\ claims'[k].command = worker[w].command
    BY <1>5, <1>7, <1>8, <1>9, <1>14
  <2>2. MyThread(w) = ThreadOf(k, worker[w].command)
    BY <1>8, <1>14 DEF MyThread
  <2>3. /\ threads'[MyThread(w)] = Binding(w)
        /\ started'[k] = 1
    BY <1>1, <1>2, <1>8, <1>14 DEF BoundOK, Running
  <2>4. Binding(w).bundle = worker[w].command.bundle
    BY DEF Binding
  <2>5. claims'[k].receipt \in Receipt
    BY <1>6, <1>7, <1>8, <1>9, <1>14
  <2> QED
    BY <2>1, <2>2, <2>3, <2>4, <2>5 DEF ReceiptOK
<1>16. started'[x.key] = IF x.runtime_started /\ x.pc # "run" THEN 1 ELSE 0
  BY <1>1, <1>2, <1>8
<1>17. /\ started' \in [Key -> Nat]
       /\ threads' \in [ThreadName -> ThreadBinding \cup {None}]
       /\ holder' \in [LockObject -> Worker \cup {None}]
       /\ InTurn(w)' => holder'[x.lock] = w
       /\ claims'[x.key].token <= calls
  BY <1>1, <1>7, <1>8, <1>9 DEF Inv, Types, Holding, InTurn
<1>18. ~ (worker[w].pc \in Over /\ ~ worker[w].failed)
  BY <1>1 DEF Over
<1> QED
  BY <1>1, <1>2, <1>4, <1>8, <1>10, <1>11, <1>12, <1>13, <1>14, <1>16, <1>17, <1>18,
     <1>15, StepKeeps

\* A step by which call w begins, enters or leaves a lock, or ends: what has
\* to be shown of it and of the others.
LEMMA CallTurns ==
  ASSUME Inv, NEW w \in Worker, NEW x \in CallState, worker' = [worker EXCEPT ![w] = x],
         CallOK(x), x.token <= calls', x.pc \notin Running, ~ InTurn(w)',
         x.pc # "idle" =>
           /\ OwningOK(w)'
           /\ started[x.key] = IF x.runtime_started THEN 1 ELSE 0
           /\ \A v \in Worker \ {w} : worker[v].pc # "idle" => x.token # worker[v].token,
         \A v \in Worker \ {w} : worker[v].pc # "idle" =>
           claims'[worker[v].key] = claims[worker[v].key],
         claims' \in [Key -> Entry],
         \A k \in Key : /\ claims'[k].token <= calls'
                        /\ claims'[k].state = "absent" => started[k] = 0
                        /\ claims'[k].state = "completed" => claims'[k] = claims[k],
         entries' \in [ThreadName -> [lock : LockObject, users : Nat] \cup {None}],
         LockTableExact', PendingIsExplained',
         UNCHANGED <<threads, mapping, holder, crashes, started>>,
         calls' \in 0 .. MaxCalls, calls' >= calls, faults' \in Nat
  PROVE  Inv'
<1>1. /\ worker \in [Worker -> CallState]
      /\ worker'[w] = x
      /\ \A v \in Worker \ {w} : worker'[v] = worker[v]
  BY DEF Inv, Types
<1>2. Types'
  BY <1>1 DEF Inv, Types
<1>3. Calls'
  BY <1>1 DEF Inv, Calls
<1>4. Tokens'
  <2>1. /\ \A v \in Worker \ {w} : worker[v].token <= calls
        /\ \A v \in Worker : worker[v].token \in Nat
        /\ calls \in Nat /\ calls' \in Nat
    BY <1>1 DEF Inv, Types, Tokens, CallState
  <2>2. \A v \in Worker : worker'[v].token <= calls'
    BY <1>1, <2>1
  <2>3. ASSUME NEW u \in Worker, NEW v \in Worker, u # v,
               worker'[u].pc # "idle", worker'[v].pc # "idle"
        PROVE  worker'[u].token # worker'[v].token
    <3>1. CASE u = w
      BY <1>1, <2>3, <3>1
    <3>2. CASE v = w
      BY <1>1, <2>3, <3>2
    <3>3. CASE u # w /\ v # w
      BY <1>1, <2>3, <3>3 DEF Inv, Tokens
    <3> QED
      BY <3>1, <3>2, <3>3
  <2> QED
    BY <2>2, <2>3 DEF Tokens
<1>5. Owning'
  <2> SUFFICES ASSUME NEW v \in Worker, worker'[v].pc # "idle"
               PROVE  OwningOK(v)'
    BY DEF Owning
  <2>1. CASE v = w
    BY <1>1, <2>1
  <2>2. CASE v # w
    <3>1. OwningOK(v) /\ worker'[v] = worker[v] /\ worker[v].pc # "idle"
      BY <1>1, <2>2, Underway
    <3> QED
      BY <2>2, <3>1 DEF OwningOK
  <2> QED
    BY <2>1, <2>2
<1>6. Started'
  <2>1. ASSUME NEW v \in Worker, worker'[v].pc # "idle"
        PROVE  started'[worker'[v].key] =
                 IF worker'[v].runtime_started /\ worker'[v].pc # "run" THEN 1 ELSE 0
    <3>1. CASE v = w
      BY <1>1, <2>1, <3>1 DEF Running
    <3>2. CASE v # w
      BY <1>1, <2>1, <3>2, Underway
    <3> QED
      BY <3>1, <3>2
  <2> QED
    BY <2>1 DEF Inv, Started
<1>7. Bound'
  <2> SUFFICES ASSUME NEW v \in Worker PROVE BoundOK(v)'
    BY DEF Bound
  <2>1. CASE v = w
    BY <1>1, <2>1 DEF BoundOK, Running
  <2>2. CASE v # w
    <3>1. BoundOK(v) /\ worker'[v] = worker[v]
      BY <1>1, <2>2 DEF Inv, Bound
    <3>2. MyThread(v)' = MyThread(v) /\ Binding(v)' = Binding(v)
      BY <3>1 DEF MyThread, Binding
    <3> QED
      BY <3>1, <3>2 DEF BoundOK
  <2> QED
    BY <2>1, <2>2
<1>8. Holding'
  <2> SUFFICES ASSUME NEW v \in Worker, InTurn(v)' PROVE holder'[worker'[v].lock] = v
    BY DEF Holding
  <2>1. v # w /\ worker'[v] = worker[v]
    BY <1>1
  <2>2. InTurn(v)
    BY <2>1 DEF InTurn
  <2> QED
    BY <2>1, <2>2 DEF Inv, Holding
<1>9. Receipts'
  <2> SUFFICES ASSUME NEW k \in Key, claims'[k].state = "completed" PROVE ReceiptOK(k)'
    BY DEF Receipts
  <2>1. claims'[k] = claims[k] /\ ReceiptOK(k)
    BY DEF Inv, Receipts
  <2> QED
    BY <2>1 DEF ReceiptOK
<1> QED
  BY <1>2, <1>3, <1>4, <1>5, <1>6, <1>7, <1>8, <1>9 DEF Inv

\* A call outside any lock is no user of one.
LEMMA OutsideUsers ==
  ASSUME Inv, NEW w \in Worker, NEW x \in CallState, worker' = [worker EXCEPT ![w] = x],
         worker[w].lock = 0, x.lock = 0, entries' = entries
  PROVE  LockTableExact'
<1>1. /\ worker'[w] = x
      /\ \A v \in Worker \ {w} : worker'[v] = worker[v]
  BY DEF Inv, Types
<1>2. \A t : Users(t)' = Users(t)
  BY <1>1 DEF Users, MyThread
<1>3. \A t : \A v \in Users(t) : worker'[v].lock = worker[v].lock
  BY <1>1 DEF Users
<1> QED
  BY <1>2, <1>3 DEF Inv, LockTableExact

-----------------------------------------------------------------------------

LEMMA IdleOK == Idle \in CallState /\ CallOK(Idle)
BY DEF Idle, CallState, CallOK, WithLock, AtWork, Unbound, Running, Over

LEMMA SubmitKeeps ==
  ASSUME Inv, NEW w \in Worker, NEW key \in Key, NEW command \in Command,
         Submit(w, key, command)
  PROVE  Inv'
<1>1. /\ worker[w].pc = "idle" /\ calls \in Nat /\ calls < MaxCalls /\ calls' = calls + 1
      /\ calls' >= calls /\ calls + 1 \in Nat
      /\ UNCHANGED <<threads, mapping, entries, holder, crashes, faults, started>>
      /\ faults' \in Nat /\ faults \in Nat /\ faults' >= faults
      /\ worker \in [Worker -> CallState] /\ claims \in [Key -> Entry]
      /\ entries' \in [ThreadName -> [lock : LockObject, users : Nat] \cup {None}]
      /\ calls' \in 0 .. MaxCalls
  BY DEF Submit, turnLock, Inv, Types
<1>2. \A k \in Key : claims[k] \in Entry /\ claims[k].token <= calls
  BY <1>1 DEF Inv, Tokens
<1>3. worker[w].lock = 0 /\ worker[w].key \notin Key
  BY <1>1 DEF Inv, Calls, CallOK, WithLock
<1>4. ASSUME NEW v \in Worker, worker[v].pc # "idle"
      PROVE  worker[v].token <= calls /\ worker[v].token \in Nat
  BY <1>1, <1>4 DEF Inv, Tokens, CallState
<1>5. CASE claims[key].state = "absent"
  <2> DEFINE c == [NoClaim EXCEPT !.state = "pending", !.command = command, !.token = calls + 1]
             x == [Idle EXCEPT !.pc = "enter", !.key = key, !.command = command,
                               !.token = calls + 1]
  <2>1. /\ c \in Entry /\ c.state = "pending" /\ c.command = command /\ c.token = calls + 1
    <3>1. NoClaim \in Entry
      BY DEF NoClaim, Entry
    <3> QED
      BY <1>1, <3>1 DEF Entry
  <2>2. /\ claims' = [claims EXCEPT ![key] = c]
        /\ worker' = [worker EXCEPT ![w] = x]
    BY <1>5, <2>1 DEF Submit, Claimed, OwnsClaim
  <2>3. /\ x \in CallState /\ x.pc = "enter" /\ x.key = key /\ x.command = command
        /\ x.token = calls + 1 /\ x.lock = 0 /\ x.failed = FALSE
        /\ x.runtime_started = FALSE
    <3>1. Idle \in CallState /\ Idle.lock = 0 /\ ~ Idle.failed /\ ~ Idle.runtime_started
      BY IdleOK DEF Idle
    <3> QED
      BY <1>1, <3>1 DEF CallState, AtWork
  <2>4. /\ worker'[w] = x /\ claims'[key] = c /\ claims' \in [Key -> Entry]
        /\ \A k \in Key \ {key} : claims'[k] = claims[k]
    BY <1>1, <2>1, <2>2
  <2> HIDE DEF c, x
  <2>5. CallOK(x) /\ x.pc \notin Running /\ x.token <= calls' /\ ~ InTurn(w)'
    BY <1>1, <2>3, <2>4 DEF CallOK, WithLock, AtWork, Unbound, Running, InTurn
  <2>6. OwningOK(w)'
    BY <2>1, <2>3, <2>4 DEF OwningOK, OwnsClaim, Over
  <2>7. started[x.key] = IF x.runtime_started THEN 1 ELSE 0
    BY <1>5, <2>3 DEF Inv, Started
  <2>8. \A v \in Worker : worker[v].pc # "idle" => x.token # worker[v].token
    BY <1>1, <1>4, <2>3
  <2>9. ASSUME NEW v \in Worker, worker[v].pc # "idle"
        PROVE  claims'[worker[v].key] = claims[worker[v].key]
    <3>1. worker[v].key \in Key /\ claims[worker[v].key].state # "absent"
      BY <2>9, Underway DEF OwningOK, OwnsClaim
    <3> QED
      BY <1>5, <2>4, <3>1
  <2>10. \A k \in Key : /\ claims'[k].token <= calls'
                        /\ claims'[k].state = "absent" => started[k] = 0
                        /\ claims'[k].state = "completed" => claims'[k] = claims[k]
    <3> SUFFICES ASSUME NEW k \in Key
                 PROVE  /\ claims'[k].token <= calls'
                        /\ claims'[k].state = "absent" => started[k] = 0
                        /\ claims'[k].state = "completed" => claims'[k] = claims[k]
      OBVIOUS
    <3>1. CASE k = key
      BY <1>1, <2>1, <2>4, <3>1
    <3>2. CASE k # key
      <4>1. claims'[k] = claims[k] /\ claims[k].token \in Nat /\ claims[k].token <= calls
        BY <1>2, <2>4, <3>2 DEF Entry
      <4> QED
        BY <1>1, <4>1 DEF Inv, Started
    <3> QED
      BY <3>1, <3>2
  <2>11. LockTableExact'
    BY <1>1, <1>3, <2>2, <2>3, OutsideUsers
  <2>12. PendingIsExplained'
    <3> SUFFICES ASSUME NEW k \in Key, claims'[k].state = "pending" PROVE Explained(k)'
      BY DEF PendingIsExplained, Explained
    <3>1. CASE k = key
      <4>1. worker'[w].key = k /\ worker'[w].token = claims'[k].token
        BY <2>1, <2>3, <2>4, <3>1
      <4> QED
        BY <4>1, ExplainedByCall
    <3>2. CASE k # key
      <4>1. claims'[k] = claims[k] /\ started'[k] = started[k] /\ crashes' = crashes
        BY <1>1, <2>4, <3>2
      <4> QED
        BY <1>1, <1>3, <2>2, <4>1, StillExplained
    <3> QED
      BY <3>1, <3>2
  <2> QED
    BY <1>1, <2>2, <2>3, <2>4, <2>5, <2>6, <2>7, <2>8, <2>9, <2>10, <2>11, <2>12,
       CallTurns
<1>6. CASE claims[key].state # "absent"
  <2>1. claims' = claims /\ worker' = [worker EXCEPT ![w] = Idle]
    <3>1. ~ OwnsClaim(claims[key], command, calls + 1)
      BY <1>1, <1>2 DEF OwnsClaim, Entry
    <3> QED
      BY <1>1, <1>6, <3>1 DEF Submit, Claimed
  <2>2. /\ Idle \in CallState /\ CallOK(Idle) /\ Idle.pc = "idle" /\ Idle.lock = 0
        /\ Idle.token = 0 /\ Idle.pc \notin Running
    BY IdleOK DEF Idle, Running
  <2>3. Idle.token <= calls' /\ ~ InTurn(w)'
    BY <1>1, <2>1, <2>2 DEF InTurn
  <2>4. LockTableExact'
    BY <1>1, <1>3, <2>1, <2>2, OutsideUsers
  <2>5. \A k \in Key : /\ claims'[k].token <= calls'
                       /\ claims'[k].state = "absent" => started[k] = 0
    BY <1>1, <1>2, <2>1 DEF Inv, Started, Entry
  <2>6. PendingIsExplained'
    <3> SUFFICES ASSUME NEW k \in Key, claims'[k].state = "pending" PROVE Explained(k)'
      BY DEF PendingIsExplained, Explained
    <3>1. claims'[k] = claims[k] /\ started'[k] = started[k] /\ crashes' = crashes
      BY <1>1, <2>1
    <3> QED
      BY <1>1, <1>3, <2>1, <3>1, StillExplained
  <2> QED
    BY <1>1, <2>1, <2>2, <2>3, <2>4, <2>5, <2>6, CallTurns
<1> QED
  BY <1>5, <1>6

\* There are more lock objects than calls, and only calls refer to them.
LEMMA FreshLockFound ==
  ASSUME Inv, NEW w \in Worker
  PROVE  FreshLock \in LockObject
<1> DEFINE InUse(l) == \E v \in Worker : worker[v].lock = l
           g == [l \in LockObject |-> CHOOSE v \in Worker : worker[v].lock = l]
<1>1. Cardinality(Worker) \in Nat /\ Cardinality(Worker) # 0
  BY FS_CardinalityType, FS_EmptySet
<1>2. /\ IsFiniteSet(LockObject)
      /\ Cardinality(Worker) < Cardinality(LockObject)
  <2>1. 2 * Cardinality(Worker) \in Int /\ ~ 1 > 2 * Cardinality(Worker)
    BY <1>1
  <2>2. /\ IsFiniteSet(LockObject)
        /\ Cardinality(LockObject) = 2 * Cardinality(Worker) - 1 + 1
    BY <2>1, FS_Interval DEF LockObject
  <2> QED
    BY <1>1, <2>2
<1>3. \E l \in LockObject : ~ InUse(l)
  <2> SUFFICES ASSUME \A l \in LockObject : InUse(l) PROVE FALSE
    OBVIOUS
  <2>1. g \in [LockObject -> Worker] /\ \A l \in LockObject : worker[g[l]].lock = l
    OBVIOUS
  <2> HIDE DEF g
  <2>2. PICK l \in LockObject, m \in LockObject : l # m /\ g[l] = g[m]
    BY <1>2, <2>1, FS_PigeonHole
  <2> QED
    BY <2>1, <2>2
<1>4. \A t \in ThreadName : entries[t] # None => InUse(entries[t].lock)
  <2> SUFFICES ASSUME NEW t \in ThreadName, entries[t] # None PROVE InUse(entries[t].lock)
    OBVIOUS
  <2>1. Users(t) # {} /\ \A v \in Users(t) : worker[v].lock = entries[t].lock
    BY DEF Inv, LockTableExact
  <2> QED
    BY <2>1 DEF Users
<1>5. \E l \in LockObject : /\ \A t \in ThreadName : entries[t] = None \/ entries[t].lock # l
                            /\ \A v \in Worker : worker[v].lock # l
  BY <1>3, <1>4
<1> QED
  BY <1>5 DEF FreshLock

\* The users of a thread are finitely many.
LEMMA UsersFinite ==
  ASSUME NEW t
  PROVE  IsFiniteSet(Users(t)) /\ Cardinality(Users(t)) \in Nat
BY FS_Subset, FS_CardinalityType DEF Users

LEMMA EnterLockKeeps ==
  ASSUME Inv, NEW w \in Worker, EnterLock(w)
  PROVE  Inv'
<1> DEFINE t == MyThread(w)
           lock == IF entries[t] = None THEN FreshLock ELSE entries[t].lock
           users == IF entries[t] = None THEN 0 ELSE entries[t].users
           x == [worker[w] EXCEPT !.pc = "acquire", !.lock = lock]
<1>1. /\ worker[w].pc = "enter" /\ worker[w].pc # "idle"
      /\ entries' = [entries EXCEPT ![t] = [lock |-> lock, users |-> users + 1]]
      /\ worker' = [worker EXCEPT ![w] = x]
      /\ UNCHANGED <<claims, threads, mapping, holder, calls, crashes, faults, started>>
  BY DEF EnterLock, repository, bounds
<1>2. /\ worker[w] \in CallState /\ CallOK(worker[w]) /\ OwningOK(w)
      /\ worker \in [Worker -> CallState]
      /\ claims \in [Key -> Entry] /\ worker[w].key \in Key
      /\ t \in ThreadName
      /\ entries \in [ThreadName -> [lock : LockObject, users : Nat] \cup {None}]
  BY <1>1, Underway DEF Inv, Types
<1>3. /\ lock \in LockObject /\ users \in Nat /\ lock # 0
      /\ entries[t] # None => users = entries[t].users /\ lock = entries[t].lock
  BY <1>2, FreshLockFound DEF LockObject
<1>4. /\ x \in CallState /\ x.pc = "acquire" /\ x.failed = worker[w].failed
      /\ x.key = worker[w].key /\ x.command = worker[w].command
      /\ x.token = worker[w].token /\ x.lock = lock
      /\ x.runtime_started = worker[w].runtime_started
  BY <1>2, <1>3 DEF CallState, AtWork
<1>5. /\ worker'[w] = x
      /\ \A v \in Worker \ {w} : worker'[v] = worker[v]
      /\ entries'[t] = [lock |-> lock, users |-> users + 1]
      /\ \A u \in ThreadName \ {t} : entries'[u] = entries[u]
      /\ entries' \in [ThreadName -> [lock : LockObject, users : Nat] \cup {None}]
  <2>1. [lock |-> lock, users |-> users + 1] \in [lock : LockObject, users : Nat]
    BY <1>3
  <2> HIDE DEF x, lock, users, t
  <2> QED
    BY <1>1, <1>2, <2>1
<1>6. users = Cardinality(Users(t)) /\ w \notin Users(t)
  <2>1. worker[w].lock = 0
    BY <1>1, <1>2 DEF CallOK, WithLock
  <2> QED
    BY <1>2, <1>3, <2>1, FS_EmptySet DEF Inv, LockTableExact, Users
<1> HIDE DEF x, lock, users
<1>7. PICK s \in ThreadName : s = t
  BY <1>2
<1>8. /\ Users(s)' = Users(s) \cup {w}
      /\ \A u \in ThreadName \ {s} : Users(u)' = Users(u)
  <2>1. \A v \in Worker \ {w} : MyThread(v)' = MyThread(v)
    BY <1>5 DEF MyThread
  <2>2. MyThread(w)' = s /\ worker'[w].lock # 0 /\ worker[w].lock = 0
    BY <1>1, <1>2, <1>3, <1>4, <1>5, <1>7 DEF MyThread, CallOK, WithLock
  <2> QED
    BY <1>5, <1>7, <2>1, <2>2 DEF Users
<1>9. LockTableExact'
  <2> SUFFICES ASSUME NEW u \in ThreadName
               PROVE  /\ (entries'[u] = None) = (Users(u)' = {})
                      /\ entries'[u] # None =>
                           /\ entries'[u].users = Cardinality(Users(u)')
                           /\ \A v \in Users(u)' : worker'[v].lock = entries'[u].lock
    BY DEF LockTableExact
  <2>1. CASE u = s
    <3>1. entries'[u].users = Cardinality(Users(u)')
      BY <1>5, <1>6, <1>7, <1>8, <2>1, UsersFinite, FS_AddElement
    <3>2. entries'[u] # None /\ Users(u)' # {} /\ entries'[u].lock = lock
      <4>1. entries'[u] \in [lock : LockObject, users : Nat] /\ entries'[u].lock = lock
        BY <1>3, <1>5, <1>7, <2>1
      <4> QED
        BY <1>8, <2>1, <4>1
    <3>3. \A v \in Users(s) : worker[v].lock = lock
      BY <1>3, <1>7 DEF Inv, LockTableExact
    <3>4. \A v \in Users(s) : worker'[v] = worker[v]
      BY <1>5, <1>6, <1>7 DEF Users
    <3> QED
      BY <1>4, <1>5, <1>8, <2>1, <3>1, <3>2, <3>3, <3>4
  <2>2. CASE u # s
    <3>1. entries'[u] = entries[u] /\ Users(u)' = Users(u) /\ w \notin Users(u)
      BY <1>5, <1>7, <1>8, <2>2 DEF Users
    <3>2. \A v \in Users(u) : worker'[v] = worker[v]
      BY <1>5, <3>1 DEF Users
    <3> QED
      BY <3>1, <3>2 DEF Inv, LockTableExact
  <2> QED
    BY <2>1, <2>2
<1>10. CallOK(x) /\ x.pc \notin Running /\ ~ InTurn(w)' /\ x.token <= calls'
  BY <1>1, <1>2, <1>3, <1>4, <1>5, Underway
     DEF CallOK, WithLock, AtWork, Unbound, Running, InTurn
<1>11. /\ OwningOK(w)'
       /\ started[x.key] = IF x.runtime_started THEN 1 ELSE 0
       /\ \A v \in Worker \ {w} : worker[v].pc # "idle" => x.token # worker[v].token
  <2>1. OwningOK(w)'
    BY <1>1, <1>2, <1>4, <1>5 DEF OwningOK, Over
  <2>2. started[x.key] = IF x.runtime_started THEN 1 ELSE 0
    BY <1>1, <1>4, Underway
  <2>3. \A v \in Worker \ {w} : worker[v].pc # "idle" => x.token # worker[v].token
    BY <1>1, <1>4 DEF Inv, Tokens
  <2> QED
    BY <2>1, <2>2, <2>3
<1>12. PendingIsExplained'
  <2> SUFFICES ASSUME NEW k \in Key, claims'[k].state = "pending" PROVE Explained(k)'
    BY DEF PendingIsExplained, Explained
  <2>1. /\ claims'[k] = claims[k] /\ started'[k] = started[k] /\ crashes' = crashes
        /\ faults' \in Nat /\ faults' >= faults
    BY <1>1 DEF Inv, Types
  <2>2. ASSUME worker[w].key = k, worker[w].token = claims[k].token
        PROVE  Explained(k)'
    BY <1>4, <1>5, <2>1, <2>2, ExplainedByCall
  <2> QED
    BY <1>1, <2>1, <2>2, StillExplained
<1>13. /\ \A k \in Key : /\ claims'[k].token <= calls'
                         /\ claims'[k].state = "absent" => started[k] = 0
       /\ claims' \in [Key -> Entry]
       /\ calls' \in 0 .. MaxCalls /\ calls' >= calls /\ faults' \in Nat
  BY <1>1 DEF Inv, Types, Tokens, Started
<1> QED
  BY <1>1, <1>4, <1>5, <1>9, <1>10, <1>11, <1>12, <1>13, CallTurns

\* After the lock a call is over, or has its claim to give back.
LEMMA AfterLockOK ==
  ASSUME Inv, NEW w \in Worker, worker[w].pc = "leave"
  PROVE  /\ AfterLock(w) \in CallState /\ CallOK(AfterLock(w)) /\ AfterLock(w).lock = 0
         /\ AfterLock(w).pc \notin Running
         /\ ~ (AfterLock(w).pc \in {"resolve", "bind", "run", "running", "publish", "release"})
         /\ AfterLock(w).token <= calls
         /\ AfterLock(w).pc # "idle" =>
              /\ AfterLock(w).pc = "abort"
              /\ worker[w].failed /\ ~ worker[w].runtime_started
              /\ AfterLock(w).key = worker[w].key
              /\ AfterLock(w).command = worker[w].command
              /\ AfterLock(w).token = worker[w].token
              /\ AfterLock(w).failed /\ ~ AfterLock(w).runtime_started
         /\ AfterLock(w).pc = "idle" => ~ worker[w].failed \/ worker[w].runtime_started
<1>1. /\ worker[w] \in CallState /\ CallOK(worker[w])
      /\ worker[w].token <= calls /\ calls \in Nat
  BY Underway DEF Inv, Types
<1>2. CASE worker[w].failed /\ ~ worker[w].runtime_started
  <2> DEFINE x == [worker[w] EXCEPT !.pc = "abort", !.lock = 0]
  <2>1. AfterLock(w) = x
    BY <1>2 DEF AfterLock
  <2>2. /\ x \in CallState /\ x.pc = "abort" /\ x.lock = 0
        /\ x.key = worker[w].key /\ x.command = worker[w].command
        /\ x.token = worker[w].token /\ x.failed = worker[w].failed
        /\ x.runtime_started = worker[w].runtime_started
    BY <1>1 DEF CallState
  <2> HIDE DEF x
  <2>3. CallOK(x)
    BY <1>1, <1>2, <2>2 DEF CallOK, WithLock, AtWork, Unbound, Running
  <2> QED
    BY <1>1, <1>2, <2>1, <2>2, <2>3 DEF Running
<1>3. CASE ~ (worker[w].failed /\ ~ worker[w].runtime_started)
  <2>1. AfterLock(w) = Idle
    BY <1>3 DEF AfterLock
  <2>2. Idle.pc = "idle" /\ Idle.lock = 0 /\ Idle.token = 0
    BY DEF Idle
  <2>3. worker[w].failed \in BOOLEAN /\ worker[w].runtime_started \in BOOLEAN
    BY <1>1 DEF CallState
  <2> QED
    BY <1>1, <1>3, <2>1, <2>2, <2>3, IdleOK DEF Running
<1> QED
  BY <1>2, <1>3

LEMMA LeaveLockKeeps ==
  ASSUME Inv, NEW w \in Worker, LeaveLock(w)
  PROVE  Inv'
<1>1. /\ worker[w].pc = "leave" /\ worker[w].pc # "idle"
      /\ worker' = [worker EXCEPT ![w] = AfterLock(w)]
      /\ UNCHANGED <<claims, threads, mapping, holder, calls, crashes, faults, started>>
  BY DEF LeaveLock, repository, bounds
<1>2. /\ worker[w] \in CallState /\ CallOK(worker[w]) /\ OwningOK(w)
      /\ worker \in [Worker -> CallState]
      /\ claims \in [Key -> Entry] /\ worker[w].key \in Key
      /\ entries \in [ThreadName -> [lock : LockObject, users : Nat] \cup {None}]
  BY <1>1, Underway DEF Inv, Types
<1>3. PICK t \in ThreadName : t = MyThread(w)
  BY <1>1, Underway
<1>4. PICK x \in CallState : x = AfterLock(w)
  BY <1>1, AfterLockOK
<1>5. /\ CallOK(x) /\ x.lock = 0 /\ x.pc \notin Running /\ x.token <= calls
      /\ x.pc \notin {"resolve", "bind", "run", "running", "publish", "release"}
      /\ x.pc # "idle" =>
           /\ x.pc = "abort"
           /\ worker[w].failed /\ ~ worker[w].runtime_started
           /\ x.key = worker[w].key /\ x.command = worker[w].command
           /\ x.token = worker[w].token /\ x.failed /\ ~ x.runtime_started
      /\ x.pc = "idle" => ~ worker[w].failed \/ worker[w].runtime_started
  BY <1>1, <1>4, AfterLockOK
<1>6. /\ worker' = [worker EXCEPT ![w] = x]
      /\ worker'[w] = x
      /\ \A v \in Worker \ {w} : worker'[v] = worker[v]
  BY <1>1, <1>2, <1>4
<1>7. /\ w \in Users(t) /\ entries[t] # None
      /\ entries[t] \in [lock : LockObject, users : Nat]
      /\ entries[t].users = Cardinality(Users(t))
      /\ \A v \in Users(t) : worker[v].lock = entries[t].lock
  <2>1. worker[w].lock # 0
    BY <1>1, <1>2 DEF CallOK, WithLock
  <2>2. w \in Users(t)
    BY <1>3, <2>1 DEF Users
  <2> QED
    BY <1>2, <2>2 DEF Inv, LockTableExact
<1>8. /\ Users(t)' = Users(t) \ {w}
      /\ \A u \in ThreadName \ {t} : Users(u)' = Users(u)
  <2>1. \A v \in Worker \ {w} : MyThread(v)' = MyThread(v)
    BY <1>6 DEF MyThread
  <2> QED
    BY <1>3, <1>5, <1>6, <2>1 DEF Users
<1>9. /\ IsFiniteSet(Users(t)) /\ Cardinality(Users(t)) \in Nat
      /\ IsFiniteSet(Users(t)')
      /\ Cardinality(Users(t)') = Cardinality(Users(t)) - 1
      /\ Cardinality(Users(t)) # 0
  BY <1>7, <1>8, UsersFinite, FS_RemoveElement, FS_EmptySet
<1>10. entries' = [entries EXCEPT ![t] = IF LastUser(entries[t].users) THEN None
                                         ELSE [lock |-> entries[t].lock,
                                               users |-> entries[t].users - 1]]
  BY <1>3, <1>7 DEF LeaveLock
<1>11. /\ LastUser(entries[t].users) => entries'[t] = None
       /\ ~ LastUser(entries[t].users) =>
            /\ entries'[t] \in [lock : LockObject, users : Nat]
            /\ entries'[t].lock = entries[t].lock
            /\ entries'[t].users = entries[t].users - 1
       /\ \A u \in ThreadName \ {t} : entries'[u] = entries[u]
       /\ entries' \in [ThreadName -> [lock : LockObject, users : Nat] \cup {None}]
  <2>1. [lock |-> entries[t].lock, users |-> entries[t].users - 1]
          \in [lock : LockObject, users : Nat]
    BY <1>7, <1>9
  <2> QED
    BY <1>2, <1>10, <2>1
<1>12. LockTableExact'
  <2> SUFFICES ASSUME NEW u \in ThreadName
               PROVE  /\ (entries'[u] = None) = (Users(u)' = {})
                      /\ entries'[u] # None =>
                           /\ entries'[u].users = Cardinality(Users(u)')
                           /\ \A v \in Users(u)' : worker'[v].lock = entries'[u].lock
    BY DEF LockTableExact
  <2>1. CASE u = t
    <3>1. CASE LastUser(entries[t].users)
      <4>1. Cardinality(Users(t)') = 0
        BY <1>7, <1>9, <3>1 DEF LastUser
      <4>2. Users(t)' = {}
        BY <1>9, <4>1, FS_EmptySet
      <4> QED
        BY <1>11, <2>1, <3>1, <4>2
    <3>2. CASE ~ LastUser(entries[t].users)
      <4>1. Cardinality(Users(t)') # 0
        BY <1>7, <1>9, <3>2 DEF LastUser
      <4>2. Users(t)' # {}
        BY <4>1, FS_EmptySet
      <4>3. entries'[t] # None
        BY <1>11, <3>2
      <4>4. \A v \in Users(t)' : worker'[v].lock = entries'[t].lock
        BY <1>6, <1>7, <1>8, <1>11, <3>2 DEF Users
      <4> QED
        BY <1>7, <1>9, <1>11, <2>1, <3>2, <4>2, <4>3, <4>4
    <3> QED
      BY <3>1, <3>2
  <2>2. CASE u # t
    <3>1. entries'[u] = entries[u] /\ Users(u)' = Users(u) /\ w \notin Users(u)
      BY <1>3, <1>8, <1>11, <2>2 DEF Users
    <3>2. \A v \in Users(u) : worker'[v] = worker[v]
      BY <1>6, <3>1 DEF Users
    <3> QED
      BY <3>1, <3>2 DEF Inv, LockTableExact
  <2> QED
    BY <2>1, <2>2
<1>13. ~ InTurn(w)' /\ x.token <= calls'
  BY <1>1, <1>5, <1>6 DEF InTurn
<1>14. x.pc # "idle" =>
         /\ OwningOK(w)'
         /\ started[x.key] = IF x.runtime_started THEN 1 ELSE 0
         /\ \A v \in Worker \ {w} : worker[v].pc # "idle" => x.token # worker[v].token
  <2> SUFFICES ASSUME x.pc # "idle"
               PROVE  /\ OwningOK(w)'
                      /\ started[x.key] = IF x.runtime_started THEN 1 ELSE 0
                      /\ \A v \in Worker \ {w} :
                           worker[v].pc # "idle" => x.token # worker[v].token
    OBVIOUS
  <2>1. OwningOK(w)'
    BY <1>1, <1>2, <1>5, <1>6 DEF OwningOK, Over
  <2>2. started[x.key] = IF x.runtime_started THEN 1 ELSE 0
    BY <1>1, <1>5, Underway
  <2>3. \A v \in Worker \ {w} : worker[v].pc # "idle" => x.token # worker[v].token
    BY <1>1, <1>5 DEF Inv, Tokens
  <2> QED
    BY <2>1, <2>2, <2>3
<1>15. PendingIsExplained'
  <2> SUFFICES ASSUME NEW k \in Key, claims'[k].state = "pending" PROVE Explained(k)'
    BY DEF PendingIsExplained, Explained
  <2>1. /\ claims'[k] = claims[k] /\ started'[k] = started[k] /\ crashes' = crashes
        /\ faults' \in Nat /\ faults' >= faults
    BY <1>1 DEF Inv, Types
  <2>2. ASSUME worker[w].key = k, worker[w].token = claims[k].token
        PROVE  Explained(k)'
    <3>1. CASE x.pc # "idle"
      BY <1>5, <1>6, <2>1, <2>2, <3>1, ExplainedByCall
    <3>2. CASE x.pc = "idle"
      <4>1. CASE ~ worker[w].failed
        <5>1. claims[k].state = "completed"
          BY <1>1, <1>2, <2>2, <4>1 DEF OwningOK, Over
        <5> QED
          BY <2>1, <5>1
      <4>2. CASE worker[w].failed
        <5>1. started[k] = 1
          BY <1>1, <1>5, <2>2, <3>2, <4>2, Underway
        <5> QED
          BY <2>1, <5>1 DEF Explained
      <4> QED
        BY <4>1, <4>2
    <3> QED
      BY <3>1, <3>2
  <2> QED
    BY <1>6, <2>1, <2>2, StillExplained
<1>16. /\ \A k \in Key : /\ claims'[k].token <= calls'
                         /\ claims'[k].state = "absent" => started[k] = 0
       /\ claims' \in [Key -> Entry]
       /\ calls' \in 0 .. MaxCalls /\ calls' >= calls /\ faults' \in Nat
  BY <1>1 DEF Inv, Types, Tokens, Started
<1> QED
  BY <1>1, <1>5, <1>6, <1>11, <1>12, <1>13, <1>14, <1>15, <1>16, CallTurns

\* A call that ends outside the lock, with its claim given back or a fault.
LEMMA EndsAtAbort ==
  ASSUME Inv, NEW w \in Worker, worker[w].pc = "abort",
         worker' = [worker EXCEPT ![w] = Idle],
         \/ claims' = [claims EXCEPT ![worker[w].key] = NoClaim]
         \/ claims' = claims /\ faults' > 0,
         UNCHANGED <<threads, mapping, entries, holder, calls, crashes, started>>,
         faults' \in Nat, faults' >= faults
  PROVE  Inv'
<1>1. /\ worker[w] \in CallState /\ CallOK(worker[w]) /\ OwningOK(w)
      /\ worker \in [Worker -> CallState]
      /\ claims \in [Key -> Entry] /\ worker[w].key \in Key
      /\ started[worker[w].key] = IF worker[w].runtime_started /\ worker[w].pc # "run" THEN 1 ELSE 0
      /\ entries' \in [ThreadName -> [lock : LockObject, users : Nat] \cup {None}]
      /\ calls \in 0 .. MaxCalls
  BY Underway DEF Inv, Types
<1>2. worker[w].lock = 0 /\ started[worker[w].key] = 0
  BY <1>1 DEF CallOK, WithLock, Unbound
<1>3. /\ Idle \in CallState /\ CallOK(Idle) /\ Idle.pc = "idle" /\ Idle.lock = 0
      /\ Idle.token = 0 /\ Idle.pc \notin Running
  BY IdleOK DEF Idle, Running
<1>4. /\ worker'[w] = Idle
      /\ \A v \in Worker \ {w} : worker'[v] = worker[v]
  BY <1>1
<1>5. NoClaim \in Entry /\ NoClaim.state = "absent" /\ NoClaim.token = 0
  BY DEF NoClaim, Entry
<1>6. /\ claims' \in [Key -> Entry]
      /\ \A k \in Key \ {worker[w].key} : claims'[k] = claims[k]
      /\ \/ claims'[worker[w].key] = NoClaim
         \/ claims'[worker[w].key] = claims[worker[w].key] /\ faults' > 0
  BY <1>1, <1>5
<1>7. LockTableExact'
  BY <1>2, <1>3, OutsideUsers
<1>8. \A v \in Worker \ {w} : worker[v].pc # "idle" =>
        claims'[worker[v].key] = claims[worker[v].key]
  BY <1>6, OneOwner, Underway DEF Over
<1>9. \A k \in Key : /\ claims'[k].token <= calls'
                     /\ claims'[k].state = "absent" => started[k] = 0
                     /\ claims'[k].state = "completed" => claims'[k] = claims[k]
  <2> SUFFICES ASSUME NEW k \in Key
               PROVE  /\ claims'[k].token <= calls'
                      /\ claims'[k].state = "absent" => started[k] = 0
                      /\ claims'[k].state = "completed" => claims'[k] = claims[k]
    OBVIOUS
  <2>1. CASE claims'[k] = claims[k]
    BY <2>1 DEF Inv, Tokens, Started
  <2>2. CASE claims'[k] # claims[k]
    <3>1. k = worker[w].key /\ claims'[k] = NoClaim
      BY <1>6, <2>2
    <3> QED
      BY <1>1, <1>2, <1>5, <3>1
  <2> QED
    BY <2>1, <2>2
<1>10. PendingIsExplained'
  <2> SUFFICES ASSUME NEW k \in Key, claims'[k].state = "pending" PROVE Explained(k)'
    BY DEF PendingIsExplained, Explained
  <2>1. claims'[k] = claims[k] /\ started'[k] = started[k] /\ crashes' = crashes
    BY <1>5, <1>6
  <2>2. ASSUME worker[w].key = k PROVE Explained(k)'
    <3>1. faults' > 0
      BY <1>5, <1>6, <2>2
    <3>2. crashes' \in Nat
      BY <2>1 DEF Inv, Types
    <3>3. crashes' + faults' > 0
      BY <3>1, <3>2
    <3> QED
      BY <3>3 DEF Explained
  <2> QED
    BY <2>1, <2>2, StillExplained
<1>11. ~ InTurn(w)' /\ Idle.token <= calls' /\ calls' >= calls /\ calls' \in 0 .. MaxCalls
  BY <1>1, <1>3, <1>4 DEF InTurn
<1> QED
  BY <1>1, <1>3, <1>6, <1>7, <1>8, <1>9, <1>10, <1>11, CallTurns

LEMMA AbortClaimKeeps ==
  ASSUME Inv, NEW w \in Worker, AbortClaim(w)
  PROVE  Inv'
<1>1. /\ worker[w].pc = "abort" /\ worker' = [worker EXCEPT ![w] = Idle]
      /\ UNCHANGED <<threads, mapping, entries, holder, calls, crashes, faults, started>>
      /\ faults' \in Nat /\ faults' >= faults
  BY DEF AbortClaim, turnLock, bounds, Inv, Types
<1>2. OwnsClaim(claims[worker[w].key], worker[w].command, worker[w].token)
  BY <1>1, Underway DEF OwningOK, Over
<1>3. claims' = [claims EXCEPT ![worker[w].key] = NoClaim]
  BY <1>2 DEF AbortClaim
<1> QED
  BY <1>1, <1>3, EndsAtAbort

LEMMA OperationFailsKeeps ==
  ASSUME Inv, NEW w \in Worker, OperationFails(w)
  PROVE  Inv'
<1>1. /\ UNCHANGED <<repository, mapping, turnLock, calls, crashes, started>>
      /\ UNCHANGED <<claims, threads, entries, holder>>
      /\ faults' \in Nat /\ faults' >= faults /\ faults' > 0
  BY DEF OperationFails, repository, turnLock, Inv, Types
<1>2. CASE worker[w].pc \in {"resolve", "bind", "publish"} /\ Raise(w)
  BY <1>1, <1>2, RaiseKeeps
<1>3. CASE worker[w].pc = "abort" /\ worker' = [worker EXCEPT ![w] = Idle]
  BY <1>1, <1>3, EndsAtAbort
<1> QED
  BY <1>2, <1>3 DEF OperationFails

LEMMA CrashKeeps ==
  ASSUME Inv, Crash
  PROVE  Inv'
<1>1. /\ crashes' = crashes + 1 /\ crashes \in Nat /\ faults \in Nat
      /\ worker' = [w \in Worker |-> Idle]
      /\ entries' = [t \in ThreadName |-> None]
      /\ holder' = [l \in LockObject |-> None]
      /\ UNCHANGED <<claims, threads, mapping, calls, faults, started>>
  BY DEF Crash, repository, Inv, Types
<1>2. /\ Idle \in CallState /\ CallOK(Idle) /\ Idle.pc = "idle" /\ Idle.lock = 0
      /\ Idle.token = 0 /\ Idle.pc \notin Running
  BY IdleOK DEF Idle, Running
<1>3. \A w \in Worker : worker'[w] = Idle
  BY <1>1
<1>4. Types' /\ Calls'
  BY <1>1, <1>2, <1>3 DEF Inv, Types, Calls
<1>5. Tokens'
  <2>1. calls \in Nat
    BY DEF Inv, Types
  <2> QED
    BY <1>1, <1>2, <1>3, <2>1 DEF Inv, Tokens
<1>6. Owning' /\ Started'
  BY <1>1, <1>2, <1>3 DEF Inv, Owning, Started
<1>7. Bound' /\ Holding'
  BY <1>2, <1>3 DEF Bound, BoundOK, Running, Holding, InTurn
<1>8. LockTableExact'
  <2>1. \A t : Users(t)' = {}
    BY <1>2, <1>3 DEF Users
  <2> QED
    BY <1>1, <2>1 DEF LockTableExact
<1>9. Receipts'
  BY <1>1 DEF Inv, Receipts, ReceiptOK
<1>10. PendingIsExplained'
  <2>1. crashes' + faults' > 0
    BY <1>1
  <2> QED
    BY <2>1 DEF PendingIsExplained
<1> QED
  BY <1>4, <1>5, <1>6, <1>7, <1>8, <1>9, <1>10 DEF Inv

\* Nothing of the service, only the mapping may change.
LEMMA OnlyMapping ==
  ASSUME Inv, mapping' \in [Bundle -> Snapshot],
         UNCHANGED <<claims, threads, entries, holder, worker, calls, crashes, faults, started>>
  PROVE  Inv'
<1>1. Types' /\ Calls' /\ Tokens' /\ Started'
  BY DEF Inv, Types, Calls, Tokens, Started
<1>2. Owning'
  BY DEF Inv, Owning, OwningOK
<1>3. \A w : MyThread(w)' = MyThread(w) /\ Binding(w)' = Binding(w)
  BY DEF MyThread, Binding
<1>4. Bound'
  BY <1>3 DEF Inv, Bound, BoundOK
<1>5. Holding'
  BY DEF Inv, Holding, InTurn
<1>6. LockTableExact'
  BY TableStays
<1>7. Receipts' /\ PendingIsExplained'
  BY DEF Inv, Receipts, ReceiptOK, PendingIsExplained
<1> QED
  BY <1>1, <1>2, <1>4, <1>5, <1>6, <1>7 DEF Inv

LEMMA RemapKeeps ==
  ASSUME Inv, NEW b \in Bundle, NEW s \in Snapshot, Remap(b, s)
  PROVE  Inv'
BY OnlyMapping DEF Remap, repository, turnLock, Inv, Types

LEMMA StutterKeeps ==
  ASSUME Inv, UNCHANGED vars
  PROVE  Inv'
BY OnlyMapping DEF vars, Inv, Types

-----------------------------------------------------------------------------
(* The invariant, and what follows from it.                                 *)

LEMMA InitInv == Init => Inv
<1> SUFFICES ASSUME Init PROVE Inv
  OBVIOUS
<1>1. /\ claims = [k \in Key |-> NoClaim] /\ threads = [t \in ThreadName |-> None]
      /\ mapping \in [Bundle -> Snapshot]
      /\ entries = [t \in ThreadName |-> None] /\ holder = [l \in LockObject |-> None]
      /\ worker = [w \in Worker |-> Idle]
      /\ calls = 0 /\ crashes = 0 /\ faults = 0
      /\ started = [k \in Key |-> 0]
  BY DEF Init
<1>2. /\ Idle \in CallState /\ CallOK(Idle) /\ Idle.pc = "idle" /\ Idle.lock = 0
      /\ Idle.token = 0 /\ Idle.pc \notin Running
  BY IdleOK DEF Idle, Running
<1>3. NoClaim \in Entry /\ NoClaim.state = "absent" /\ NoClaim.token = 0
  BY DEF NoClaim, Entry
<1>4. Types
  BY <1>1, <1>2, <1>3 DEF Types
<1>5. Calls /\ Tokens /\ Owning /\ Started
  BY <1>1, <1>2, <1>3 DEF Calls, Tokens, Owning, Started
<1>6. Bound /\ Holding
  BY <1>1, <1>2 DEF Bound, BoundOK, Running, Holding, InTurn
<1>7. LockTableExact
  <2>1. \A t : Users(t) = {}
    BY <1>1, <1>2 DEF Users
  <2> QED
    BY <1>1, <2>1 DEF LockTableExact
<1>8. Receipts /\ PendingIsExplained
  BY <1>1, <1>3 DEF Receipts, PendingIsExplained
<1> QED
  BY <1>4, <1>5, <1>6, <1>7, <1>8 DEF Inv

LEMMA InvStep == Inv /\ [Next]_vars => Inv'
<1> SUFFICES ASSUME Inv, [Next]_vars PROVE Inv'
  OBVIOUS
<1>1. ASSUME NEW w \in Worker, NEW key \in Key, NEW command \in Command,
             Submit(w, key, command)
      PROVE  Inv'
  BY <1>1, SubmitKeeps
<1>2. ASSUME NEW w \in Worker, Advance(w) PROVE Inv'
  BY <1>2, EnterLockKeeps, AcquireLockKeeps, ResolveKeeps, BindThreadKeeps,
     StartRunnerKeeps, RunnerAnswersKeeps, PublishReceiptKeeps, ReleaseLockKeeps,
     LeaveLockKeeps, AbortClaimKeeps DEF Advance
<1>3. ASSUME NEW w \in Worker, OperationFails(w) PROVE Inv'
  BY <1>3, OperationFailsKeeps
<1>4. CASE Crash
  BY <1>4, CrashKeeps
<1>5. ASSUME NEW b \in Bundle, NEW s \in Snapshot, Remap(b, s) PROVE Inv'
  BY <1>5, RemapKeeps
<1>6. CASE UNCHANGED vars
  BY <1>6, StutterKeeps
<1> QED
  BY <1>1, <1>2, <1>3, <1>4, <1>5, <1>6 DEF Next

\* Every reachable state of the turn service satisfies the invariant.
THEOREM Invariance == Spec => []Inv
<1>1. Init => Inv
  BY InitInv
<1>2. Inv /\ [Next]_vars => Inv'
  BY InvStep
<1> QED
  BY <1>1, <1>2, PTL DEF Spec

\* The invariant types the variables.
LEMMA InvTypes == Inv => TypeOK
<1> SUFFICES ASSUME Inv PROVE TypeOK
  OBVIOUS
<1>1. \A k \in Key : /\ claims[k].state \in {"absent", "pending", "completed"}
                     /\ claims[k].command \in Command \cup {None}
                     /\ claims[k].token \in 0 .. MaxCalls
  <2> SUFFICES ASSUME NEW k \in Key
               PROVE  /\ claims[k].state \in {"absent", "pending", "completed"}
                      /\ claims[k].command \in Command \cup {None}
                      /\ claims[k].token \in 0 .. MaxCalls
    OBVIOUS
  <2>1. claims[k] \in Entry /\ claims[k].token <= calls /\ calls \in 0 .. MaxCalls
    BY DEF Inv, Types, Tokens
  <2> QED
    BY <2>1 DEF Entry
<1>2. ASSUME NEW t \in ThreadName, entries[t] # None
      PROVE  entries[t].lock \in LockObject /\ entries[t].users \in 1 .. Cardinality(Worker)
  <2>1. /\ entries[t] \in [lock : LockObject, users : Nat]
        /\ Users(t) # {} /\ entries[t].users = Cardinality(Users(t))
    BY <1>2 DEF Inv, Types, LockTableExact
  <2>2. IsFiniteSet(Users(t)) /\ Cardinality(Users(t)) \in Nat
    BY UsersFinite
  <2>3. Cardinality(Users(t)) <= Cardinality(Worker)
    BY FS_Subset DEF Users
  <2>4. Cardinality(Users(t)) # 0 /\ Cardinality(Worker) \in Nat
    BY <2>1, <2>2, FS_EmptySet, FS_CardinalityType
  <2> QED
    BY <2>1, <2>2, <2>3, <2>4
<1>3. holder \in [LockObject -> Worker \cup {None}]
  BY DEF Inv, Types
<1>4. \A w \in Worker :
        worker[w].pc \in {"idle", "enter", "acquire", "resolve", "bind", "run", "running",
                          "publish", "release", "leave", "abort"}
  BY DEF Inv, Types, CallState, AtWork, Over
<1> QED
  BY <1>1, <1>2, <1>3, <1>4 DEF TypeOK

\* The variables keep their types: no entry counts more users than there are
\* calls, or none.
THEOREM TypeCorrect == Spec => []TypeOK
BY Invariance, InvTypes, PTL

\* A repeated turn is safe: its runner is called at most once under its key,
\* its receipt is that of its command over what its thread is bound to, and a
\* key stays pending only with a reason.
THEOREM RepeatsSafe == Spec => []RepeatsAreSafe
<1>1. Inv => RepeatsAreSafe
  <2> SUFFICES ASSUME Inv PROVE RepeatsAreSafe
    OBVIOUS
  <2>1. TypeOK
    BY InvTypes
  <2>2. RunnerOncePerKey
    BY DEF Inv, Started, RunnerOncePerKey
  <2>3. ReceiptFits
    BY DEF Inv, Receipts, ReceiptOK, ReceiptFits
  <2>4. PendingIsExplained
    BY DEF Inv
  <2> QED
    BY <2>1, <2>2, <2>3, <2>4 DEF RepeatsAreSafe
<1> QED
  BY <1>1, Invariance, PTL

\* The lock of a thread does its work: two turns of one thread never overlap,
\* and the table knows a thread exactly as long as it has a user.
THEOREM LockWorks == Spec => []LockHolds
<1>1. Inv => LockHolds
  <2> SUFFICES ASSUME Inv PROVE LockHolds
    OBVIOUS
  <2>1. ASSUME NEW v \in Worker, NEW w \in Worker, InTurn(v), InTurn(w),
               MyThread(v) = MyThread(w)
        PROVE  v = w
    <3>1. /\ worker[v].pc # "idle" /\ worker[v].pc \in WithLock
          /\ worker[w].pc # "idle" /\ worker[w].pc \in WithLock
      BY <2>1 DEF InTurn, WithLock
    <3>2. PICK t \in ThreadName : t = MyThread(v)
      BY <3>1, Underway
    <3>3. v \in Users(t) /\ w \in Users(t)
      BY <2>1, <3>1, <3>2, Underway DEF Users, CallOK
    <3>4. worker[v].lock = worker[w].lock
      BY <3>3 DEF Inv, LockTableExact
    <3> QED
      BY <2>1, <3>4 DEF Inv, Holding
  <2>2. TurnsExclude
    BY <2>1 DEF TurnsExclude
  <2> QED
    BY <2>2 DEF Inv, LockHolds
<1> QED
  BY <1>1, Invariance, PTL
=============================================================================
