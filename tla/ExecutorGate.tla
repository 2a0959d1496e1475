---------------------------- MODULE ExecutorGate ----------------------------
(***************************************************************************)
(* The way the web adapters run blocking service calls: a thread pool      *)
(* behind an asyncio semaphore of twice its threads.  A request resolves   *)
(* its principal in the pool, reads its body on the event loop, and runs   *)
(* its operation in the pool; an upload also passes the upload gate, with  *)
(* a time limit on its body.  The event loop, the pool's threads, clients  *)
(* that go away and the end of the application's lifespan interleave.      *)
(* workbook_asset_web.py has all of it; web.py, processing_web.py and      *)
(* workbook_edit_web.py have it without the upload gate.                   *)
(***************************************************************************)
EXTENDS Integers, Sequences, FiniteSets, SequencesExt

CONSTANTS Requests, Uploads, Threads, UploadConcurrency

\* What an instance assumes of them.
GateAssumption ==
    /\ IsFiniteSet(Requests) /\ Uploads \subseteq Requests
    /\ Threads \in Nat \ {0} /\ UploadConcurrency \in Nat \ {0}

VARIABLES
    request,    \* where each request's coroutine is, and in which leg
    gate,       \* the executor gate
    upload,     \* the upload gate
    future,     \* the future of each leg's call
    queue,      \* the pool's work queue; a cancelled call stays in it
    releases,   \* releases of the gate scheduled on the loop
    lifespan

gateVars == <<request, gate, upload, future, queue, releases, lifespan>>

Legs == {"principal", "operation"}
Calls == Requests \X Legs
Capacity == 2 * Threads

GateTypeOK ==
    /\ request \in [Requests -> [at : {"new", "gate", "awaiting", "uploadGate", "body", "ended"},
                                 leg : Legs]]
    /\ gate.free \in 0..Capacity /\ gate.granted \subseteq Requests
    /\ Range(gate.waiters) \subseteq Requests
    /\ upload.free \in 0..UploadConcurrency /\ upload.granted \subseteq Requests
    /\ Range(upload.waiters) \subseteq Uploads
    /\ future \in [Calls -> {"none", "queued", "running", "done", "cancelled"}]
    /\ queue \in Seq(Calls)
    /\ releases \in Nat
    /\ lifespan \in {"open", "closing", "closed"}

At(r) == request[r].at
Call(r) == <<r, request[r].leg>>
Live(c) == future[c] \in {"queued", "running"}
Running == {c \in Calls : future[c] = "running"}

-----------------------------------------------------------------------------
(***************************************************************************)
(* asyncio.Semaphore: first come, first served; a release hands its permit *)
(* to the first waiter, which runs later and may be cancelled before that. *)
(***************************************************************************)
Semaphore(n) == [free |-> n, waiters |-> <<>>, granted |-> {}]
IsFree(s) == s.free > 0 /\ s.waiters = <<>>
Taken(s) == [s EXCEPT !.free = @ - 1]
Waiting(s, r) == [s EXCEPT !.waiters = Append(@, r)]
Released(s) ==
    IF s.waiters = <<>>
    THEN [s EXCEPT !.free = @ + 1]
    ELSE [s EXCEPT !.waiters = Tail(@), !.granted = @ \cup {Head(s.waiters)}]
Entered(s, r) == [s EXCEPT !.granted = @ \ {r}]
PlaceOf(s, r) == CHOOSE i \in DOMAIN s.waiters : s.waiters[i] = r
Withdrawn(s, r) ==
    IF r \in s.granted
    THEN Released(Entered(s, r))
    ELSE [s EXCEPT !.waiters = RemoveAt(@, PlaceOf(s, r))]

GateInit ==
    /\ request = [r \in Requests |-> [at |-> "new", leg |-> "principal"]]
    /\ gate = Semaphore(Capacity)
    /\ upload = Semaphore(UploadConcurrency)
    /\ future = [c \in Calls |-> "none"]
    /\ queue = <<>>
    /\ releases = 0
    /\ lifespan = "open"

-----------------------------------------------------------------------------
(***************************************************************************)
(* The event loop.  It stands still while the lifespan waits for the pool. *)
(***************************************************************************)
Loop == lifespan # "closing"

\* An upload holds its gate from its body to its answer.
HoldsUpload(r) == r \in Uploads /\ request[r].leg = "operation" /\ At(r) \in {"body", "gate", "awaiting"}

Goes(r, at, leg) == request' = [request EXCEPT ![r] = [at |-> at, leg |-> leg]]

\* The request's coroutine ends, with an answer or without; an upload's
\* finally clause gives its gate back.
Ends(r) ==
    /\ Goes(r, "ended", request[r].leg)
    /\ upload' = IF HoldsUpload(r) THEN Released(upload) ELSE upload

\* executor.submit, after the gate has been passed
Submits(c) ==
    /\ future' = [future EXCEPT ![c] = "queued"]
    /\ queue' = Append(queue, c)

\* offload, up to its first suspension: it fails outside the lifespan, and
\* does not suspend at a gate that is free
Offload(r, leg) ==
    \/ /\ lifespan # "open"
       /\ Ends(r)
       /\ UNCHANGED <<gate, future, queue>>
    \/ /\ lifespan = "open" /\ IsFree(gate)
       /\ gate' = Taken(gate)
       /\ Submits(<<r, leg>>)
       /\ Goes(r, "awaiting", leg)
       /\ UNCHANGED upload
    \/ /\ lifespan = "open" /\ ~IsFree(gate)
       /\ gate' = Waiting(gate, r)
       /\ Goes(r, "gate", leg)
       /\ UNCHANGED <<upload, future, queue>>

Arrive(r) ==
    /\ Loop /\ At(r) = "new"
    /\ Offload(r, "principal")
    /\ UNCHANGED <<releases, lifespan>>

\* A waiter that was handed a permit runs; a pool that was shut down
\* meanwhile refuses the call, and the permit goes back.
Pass(r) ==
    /\ Loop /\ At(r) = "gate" /\ r \in gate.granted
    /\ \/ /\ lifespan = "open"
          /\ gate' = Entered(gate, r)
          /\ Submits(Call(r))
          /\ Goes(r, "awaiting", request[r].leg)
          /\ UNCHANGED upload
       \/ /\ lifespan = "closed"
          /\ gate' = Released(Entered(gate, r))
          /\ Ends(r)
          /\ UNCHANGED <<future, queue>>
    /\ UNCHANGED <<releases, lifespan>>

\* The answer of the principal's call: an error, or the body comes next,
\* for an upload behind the upload gate.
PrincipalKnown(r) ==
    /\ Loop /\ At(r) = "awaiting" /\ request[r].leg = "principal" /\ future[Call(r)] = "done"
    /\ \/ Ends(r)
       \/ /\ r \notin Uploads
          /\ Goes(r, "body", "operation")
          /\ UNCHANGED upload
       \/ /\ r \in Uploads /\ IsFree(upload)
          /\ upload' = Taken(upload)
          /\ Goes(r, "body", "operation")
       \/ /\ r \in Uploads /\ ~IsFree(upload)
          /\ upload' = Waiting(upload, r)
          /\ Goes(r, "uploadGate", "principal")
    /\ UNCHANGED <<gate, future, queue, releases, lifespan>>

PassUpload(r) ==
    /\ Loop /\ At(r) = "uploadGate" /\ r \in upload.granted
    /\ upload' = Entered(upload, r)
    /\ Goes(r, "body", "operation")
    /\ UNCHANGED <<gate, future, queue, releases, lifespan>>

\* The body is read: it is refused, or the operation is offloaded.
ReadBody(r) ==
    /\ Loop /\ At(r) = "body"
    /\ \/ Ends(r) /\ UNCHANGED <<gate, future, queue>>
       \/ Offload(r, "operation")
    /\ UNCHANGED <<releases, lifespan>>

\* Only the body of an upload has a time limit.
ReadTimeout(r) ==
    /\ Loop /\ At(r) = "body" /\ r \in Uploads
    /\ Ends(r)
    /\ UNCHANGED <<gate, future, queue, releases, lifespan>>

\* The operation's answer; or the shutdown cancelled the call, which the
\* coroutine sees as its own cancellation.
Respond(r) ==
    /\ Loop /\ At(r) = "awaiting"
    /\ \/ request[r].leg = "operation" /\ future[Call(r)] = "done"
       \/ future[Call(r)] = "cancelled"
    /\ Ends(r)
    /\ UNCHANGED <<gate, future, queue, releases, lifespan>>

\* The client goes away and the coroutine is cancelled where it waits.  A
\* queued call is cancelled, and its callback schedules the release; a
\* running call keeps its permit.
ClientGone(r) ==
    /\ Loop /\ At(r) \notin {"new", "ended"}
    /\ Goes(r, "ended", request[r].leg)
    /\ gate' = IF At(r) = "gate" THEN Withdrawn(gate, r) ELSE gate
    /\ upload' = CASE HoldsUpload(r) -> Released(upload)
                   [] At(r) = "uploadGate" -> Withdrawn(upload, r)
                   [] OTHER -> upload
    /\ IF At(r) = "awaiting" /\ future[Call(r)] = "queued"
       THEN /\ future' = [future EXCEPT ![Call(r)] = "cancelled"]
            /\ releases' = releases + 1
       ELSE UNCHANGED <<future, releases>>
    /\ UNCHANGED <<queue, lifespan>>

\* A scheduled callback runs.
Release ==
    /\ Loop /\ releases > 0
    /\ releases' = releases - 1
    /\ gate' = Released(gate)
    /\ UNCHANGED <<request, upload, future, queue, lifespan>>

-----------------------------------------------------------------------------
(***************************************************************************)
(* The pool, and the end of the lifespan.                                  *)
(***************************************************************************)
\* An idle thread takes the next call; a cancelled one is dropped.
Take ==
    /\ queue # <<>> /\ Cardinality(Running) < Threads
    /\ queue' = Tail(queue)
    /\ future' = [future EXCEPT ![Head(queue)] = IF @ = "queued" THEN "running" ELSE @]
    /\ UNCHANGED <<request, gate, upload, releases, lifespan>>

FaultFinish(c) ==
    /\ future[c] = "running"
    /\ future' = [future EXCEPT ![c] = "done"]
    /\ releases' = IF At(c[1]) = "awaiting" THEN releases + 1 ELSE releases
    /\ UNCHANGED <<request, gate, upload, queue, lifespan>>
\* A call returns or raises; its done callback schedules the release.
Finish(c) ==
    /\ future[c] = "running"
    /\ future' = [future EXCEPT ![c] = "done"]
    /\ releases' = releases + 1
    /\ UNCHANGED <<request, gate, upload, queue, lifespan>>

\* The shutdown cancels the queued calls and waits for the running ones.
Close ==
    /\ lifespan = "open"
    /\ lifespan' = "closing"
    /\ future' = [c \in Calls |-> IF future[c] = "queued" THEN "cancelled" ELSE future[c]]
    /\ releases' = releases + Cardinality({c \in Calls : future[c] = "queued"})
    /\ queue' = <<>>
    /\ UNCHANGED <<request, gate, upload>>

Closed ==
    /\ lifespan = "closing" /\ Running = {}
    /\ lifespan' = "closed"
    /\ UNCHANGED <<request, gate, upload, future, queue, releases>>

GateNext ==
    \/ \E r \in Requests :
          \/ Arrive(r) \/ Pass(r) \/ PrincipalKnown(r) \/ PassUpload(r)
          \/ ReadBody(r) \/ ReadTimeout(r) \/ Respond(r) \/ ClientGone(r)
    \/ Release \/ Take
    \/ \E c \in Calls : Finish(c)
    \/ Close \/ Closed

GateSpec == GateInit /\ [][GateNext]_gateVars

-----------------------------------------------------------------------------
\* What the gate keeps.

Unfinished == {c \in Calls : Live(c)}

\* A permit of the gate is free, handed to a waiter, held by one call that
\* has not finished, or on its way back, and never two of these: a client
\* that goes away neither loses its slot nor returns it while its call still
\* runs (offload and release_gate).  An upload holds its gate from its body to
\* its answer, and gives it back on every way out, the time limit and a
\* disconnection included (upload_endpoint).  And no permit that comes back is
\* left lying while a request waits for it.
SlotsAreAccounted ==
    /\ GateTypeOK
    /\ gate.free + Cardinality(gate.granted) + Cardinality(Unfinished) + releases = Capacity
    /\ upload.free + Cardinality(upload.granted)
          + Cardinality({r \in Requests : HoldsUpload(r)}) = UploadConcurrency
    /\ gate.free > 0 => gate.waiters = <<>>
    /\ upload.free > 0 => upload.waiters = <<>>
=============================================================================
