---------------------------- MODULE WorkbookAsset ----------------------------
(***************************************************************************)
(* The upload of a workbook: the service (workbook_asset_service.py), its  *)
(* catalog of commands, workbooks, snapshots and heads                     *)
(* (workbook_asset_sqlite.py) and the immutable store of the bytes         *)
(* (workbook_snapshot_publication.py).                                     *)
(*                                                                         *)
(* The bytes are stored and read back first; then a leased claim on the    *)
(* idempotency key is taken, and one transaction publishes the snapshot.   *)
(* A call is a client's request in some process: it may die between any    *)
(* two steps, and the power may fail, which undoes what was not synced.    *)
(***************************************************************************)
EXTENDS Integers, FiniteSets, FiniteSetsExt

CONSTANTS Upload,        \* the requests that may be in progress at once
          Key,           \* an idempotency key of a principal: it names one workbook
          Content,       \* what is uploaded
          Workbook,      \* the contents that are safe, readable xlsx archives
          None,
          TTL,           \* command_claim_ttl_seconds, in ticks
          MaxWait,       \* bound: ticks a claim may wait for the database (30 s of 300 s)
          MaxFence,      \* the greatest fence the catalog gives out
          MaxDeaths, MaxOutages, MaxFaults  \* bounds on the faults of a behaviour

ASSUME AssetAssumption ==
  /\ Workbook \subseteq Content
  /\ TTL \in Nat \ {0} /\ MaxWait \in 0 .. TTL - 1 /\ MaxFence \in Nat \ {0}
  /\ MaxDeaths \in Nat /\ MaxOutages \in Nat /\ MaxFaults \in Nat
  /\ IsFiniteSet(Upload) /\ IsFiniteSet(Key)
  /\ None \notin [key : Key, content : Content, created : Nat]

VARIABLES
  objects,   \* objects[c]: the object of the store that is named by the digest of c
  commands,  \* commands[k]: the row of upload_commands
  catalog,   \* catalog[k]: the rows of the workbook, its snapshot and its head
  call,      \* call[u]: where a request is and what it knows
  deaths, outages, faults

vars == <<objects, commands, catalog, call, deaths, outages, faults>>
stored == <<commands, catalog>>

NoCommand == [state |-> "absent", content |-> None, token |-> 0, fence |-> 0, left |-> 0, receipt |-> None]
NoObject == [entry |-> "absent", data |-> "synced"]
Idle == [pc |-> "idle", key |-> None, content |-> None, token |-> 0, fence |-> 0, late |-> 0, answer |-> None]

Init ==
  /\ objects = [c \in Content |-> NoObject]
  /\ commands = [k \in Key |-> NoCommand]
  /\ catalog = [k \in Key |-> None]
  /\ call = [u \in Upload |-> Idle]
  /\ deaths = 0 /\ outages = 0 /\ faults = 0

\* What a request remembers only while it runs; its answer outlives it.
Go(u, pc) == call' = [call EXCEPT ![u].pc = pc]
Answer(u, answer) == call' = [call EXCEPT ![u] = [Idle EXCEPT !.key = call[u].key, !.answer = answer]]
Refusal(code) == [code |-> code, replayed |-> FALSE, receipt |-> None]

-----------------------------------------------------------------------------
\* The store.  An entry is made durable by a sync of the directory, the data
\* of a file by a sync of the file, which comes before its link.

ReadDigest(c) ==
  IF objects[c].entry = "absent" THEN "ASSET_STORE_UNAVAILABLE"
  ELSE IF objects[c].data = "torn" THEN "ASSET_INTEGRITY_MISMATCH" ELSE "ok"

FileSync == "synced"

\* A file that is found in place may be one whose writer did not yet sync the
\* directory: it is synced again before it is relied upon.
FaultTrustsExisting == "reread"
AfterExisting == "sync"

CheckExisting(u) ==
  LET c == call[u].content
  IN /\ UNCHANGED objects
     /\ IF ReadDigest(c) = "ok" THEN Go(u, AfterExisting)
        ELSE Answer(u, Refusal(ReadDigest(c)))

\* put_if_absent: an object in place is checked, else a private file is
\* written and synced.
Put(u) ==
  /\ call[u].pc = "put"
  /\ IF objects[call[u].content].entry # "absent" THEN CheckExisting(u)
     ELSE Go(u, "link") /\ UNCHANGED objects
  /\ UNCHANGED <<stored, deaths, outages, faults>>

\* The link puts the whole file in place at once, or finds it there.
Link(u) ==
  /\ call[u].pc = "link"
  /\ IF objects[call[u].content].entry # "absent" THEN CheckExisting(u)
     ELSE /\ objects' = [objects EXCEPT ![call[u].content] = [entry |-> "volatile", data |-> FileSync]]
          /\ Go(u, "sync")
  /\ UNCHANGED <<stored, deaths, outages, faults>>

SyncDirectory(u) ==
  /\ call[u].pc = "sync"
  /\ objects' = [c \in Content |->
       IF objects[c].entry = "volatile" THEN [objects[c] EXCEPT !.entry = "durable"] ELSE objects[c]]
  /\ Go(u, "reread")
  /\ UNCHANGED <<stored, deaths, outages, faults>>

\* read_verified, then the snapshot the request would publish.
ReadBack(u) ==
  /\ call[u].pc = "reread"
  /\ IF ReadDigest(call[u].content) = "ok" THEN Go(u, "clock")
     ELSE Answer(u, Refusal(ReadDigest(call[u].content)))
  /\ UNCHANGED <<objects, stored, deaths, outages, faults>>

-----------------------------------------------------------------------------
\* The claim of the key.

\* A token nobody holds and no row names (secrets.token_urlsafe); it also
\* stands for the time of the snapshot that its request would publish.
UsedTokens ==
  {call[u].token : u \in Upload} \cup {commands[k].token : k \in Key}
    \cup {catalog[k].created : k \in {j \in Key : catalog[j] # None}}
FreshToken == Min((1 .. Cardinality(Upload) + 2 * Cardinality(Key) + 1) \ UsedTokens)

Snapshot(u) == [key |-> call[u].key, content |-> call[u].content, created |-> call[u].token]

\* The time of a claim is read before the database is waited for.
ReadClock(u) ==
  /\ call[u].pc = "clock"
  /\ call' = [call EXCEPT ![u].pc = "claim", ![u].token = FreshToken, ![u].late = 0]
  /\ UNCHANGED <<objects, stored, deaths, outages, faults>>

FaultNeverExpires(command, late) == FALSE
Expired(command, late) == command.left + late <= 0

\* The row a claim writes, and the same row when it is written.
Claimed(u, command) ==
  [state |-> "pending", content |-> call[u].content, token |-> call[u].token,
   fence |-> command.fence + 1, left |-> TTL - call[u].late, receipt |-> None]

CanTake(u, command) ==
  \/ command.state = "absent"
  \/ /\ command.state = "pending" /\ command.content = call[u].content
     /\ Expired(command, call[u].late) /\ command.fence < MaxFence

\* What claim_upload answers when it takes nothing.
ClaimAnswer(u, command) ==
  IF command.content # call[u].content THEN "IDEMPOTENCY_CONFLICT"
  ELSE IF command.state = "completed" THEN "completed"
  ELSE IF ~ Expired(command, call[u].late) THEN "COMMAND_IN_PROGRESS" ELSE "SERVICE_UNAVAILABLE"

Claim(u) ==
  /\ call[u].pc = "claim"
  /\ LET k == call[u].key
         command == commands[k]
         fenced == Claimed(u, command)
     IN IF CanTake(u, command)
        THEN /\ commands' = [commands EXCEPT ![k] = fenced]
             /\ call' = [call EXCEPT ![u].pc = "publish", ![u].fence = fenced.fence]
        ELSE /\ UNCHANGED commands
             /\ IF ClaimAnswer(u, command) = "completed" THEN Go(u, "verify")
                ELSE Answer(u, Refusal(ClaimAnswer(u, command)))
  /\ UNCHANGED <<objects, catalog, deaths, outages, faults>>

\* A fault of the database under a claim, before it commits or after (when
\* the files are secured again): the claim may stand, and nobody holds it.
ClaimFails(u) ==
  /\ call[u].pc = "claim" /\ faults < MaxFaults
  /\ faults' = faults + 1
  /\ \/ UNCHANGED commands
     \/ /\ CanTake(u, commands[call[u].key])
        /\ commands' = [commands EXCEPT ![call[u].key] = Claimed(u, @)]
  /\ Answer(u, Refusal("SERVICE_UNAVAILABLE"))
  /\ UNCHANGED <<objects, catalog, deaths, outages>>

-----------------------------------------------------------------------------
\* The publication.

\* _require_claim: the row is the caller's, and its lease still runs.
FaultHeldByAnyone(u, command) == command.state = "pending" /\ command.content = call[u].content
Holds(u, command) ==
  /\ command.state = "pending"
  /\ command.content = call[u].content
  /\ command.token = call[u].token /\ command.fence = call[u].fence
  /\ command.left > 0

CanPublish(u) == Holds(u, commands[call[u].key]) /\ catalog[call[u].key] = None

\* The rows of the workbook and the completed command, in one transaction.
Completed(u, command) ==
  [command EXCEPT !.state = "completed", !.token = 0, !.left = 0, !.receipt = Snapshot(u)]

Publication(u) ==
  /\ commands' = [commands EXCEPT ![call[u].key] = Completed(u, @)]
  /\ catalog' = [catalog EXCEPT ![call[u].key] = Snapshot(u)]

\* A claim that is lost is not given back; any other failure gives it back.
Publish(u) ==
  /\ call[u].pc = "publish"
  /\ IF CanPublish(u)
     THEN /\ Publication(u)
          /\ Answer(u, [code |-> "stored", replayed |-> FALSE, receipt |-> Snapshot(u)])
     ELSE /\ UNCHANGED stored
          /\ IF Holds(u, commands[call[u].key]) THEN Go(u, "abort")
             ELSE Answer(u, Refusal("STALE_UPLOAD_CLAIM"))
  /\ UNCHANGED <<objects, deaths, outages, faults>>

PublishFails(u) ==
  /\ call[u].pc = "publish" /\ faults < MaxFaults
  /\ faults' = faults + 1
  /\ UNCHANGED stored \/ (CanPublish(u) /\ Publication(u))
  /\ Go(u, "abort")
  /\ UNCHANGED <<objects, deaths, outages>>

\* _abort_quietly: what it cannot do is not told.
Abort(u) ==
  /\ call[u].pc = "abort"
  /\ commands' = [commands EXCEPT ![call[u].key] = IF Holds(u, @) THEN NoCommand ELSE @]
  /\ Answer(u, Refusal("SERVICE_UNAVAILABLE"))
  /\ UNCHANGED <<objects, catalog, deaths, outages, faults>>

\* download, bind_source_provider: the row is resolved and the bytes are read
\* and compared with it.
Download(k, snapshot) ==
  IF catalog[k] = None THEN "WORKBOOK_NOT_FOUND"
  ELSE IF catalog[k].content # snapshot.content THEN "WORKBOOK_NOT_FOUND"
  ELSE ReadDigest(snapshot.content)

\* A replay is answered after the row and the object were read again.
Replayed(u) == commands[call[u].key].receipt

VerifyReplay(u) ==
  /\ call[u].pc = "verify"
  /\ LET k == call[u].key
     IN IF catalog[k] = commands[k].receipt /\ Download(k, Snapshot(u)) = "ok"
        THEN Answer(u, [code |-> "stored", replayed |-> TRUE, receipt |-> Replayed(u)])
        ELSE Answer(u, Refusal("SERVICE_UNAVAILABLE"))
  /\ UNCHANGED <<objects, stored, deaths, outages, faults>>

-----------------------------------------------------------------------------
\* Requests, time and faults.

\* The workbook is validated before anything is stored.
Submit(u, k, c) ==
  /\ call[u].pc = "idle"
  /\ LET asked == [Idle EXCEPT !.key = k, !.content = c]
     IN call' = [call EXCEPT ![u] =
          IF c \in Workbook THEN [asked EXCEPT !.pc = "put"]
          ELSE [asked EXCEPT !.content = None, !.answer = Refusal("INVALID_WORKBOOK")]]
  /\ UNCHANGED <<objects, stored, deaths, outages, faults>>

\* A fault of the store or of the database where nothing is held.
StoreFails(u) ==
  /\ call[u].pc \in {"put", "link", "sync", "reread", "verify"} /\ faults < MaxFaults
  /\ faults' = faults + 1
  /\ Answer(u, Refusal("SERVICE_UNAVAILABLE"))
  /\ UNCHANGED <<objects, stored, deaths, outages>>

\* A second of the bound on the wait passes for whoever waits for the database.
Tick ==
  /\ \A u \in Upload : call[u].pc = "claim" => call[u].late < MaxWait
  /\ commands' = [k \in Key |->
       IF commands[k].state = "pending" /\ commands[k].left > - MaxWait
       THEN [commands[k] EXCEPT !.left = @ - 1] ELSE commands[k]]
  /\ call' = [u \in Upload |->
       IF call[u].pc = "claim" THEN [call[u] EXCEPT !.late = @ + 1] ELSE call[u]]
  /\ UNCHANGED <<objects, catalog, deaths, outages, faults>>

\* The process of a request dies.
Die(u) ==
  /\ call[u].pc # "idle" /\ deaths < MaxDeaths
  /\ deaths' = deaths + 1
  /\ call' = [call EXCEPT ![u] = Idle]
  /\ UNCHANGED <<objects, stored, outages, faults>>

\* The power fails: every request dies, entries that were not synced may be
\* gone, and data that was not synced may be torn.  The catalog is synced.
PowerFails ==
  /\ outages < MaxOutages
  /\ outages' = outages + 1
  /\ \E lost \in SUBSET {c \in Content : objects[c].entry = "volatile"} :
       objects' = [c \in Content |->
         IF c \in lost \/ objects[c].entry = "absent" THEN NoObject
         ELSE [entry |-> "durable", data |-> IF objects[c].data = "cached" THEN "torn" ELSE objects[c].data]]
  /\ call' = [u \in Upload |-> Idle]
  /\ UNCHANGED <<stored, deaths, faults>>

Step(u) ==
  \/ Put(u) \/ Link(u) \/ SyncDirectory(u) \/ ReadBack(u)
  \/ ReadClock(u) \/ Claim(u) \/ Publish(u) \/ Abort(u) \/ VerifyReplay(u)

Next ==
  \/ \E u \in Upload :
       \/ \E k \in Key, c \in Content : Submit(u, k, c)
       \/ Step(u)
       \/ ClaimFails(u) \/ PublishFails(u) \/ StoreFails(u) \/ Die(u)
  \/ Tick
  \/ PowerFails

Spec == Init /\ [][Next]_vars
=============================================================================
