----------------------- MODULE WorkbookAssetProperties -----------------------
(***************************************************************************)
(* What the upload of workbooks must get right.                            *)
(***************************************************************************)
EXTENDS WorkbookAsset

\* The rows as the tables constrain them (the CHECKs of upload_commands) and
\* the states of a request.
TypeOK ==
  /\ \A k \in Key :
       /\ commands[k].state \in {"absent", "pending", "completed"}
       /\ commands[k].state = "pending" <=> commands[k].token # 0
       /\ commands[k].state = "completed" <=> commands[k].receipt # None
       /\ commands[k].left \in - MaxWait .. TTL /\ commands[k].fence \in 0 .. MaxFence
  /\ \A c \in Content : objects[c].entry \in {"absent", "volatile", "durable"}
  /\ \A u \in Upload :
       call[u].pc \in {"idle", "put", "link", "sync", "reread", "clock", "claim",
                       "publish", "abort", "verify"}

-----------------------------------------------------------------------------

\* Whatever dies or loses its power, and whichever request of the same bytes
\* wrote them, the bytes of a published snapshot are there to be downloaded
\* (put_if_absent before the claim; _fsync_directory also for a file found).
PublishedStaysReadable ==
  \A k \in Key : catalog[k] # None => Download(k, catalog[k]) = "ok"

\* A request that was told its workbook is stored was told the receipt of the
\* key, and every other request of the key is told the same one.
AnswersAgree ==
  \A u \in Upload : call[u].answer # None /\ call[u].answer.code = "stored" =>
    /\ commands[call[u].key].state = "completed"
    /\ call[u].answer.receipt = commands[call[u].key].receipt

\* The tables of the catalog never disagree: a workbook with its snapshot and
\* its head is there exactly when the command that made it is complete.
CatalogFollowsCommands ==
  \A k \in Key :
    catalog[k] = IF commands[k].state = "completed" THEN commands[k].receipt ELSE None

\* What a client is told is stored stays stored: one receipt for all who ask
\* under its key, one row of the catalog, and bytes that survive every death
\* of a request and every loss of power.
StoredIsStored ==
  TypeOK /\ PublishedStaysReadable /\ AnswersAgree /\ CatalogFollowsCommands

\* A running lease is ended by its holder and by nobody else: whoever was
\* taken over neither completes nor withdraws the claim of its successor.
LeaseIsRespected ==
  [][\A k \in Key :
       commands[k].state = "pending" /\ commands[k].left > 0
         /\ commands'[k].token # commands[k].token
       => \E u \in Upload : call[u].token = commands[k].token /\ call'[u] # call[u]]_vars

-----------------------------------------------------------------------------

\* A client asks again, with the bytes the key was claimed with.
Retry(k) ==
  /\ commands[k].state = "pending"
  /\ \E u \in Upload : Submit(u, k, commands[k].content)

Fairness ==
  /\ \A u \in Upload : WF_vars(Step(u))
  /\ \A k \in Key : SF_vars(Retry(k))
  /\ SF_vars(Tick)

\* A claim whose holder died does not block its key for ever: a client that
\* keeps asking gets its workbook stored, or the key free again, unless the
\* claim is lost to its own lease as often as the bound on fences allows.
ClaimsEnd ==
  \A k \in Key : commands[k].state = "pending" ~>
    commands[k].state # "pending" \/ commands[k].fence = MaxFence
=============================================================================
