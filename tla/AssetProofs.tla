------------------------------ MODULE AssetProofs ------------------------------
(***************************************************************************)
(* Machine-checked proofs about the upload of workbooks, for every set of  *)
(* requests, keys and contents, and any number of deaths, outages and      *)
(* faults; and, in a second part, about the gates of the web adapters the  *)
(* requests pass.                                                          *)
(*                                                                         *)
(* The argument.  No request reads its bytes back, claims or publishes     *)
(* before the entry of its object is durable (Secured), so that what the   *)
(* catalog names is durable too (Kept).  A completed command never         *)
(* changes, and the catalog shows exactly the completed commands: whoever  *)
(* was answered, or is about to be answered again, is answered with their  *)
(* receipt.                                                                *)
(***************************************************************************)
EXTENDS WorkbookAssetProperties, ExecutorGate, FiniteSetTheorems,
        SequenceTheorems, TLAPS

Receipt == [key : Key, content : Content, created : Nat]

Object == [entry : {"absent", "volatile", "durable"}, data : {"synced"}]

Row == [state : {"absent", "pending", "completed"}, content : Content \cup {None},
        token : Nat, fence : 0 .. MaxFence, left : - MaxWait .. TTL,
        receipt : Receipt \cup {None}]

\* The answers: the workbook is stored, or the reason why it is not.
Refused == {"ASSET_STORE_UNAVAILABLE", "ASSET_INTEGRITY_MISMATCH", "INVALID_WORKBOOK",
            "IDEMPOTENCY_CONFLICT", "COMMAND_IN_PROGRESS", "SERVICE_UNAVAILABLE",
            "STALE_UPLOAD_CLAIM"}

AnswerState == [code : {"stored"} \cup Refused, replayed : BOOLEAN,
                receipt : Receipt \cup {None}]

CallState ==
  [pc : {"idle", "put", "link", "sync", "reread", "clock", "claim", "publish", "abort",
         "verify"},
   key : Key \cup {None}, content : Content \cup {None}, token : Nat, fence : Nat,
   late : 0 .. MaxWait,
   answer : AnswerState \cup {None}]

Types ==
  /\ objects \in [Content -> Object]
  /\ commands \in [Key -> Row]
  /\ catalog \in [Key -> Receipt \cup {None}]
  /\ call \in [Upload -> CallState]

\* The rows as the tables constrain them.
RowOK(row) ==
  /\ row.state = "absent" => row.fence = 0
  /\ row.state = "pending" <=> row.token # 0
  /\ row.state = "completed" <=> row.receipt # None

Rows == \A k \in Key : RowOK(commands[k])

\* What a request knows, by the point it has reached.
CallOK(r) ==
  /\ r.pc # "idle" => r.key \in Key /\ r.content \in Content /\ r.answer = None
  /\ r.answer # None => r.key \in Key
  /\ r.pc = "claim" => r.token # 0

CallsOK == \A u \in Upload : CallOK(call[u])

\* Who has linked or found its object has an entry, and who has synced the
\* directory has one that no loss of power undoes.
SecuredOK(u) ==
  /\ call[u].pc = "sync" => objects[call[u].content].entry # "absent"
  /\ call[u].pc \in {"reread", "clock", "claim", "publish"} =>
       objects[call[u].content].entry = "durable"

Secured == \A u \in Upload : SecuredOK(u)

\* What the catalog names is in the store for good.
KeptOK(k) == catalog[k] # None => objects[catalog[k].content].entry = "durable"

Kept == \A k \in Key : KeptOK(k)

\* A replay is of a completed command, and what was answered is its receipt.
AnsweredOK(u) ==
  /\ call[u].pc = "verify" => commands[call[u].key].state = "completed"
  /\ call[u].answer # None /\ call[u].answer.code = "stored" =>
       /\ commands[call[u].key].state = "completed"
       /\ call[u].answer.receipt = commands[call[u].key].receipt

Answered == \A u \in Upload : AnsweredOK(u)

\* The catalog shows the completed commands.
ShownOK(k) ==
  catalog[k] = IF commands[k].state = "completed" THEN commands[k].receipt ELSE None

Shown == \A k \in Key : ShownOK(k)

\* The invariant.
Inv == Types /\ Rows /\ CallsOK /\ Secured /\ Kept /\ Answered /\ Shown

-----------------------------------------------------------------------------
(* Tokens.                                                                  *)

\* What a function takes a finite set to is no larger.
LEMMA Image ==
  ASSUME NEW S, IsFiniteSet(S), NEW f, f = [s \in S |-> f[s]]
  PROVE  /\ IsFiniteSet({f[s] : s \in S})
         /\ Cardinality({f[s] : s \in S}) \in Nat
         /\ Cardinality({f[s] : s \in S}) <= Cardinality(S)
<1> DEFINE T == {f[s] : s \in S}
<1>1. f \in Surjection(S, T)
  BY DEF Surjection
<1> HIDE DEF T
<1>2. IsFiniteSet(T) /\ Cardinality(T) <= Cardinality(S)
  BY <1>1, FS_Surjection
<1>3. Cardinality(T) \in Nat
  BY <1>2, FS_CardinalityType
<1> QED
  BY <1>2, <1>3 DEF T

\* Two finite sets together have no more elements than both.
LEMMA Together ==
  ASSUME NEW S, NEW T, IsFiniteSet(S), IsFiniteSet(T)
  PROVE  /\ IsFiniteSet(S \cup T) /\ Cardinality(S \cup T) \in Nat
         /\ Cardinality(S \cup T) <= Cardinality(S) + Cardinality(T)
<1>1. /\ IsFiniteSet(S \cup T)
      /\ Cardinality(S \cup T) = Cardinality(S) + Cardinality(T) - Cardinality(S \cap T)
  BY FS_Union
<1>2. IsFiniteSet(S \cap T)
  BY FS_Intersection
<1>3. /\ Cardinality(S) \in Nat /\ Cardinality(T) \in Nat
      /\ Cardinality(S \cap T) \in Nat /\ Cardinality(S \cup T) \in Nat
  BY <1>1, <1>2, FS_CardinalityType
<1> QED
  BY <1>1, <1>3

\* A set of natural numbers has a least element.
LEMMA Least ==
  ASSUME NEW S \in SUBSET Nat, S # {}
  PROVE  Min(S) \in S
<1> DEFINE Below == {p \in Nat \X Nat : p[1] < p[2]}
<1>1. IsWellFoundedOn(Below, Nat)
  BY NatLessThanWellFounded DEF OpToRel
<1>2. \A x, y \in Nat : y < x => <<y, x>> \in Below
  OBVIOUS
<1> HIDE DEF Below
<1>3. PICK x \in S : \A y \in S : <<y, x>> \notin Below
  BY <1>1, WFMin
<1>4. \A y \in S : x <= y
  <2> SUFFICES ASSUME NEW y \in S PROVE x <= y
    OBVIOUS
  <2>1. x \in Nat /\ y \in Nat /\ ~ (y < x)
    BY <1>2, <1>3
  <2> QED
    BY <2>1
<1>5. \E z \in S : \A y \in S : z <= y
  BY <1>4
<1> QED
  BY <1>5 DEF Min

\* There is a token that nobody holds and no row names.
LEMMA FreshTokenFound == FreshToken \in Nat /\ FreshToken # 0
<1> DEFINE N == Cardinality(Upload) + 2 * Cardinality(Key) + 1
           held == [u \in Upload |-> call[u].token]
           rows == [k \in Key |-> commands[k].token]
           named == [k \in Key |-> catalog[k].created]
           A == {held[u] : u \in Upload}
           B == {rows[k] : k \in Key}
           C == {named[k] : k \in Key}
<1>1. Cardinality(Upload) \in Nat /\ Cardinality(Key) \in Nat
  BY AssetAssumption, FS_CardinalityType
<1>2. /\ IsFiniteSet(A) /\ Cardinality(A) \in Nat
      /\ Cardinality(A) <= Cardinality(Upload)
  BY AssetAssumption, Image
<1>3. /\ IsFiniteSet(B) /\ Cardinality(B) \in Nat
      /\ Cardinality(B) <= Cardinality(Key)
  BY AssetAssumption, Image
<1>4. /\ IsFiniteSet(C) /\ Cardinality(C) \in Nat
      /\ Cardinality(C) <= Cardinality(Key)
  BY AssetAssumption, Image
<1>5. UsedTokens \subseteq (A \cup B) \cup C
  BY DEF UsedTokens
<1> HIDE DEF A, B, C
<1>6. /\ IsFiniteSet(A \cup B) /\ Cardinality(A \cup B) \in Nat
      /\ Cardinality(A \cup B) <= Cardinality(A) + Cardinality(B)
  BY <1>2, <1>3, Together
<1>7. /\ IsFiniteSet((A \cup B) \cup C) /\ Cardinality((A \cup B) \cup C) \in Nat
      /\ Cardinality((A \cup B) \cup C) <= Cardinality(A \cup B) + Cardinality(C)
  BY <1>4, <1>6, Together
<1>8. N \in Nat /\ Cardinality((A \cup B) \cup C) < N
  BY <1>1, <1>2, <1>3, <1>4, <1>6, <1>7
<1>9. IsFiniteSet(1 .. N) /\ Cardinality(1 .. N) = N
  BY <1>1, <1>8, FS_Interval
<1> HIDE DEF N
<1>10. ~ (1 .. N \subseteq (A \cup B) \cup C)
  <2> SUFFICES ASSUME 1 .. N \subseteq (A \cup B) \cup C PROVE FALSE
    OBVIOUS
  <2>1. Cardinality(1 .. N) <= Cardinality((A \cup B) \cup C)
    BY <1>7, FS_Subset
  <2> QED
    BY <1>7, <1>8, <1>9, <2>1
<1>11. /\ (1 .. N) \ UsedTokens # {}
       /\ (1 .. N) \ UsedTokens \in SUBSET Nat
       /\ 0 \notin (1 .. N) \ UsedTokens
  BY <1>5, <1>8, <1>10
<1>12. Min((1 .. N) \ UsedTokens) \in (1 .. N) \ UsedTokens
  BY <1>11, Least
<1> QED
  BY <1>8, <1>11, <1>12 DEF FreshToken, N

-----------------------------------------------------------------------------
(* Kinds of steps.                                                          *)

\* What the invariant says of a request.
LEMMA CallFacts ==
  ASSUME Inv, NEW u \in Upload
  PROVE  /\ call[u] \in CallState /\ CallOK(call[u]) /\ SecuredOK(u) /\ AnsweredOK(u)
         /\ call \in [Upload -> CallState]
         /\ objects \in [Content -> Object] /\ commands \in [Key -> Row]
         /\ catalog \in [Key -> Receipt \cup {None}]
BY DEF Inv, Types, CallsOK, Secured, Answered

\* What the invariant says of a key.
LEMMA KeyFacts ==
  ASSUME Inv, NEW k \in Key
  PROVE  /\ commands[k] \in Row /\ RowOK(commands[k]) /\ KeptOK(k) /\ ShownOK(k)
         /\ catalog[k] \in Receipt \cup {None}
BY DEF Inv, Types, Rows, Kept, Shown

\* A step of request u, which goes on as x: what it must respect for the others.
LEMMA StepKeeps ==
  ASSUME Inv, NEW u \in Upload, NEW x \in CallState, call' = [call EXCEPT ![u] = x],
         CallOK(x), SecuredOK(u)', AnsweredOK(u)',
         objects' \in [Content -> Object],
         \A c \in Content :
           /\ objects[c].entry # "absent" => objects'[c].entry # "absent"
           /\ objects[c].entry = "durable" => objects'[c].entry = "durable",
         commands' \in [Key -> Row], catalog' \in [Key -> Receipt \cup {None}],
         \A k \in Key :
           /\ RowOK(commands'[k]) /\ KeptOK(k)' /\ ShownOK(k)'
           /\ commands[k].state = "completed" => commands'[k] = commands[k]
  PROVE  Inv'
<1>1. /\ call'[u] = x
      /\ \A v \in Upload \ {u} : call'[v] = call[v]
      /\ call' \in [Upload -> CallState]
  BY CallFacts
<1>2. Types' /\ Rows' /\ Kept' /\ Shown'
  BY <1>1 DEF Types, Rows, Kept, Shown
<1>3. CallsOK'
  BY <1>1, CallFacts DEF CallsOK
<1>4. Secured'
  <2> SUFFICES ASSUME NEW v \in Upload, v # u PROVE SecuredOK(v)'
    BY DEF Secured
  <2>1. call'[v] = call[v] /\ SecuredOK(v) /\ CallOK(call[v])
    BY <1>1, CallFacts
  <2>2. call[v].pc # "idle" => call[v].content \in Content
    BY <2>1 DEF CallOK
  <2> QED
    BY <2>1, <2>2 DEF SecuredOK
<1>5. Answered'
  <2> SUFFICES ASSUME NEW v \in Upload, v # u PROVE AnsweredOK(v)'
    BY DEF Answered
  <2>1. call'[v] = call[v] /\ AnsweredOK(v) /\ CallOK(call[v])
    BY <1>1, CallFacts
  <2>2. call[v].pc = "verify" \/ call[v].answer # None => call[v].key \in Key
    BY <2>1 DEF CallOK
  <2> QED
    BY <2>1, <2>2 DEF AnsweredOK
<1> QED
  BY <1>2, <1>3, <1>4, <1>5 DEF Inv

\* A step of a request that leaves the store and the catalog as they are.
LEMMA QuietKeeps ==
  ASSUME Inv, NEW u \in Upload, NEW x \in CallState, call' = [call EXCEPT ![u] = x],
         CallOK(x), SecuredOK(u)', AnsweredOK(u)', UNCHANGED <<objects, stored>>
  PROVE  Inv'
<1>1. UNCHANGED <<objects, commands, catalog>>
  BY DEF stored
<1>2. \A k \in Key : RowOK(commands'[k]) /\ KeptOK(k)' /\ ShownOK(k)'
  BY <1>1, KeyFacts DEF KeptOK, ShownOK
<1> QED
  BY <1>1, <1>2, CallFacts, StepKeeps

\* The record of a request that has been answered.
LEMMA AnswerRecord ==
  ASSUME Inv, NEW u \in Upload, call[u].pc # "idle",
         NEW a \in AnswerState,
         Answer(u, a)
  PROVE  \E x \in CallState :
           /\ call' = [call EXCEPT ![u] = x] /\ call'[u] = x /\ CallOK(x)
           /\ x.pc = "idle" /\ x.key = call[u].key /\ x.answer = a
<1> DEFINE x == [Idle EXCEPT !.key = call[u].key, !.answer = a]
<1>1. call[u].key \in Key
  BY CallFacts DEF CallOK
<1>2. Idle \in CallState /\ Idle.pc = "idle"
  BY AssetAssumption DEF Idle, CallState
<1>3. /\ x \in CallState /\ x.pc = "idle" /\ x.key = call[u].key /\ x.answer = a
  BY <1>1, <1>2 DEF CallState
<1>4. call' = [call EXCEPT ![u] = x] /\ call'[u] = x
  BY CallFacts DEF Answer
<1> HIDE DEF x
<1>5. CallOK(x)
  BY <1>1, <1>3 DEF CallOK
<1> QED
  BY <1>3, <1>4, <1>5

\* A refusal is no promise that a workbook is stored.
LEMMA RefusalType ==
  ASSUME NEW code \in Refused
  PROVE  /\ Refusal(code) \in AnswerState /\ Refusal(code).code = code
         /\ code # "stored"
BY DEF Refusal, AnswerState, Refused

\* A refusal says nothing that could turn out wrong.
LEMMA RefusalRecord ==
  ASSUME Inv, NEW u \in Upload, call[u].pc # "idle",
         NEW code \in Refused, Answer(u, Refusal(code))
  PROVE  \E x \in CallState :
           /\ call' = [call EXCEPT ![u] = x] /\ CallOK(x)
           /\ SecuredOK(u)' /\ AnsweredOK(u)'
<1> DEFINE a == Refusal(code)
<1>1. a \in AnswerState /\ a.code = code /\ code # "stored"
  BY RefusalType
<1> HIDE DEF a
<1>2. Answer(u, a)
  BY DEF a
<1>3. PICK x \in CallState :
        /\ call' = [call EXCEPT ![u] = x] /\ call'[u] = x /\ CallOK(x)
        /\ x.pc = "idle" /\ x.key = call[u].key /\ x.answer = a
  BY <1>1, <1>2, AnswerRecord
<1>4. SecuredOK(u)' /\ AnsweredOK(u)'
  BY <1>1, <1>3 DEF SecuredOK, AnsweredOK
<1> QED
  BY <1>3, <1>4

\* A refusal that leaves the store and the catalog as they are.
LEMMA RefusalKeeps ==
  ASSUME Inv, NEW u \in Upload, call[u].pc # "idle",
         NEW code \in Refused, Answer(u, Refusal(code)),
         UNCHANGED <<objects, stored>>
  PROVE  Inv'
BY RefusalRecord, QuietKeeps

\* A row that is written while its command is not complete.
LEMMA RowWritten ==
  ASSUME Inv, NEW k \in Key, NEW row \in Row, RowOK(row),
         commands[k].state # "completed", row.state # "completed",
         commands' = [commands EXCEPT ![k] = row], UNCHANGED <<objects, catalog>>
  PROVE  /\ commands' \in [Key -> Row]
         /\ \A j \in Key :
              /\ RowOK(commands'[j]) /\ KeptOK(j)' /\ ShownOK(j)'
              /\ commands[j].state = "completed" => commands'[j] = commands[j]
<1>1. /\ commands \in [Key -> Row] /\ commands' \in [Key -> Row] /\ commands'[k] = row
      /\ \A j \in Key \ {k} : commands'[j] = commands[j]
  BY DEF Inv, Types
<1>2. ASSUME NEW j \in Key
      PROVE  /\ RowOK(commands'[j]) /\ KeptOK(j)' /\ ShownOK(j)'
             /\ commands[j].state = "completed" => commands'[j] = commands[j]
  <2>1. RowOK(commands'[j])
    BY <1>1, KeyFacts
  <2>2. KeptOK(j)'
    BY KeyFacts DEF KeptOK
  <2>3. ShownOK(j)'
    BY <1>1, KeyFacts DEF ShownOK
  <2> QED
    BY <1>1, <2>1, <2>2, <2>3
<1> QED
  BY <1>1, <1>2

-----------------------------------------------------------------------------
(* One lemma per action: the store.                                         *)

LEMMA ReadDigestType ==
  ASSUME Inv, NEW c \in Content
  PROVE  /\ ReadDigest(c) # "ok" => ReadDigest(c) \in Refused
         /\ ReadDigest(c) = "ok" <=> objects[c].entry # "absent"
<1>1. objects[c] \in Object
  BY DEF Inv, Types
<1> QED
  BY <1>1 DEF Object, ReadDigest, Refused

\* A request goes on to another point, the store growing or not.
LEMMA GoRecord ==
  ASSUME Inv, NEW u \in Upload, call[u].pc # "idle",
         NEW pc \in {"link", "sync", "reread", "clock", "abort", "verify"}, Go(u, pc)
  PROVE  \E x \in CallState :
           /\ call' = [call EXCEPT ![u] = x] /\ call'[u] = x /\ CallOK(x)
           /\ x.pc = pc /\ x.key = call[u].key /\ x.content = call[u].content
           /\ x.answer = None
<1> DEFINE x == [call[u] EXCEPT !.pc = pc]
<1>1. /\ x \in CallState /\ x.pc = pc /\ x.key = call[u].key /\ x.content = call[u].content
      /\ x.answer = call[u].answer /\ x.token = call[u].token
  BY CallFacts DEF CallState
<1>2. call' = [call EXCEPT ![u] = x] /\ call'[u] = x
  BY CallFacts DEF Go
<1> HIDE DEF x
<1>3. CallOK(x) /\ x.answer = None
  BY <1>1, CallFacts DEF CallOK
<1> QED
  BY <1>1, <1>2, <1>3

LEMMA CheckExistingKeeps ==
  ASSUME Inv, NEW u \in Upload, call[u].pc # "idle", CheckExisting(u), UNCHANGED stored
  PROVE  Inv'
<1>1. call[u].content \in Content
  BY CallFacts DEF CallOK
<1>2. PICK c \in Content : c = call[u].content
  BY <1>1
<1>3. CASE ReadDigest(c) = "ok"
  <2>1. Go(u, "sync") /\ UNCHANGED objects
    BY <1>2, <1>3 DEF CheckExisting, AfterExisting
  <2>2. PICK x \in CallState :
          /\ call' = [call EXCEPT ![u] = x] /\ call'[u] = x /\ CallOK(x)
          /\ x.pc = "sync" /\ x.key = call[u].key /\ x.content = call[u].content
          /\ x.answer = None
    BY <2>1, GoRecord
  <2>3. objects[c].entry # "absent"
    BY <1>3, ReadDigestType
  <2>4. SecuredOK(u)' /\ AnsweredOK(u)'
    BY <1>2, <2>1, <2>2, <2>3 DEF SecuredOK, AnsweredOK
  <2> QED
    BY <2>1, <2>2, <2>4, QuietKeeps
<1>4. CASE ReadDigest(c) # "ok"
  <2>1. Answer(u, Refusal(ReadDigest(c))) /\ UNCHANGED objects
    BY <1>2, <1>4 DEF CheckExisting
  <2>2. PICK code \in Refused : code = ReadDigest(c)
    BY <1>4, ReadDigestType
  <2> QED
    BY <2>1, <2>2, RefusalKeeps
<1> QED
  BY <1>3, <1>4

LEMMA PutKeeps ==
  ASSUME Inv, NEW u \in Upload, Put(u)
  PROVE  Inv'
<1>1. call[u].pc = "put" /\ call[u].pc # "idle" /\ UNCHANGED stored
  BY DEF Put
<1>2. CASE objects[call[u].content].entry # "absent"
  BY <1>1, <1>2, CheckExistingKeeps DEF Put
<1>3. CASE objects[call[u].content].entry = "absent"
  <2>1. Go(u, "link") /\ UNCHANGED objects
    BY <1>3 DEF Put
  <2>2. PICK x \in CallState :
          /\ call' = [call EXCEPT ![u] = x] /\ call'[u] = x /\ CallOK(x)
          /\ x.pc = "link" /\ x.key = call[u].key /\ x.content = call[u].content
          /\ x.answer = None
    BY <1>1, <2>1, GoRecord
  <2>3. SecuredOK(u)' /\ AnsweredOK(u)'
    BY <2>2 DEF SecuredOK, AnsweredOK
  <2> QED
    BY <1>1, <2>1, <2>2, <2>3, QuietKeeps
<1> QED
  BY <1>2, <1>3

\* The store grows under a request that goes on to another point.
LEMMA StoreGrows ==
  ASSUME Inv, NEW u \in Upload, NEW x \in CallState, call' = [call EXCEPT ![u] = x],
         CallOK(x), SecuredOK(u)', AnsweredOK(u)', UNCHANGED stored,
         objects' \in [Content -> Object],
         \A c \in Content :
           /\ objects[c].entry # "absent" => objects'[c].entry # "absent"
           /\ objects[c].entry = "durable" => objects'[c].entry = "durable"
  PROVE  Inv'
<1>1. UNCHANGED <<commands, catalog>>
  BY DEF stored
<1>2. ASSUME NEW k \in Key PROVE RowOK(commands'[k]) /\ KeptOK(k)' /\ ShownOK(k)'
  <2>1. RowOK(commands'[k]) /\ ShownOK(k)'
    BY <1>1, KeyFacts DEF ShownOK
  <2>2. KeptOK(k)'
    BY <1>1, KeyFacts DEF KeptOK, Receipt
  <2> QED
    BY <2>1, <2>2
<1> QED
  BY <1>1, <1>2, CallFacts, StepKeeps

LEMMA LinkKeeps ==
  ASSUME Inv, NEW u \in Upload, Link(u)
  PROVE  Inv'
<1>1. call[u].pc = "link" /\ call[u].pc # "idle" /\ UNCHANGED stored
  BY DEF Link
<1>2. PICK c \in Content : c = call[u].content
  BY <1>1, CallFacts DEF CallOK
<1>3. CASE objects[c].entry # "absent"
  BY <1>1, <1>2, <1>3, CheckExistingKeeps DEF Link
<1>4. CASE objects[c].entry = "absent"
  <2>1. /\ Go(u, "sync")
        /\ objects' = [objects EXCEPT ![c] = [entry |-> "volatile", data |-> "synced"]]
    BY <1>2, <1>4 DEF Link, FileSync
  <2>2. PICK x \in CallState :
          /\ call' = [call EXCEPT ![u] = x] /\ call'[u] = x /\ CallOK(x)
          /\ x.pc = "sync" /\ x.key = call[u].key /\ x.content = call[u].content
          /\ x.answer = None
    BY <1>1, <2>1, GoRecord
  <2>3. /\ objects' \in [Content -> Object]
        /\ objects'[c].entry = "volatile"
        /\ \A d \in Content \ {c} : objects'[d] = objects[d]
    BY <2>1, CallFacts DEF Object
  <2>4. SecuredOK(u)' /\ AnsweredOK(u)'
    BY <1>2, <2>2, <2>3 DEF SecuredOK, AnsweredOK
  <2>5. \A d \in Content :
          /\ objects[d].entry # "absent" => objects'[d].entry # "absent"
          /\ objects[d].entry = "durable" => objects'[d].entry = "durable"
    BY <1>4, <2>3
  <2> QED
    BY <1>1, <2>2, <2>3, <2>4, <2>5, StoreGrows
<1> QED
  BY <1>3, <1>4

LEMMA SyncDirectoryKeeps ==
  ASSUME Inv, NEW u \in Upload, SyncDirectory(u)
  PROVE  Inv'
<1>1. /\ call[u].pc = "sync" /\ call[u].pc # "idle" /\ UNCHANGED stored /\ Go(u, "reread")
      /\ objects' = [c \in Content |->
           IF objects[c].entry = "volatile" THEN [objects[c] EXCEPT !.entry = "durable"]
           ELSE objects[c]]
  BY DEF SyncDirectory
<1>2. PICK x \in CallState :
        /\ call' = [call EXCEPT ![u] = x] /\ call'[u] = x /\ CallOK(x)
        /\ x.pc = "reread" /\ x.key = call[u].key /\ x.content = call[u].content
        /\ x.answer = None
  BY <1>1, GoRecord
<1>3. ASSUME NEW c \in Content
      PROVE  /\ objects'[c] \in Object
             /\ objects'[c].entry =
                  IF objects[c].entry = "volatile" THEN "durable" ELSE objects[c].entry
  <2>1. objects[c] \in Object
    BY CallFacts
  <2> QED
    BY <1>1, <2>1 DEF Object
<1>4. objects' \in [Content -> Object]
  BY <1>1, <1>3
<1>5. \A c \in Content :
        /\ objects[c].entry # "absent" => objects'[c].entry # "absent"
        /\ objects[c].entry = "durable" => objects'[c].entry = "durable"
  BY <1>3
<1>6. SecuredOK(u)' /\ AnsweredOK(u)'
  <2>1. PICK c \in Content : c = call[u].content
    BY <1>1, CallFacts DEF CallOK
  <2>2. objects[c] \in Object /\ objects[c].entry # "absent"
    BY <1>1, <2>1, CallFacts DEF SecuredOK
  <2>3. objects'[c].entry = "durable"
    BY <1>3, <2>2 DEF Object
  <2> QED
    BY <1>2, <2>1, <2>3 DEF SecuredOK, AnsweredOK
<1> QED
  BY <1>1, <1>2, <1>4, <1>5, <1>6, StoreGrows

LEMMA ReadBackKeeps ==
  ASSUME Inv, NEW u \in Upload, ReadBack(u)
  PROVE  Inv'
<1>1. /\ call[u].pc = "reread" /\ call[u].pc # "idle" /\ UNCHANGED <<objects, stored>>
  BY DEF ReadBack
<1>2. PICK c \in Content : c = call[u].content
  BY <1>1, CallFacts DEF CallOK
<1>3. CASE ReadDigest(c) = "ok"
  <2>1. Go(u, "clock")
    BY <1>2, <1>3 DEF ReadBack
  <2>2. PICK x \in CallState :
          /\ call' = [call EXCEPT ![u] = x] /\ call'[u] = x /\ CallOK(x)
          /\ x.pc = "clock" /\ x.key = call[u].key /\ x.content = call[u].content
          /\ x.answer = None
    BY <1>1, <2>1, GoRecord
  <2>3. SecuredOK(u)' /\ AnsweredOK(u)'
    BY <1>1, <2>2, CallFacts DEF SecuredOK, AnsweredOK
  <2> QED
    BY <1>1, <2>2, <2>3, QuietKeeps
<1>4. CASE ReadDigest(c) # "ok"
  <2>1. Answer(u, Refusal(ReadDigest(c)))
    BY <1>2, <1>4 DEF ReadBack
  <2>2. PICK code \in Refused : code = ReadDigest(c)
    BY <1>4, ReadDigestType
  <2> QED
    BY <1>1, <2>1, <2>2, RefusalKeeps
<1> QED
  BY <1>3, <1>4

-----------------------------------------------------------------------------
(* One lemma per action: the claim and the publication.                     *)

LEMMA ReadClockKeeps ==
  ASSUME Inv, NEW u \in Upload, ReadClock(u)
  PROVE  Inv'
<1>1. /\ call[u].pc = "clock" /\ UNCHANGED <<objects, stored>>
      /\ call' = [call EXCEPT ![u].pc = "claim", ![u].token = FreshToken, ![u].late = 0]
  BY DEF ReadClock
<1> DEFINE x == [call[u] EXCEPT !.pc = "claim", !.token = FreshToken, !.late = 0]
<1>2. call' = [call EXCEPT ![u] = x] /\ call'[u] = x
  BY <1>1, CallFacts
<1>3. /\ x \in CallState /\ x.pc = "claim" /\ x.token # 0
      /\ x.key = call[u].key /\ x.content = call[u].content /\ x.answer = call[u].answer
  <2>1. PICK t \in Nat \ {0} : t = FreshToken
    BY FreshTokenFound
  <2>2. x = [call[u] EXCEPT !.pc = "claim", !.token = t, !.late = 0]
    BY <2>1
  <2>3. call[u] \in CallState /\ 0 \in 0 .. MaxWait
    BY CallFacts, AssetAssumption
  <2> HIDE DEF x
  <2> QED
    BY <2>2, <2>3 DEF CallState
<1> HIDE DEF x
<1>4. CallOK(x) /\ x.answer = None
  BY <1>1, <1>3, CallFacts DEF CallOK
<1>5. SecuredOK(u)' /\ AnsweredOK(u)'
  BY <1>1, <1>2, <1>3, <1>4, CallFacts DEF SecuredOK, AnsweredOK
<1> QED
  BY <1>1, <1>2, <1>3, <1>4, <1>5, QuietKeeps

\* The row of a claim.
LEMMA ClaimedRow ==
  ASSUME Inv, NEW u \in Upload, call[u].pc = "claim",
         NEW k \in Key, k = call[u].key, CanTake(u, commands[k])
  PROVE  /\ Claimed(u, commands[k]) \in Row /\ RowOK(Claimed(u, commands[k]))
         /\ Claimed(u, commands[k]).state = "pending"
         /\ commands[k].state # "completed"
<1>1. /\ call[u] \in CallState /\ CallOK(call[u])
      /\ commands[k] \in Row /\ RowOK(commands[k])
  BY CallFacts, KeyFacts
<1>2. /\ call[u].content \in Content /\ call[u].token \in Nat /\ call[u].token # 0
      /\ call[u].late \in 0 .. MaxWait
  BY <1>1 DEF CallState, CallOK
<1>3. commands[k].fence + 1 \in 0 .. MaxFence /\ commands[k].state # "completed"
  BY <1>1, AssetAssumption DEF CanTake, Row, RowOK
<1>4. TTL - call[u].late \in - MaxWait .. TTL
  BY <1>2, AssetAssumption
<1>5. Claimed(u, commands[k]) \in Row
  BY <1>2, <1>3, <1>4 DEF Claimed, Row
<1>6. RowOK(Claimed(u, commands[k]))
  BY <1>2 DEF Claimed, RowOK
<1> QED
  BY <1>3, <1>5, <1>6 DEF Claimed

LEMMA ClaimKeeps ==
  ASSUME Inv, NEW u \in Upload, Claim(u)
  PROVE  Inv'
<1>1. call[u].pc = "claim" /\ call[u].pc # "idle" /\ UNCHANGED <<objects, catalog>>
  BY DEF Claim
<1>2. PICK k \in Key : k = call[u].key
  BY <1>1, CallFacts DEF CallOK
<1>3. CASE CanTake(u, commands[k])
  <2>1. PICK row \in Row :
          /\ row = Claimed(u, commands[k]) /\ RowOK(row) /\ row.state = "pending"
          /\ commands[k].state # "completed"
    BY <1>1, <1>2, <1>3, ClaimedRow
  <2> DEFINE x == [call[u] EXCEPT !.pc = "publish", !.fence = row.fence]
  <2>2. /\ commands' = [commands EXCEPT ![k] = row]
        /\ call' = [call EXCEPT ![u].pc = "publish", ![u].fence = row.fence]
    BY <1>2, <1>3, <2>1 DEF Claim
  <2>3. call' = [call EXCEPT ![u] = x] /\ call'[u] = x
    BY <2>2, CallFacts
  <2>4. /\ x \in CallState /\ x.pc = "publish"
        /\ x.key = call[u].key /\ x.content = call[u].content /\ x.answer = call[u].answer
    <3>1. row.fence \in Nat
      BY <2>1 DEF Row
    <3> QED
      BY <3>1, CallFacts DEF CallState
  <2> HIDE DEF x
  <2>5. CallOK(x) /\ x.answer = None
    BY <1>1, <2>4, CallFacts DEF CallOK
  <2>6. SecuredOK(u)' /\ AnsweredOK(u)'
    BY <1>1, <2>3, <2>4, <2>5, CallFacts DEF SecuredOK, AnsweredOK
  <2>7. /\ commands' \in [Key -> Row]
        /\ \A j \in Key :
             /\ RowOK(commands'[j]) /\ KeptOK(j)' /\ ShownOK(j)'
             /\ commands[j].state = "completed" => commands'[j] = commands[j]
    BY <1>1, <2>1, <2>2, RowWritten
  <2> QED
    BY <1>1, <2>3, <2>4, <2>5, <2>6, <2>7, CallFacts, StepKeeps
<1>4. CASE ~ CanTake(u, commands[k])
  <2>1. UNCHANGED <<objects, stored>>
    BY <1>1, <1>2, <1>4 DEF Claim, stored
  <2>2. CASE ClaimAnswer(u, commands[k]) = "completed"
    <3>1. Go(u, "verify")
      BY <1>2, <1>4, <2>2 DEF Claim
    <3>2. PICK x \in CallState :
            /\ call' = [call EXCEPT ![u] = x] /\ call'[u] = x /\ CallOK(x)
            /\ x.pc = "verify" /\ x.key = call[u].key /\ x.content = call[u].content
            /\ x.answer = None
      BY <1>1, <3>1, GoRecord
    <3>3. commands[k].state = "completed"
      BY <2>2 DEF ClaimAnswer
    <3>4. SecuredOK(u)' /\ AnsweredOK(u)'
      BY <1>2, <2>1, <3>2, <3>3 DEF SecuredOK, AnsweredOK, stored
    <3> QED
      BY <2>1, <3>2, <3>4, QuietKeeps
  <2>3. CASE ClaimAnswer(u, commands[k]) # "completed"
    <3>1. Answer(u, Refusal(ClaimAnswer(u, commands[k])))
      BY <1>2, <1>4, <2>3 DEF Claim
    <3>2. PICK code \in Refused : code = ClaimAnswer(u, commands[k])
      BY <2>3 DEF ClaimAnswer, Refused
    <3> QED
      BY <1>1, <2>1, <3>1, <3>2, RefusalKeeps
  <2> QED
    BY <2>2, <2>3
<1> QED
  BY <1>3, <1>4

LEMMA ClaimFailsKeeps ==
  ASSUME Inv, NEW u \in Upload, ClaimFails(u)
  PROVE  Inv'
<1>1. /\ call[u].pc = "claim" /\ call[u].pc # "idle" /\ UNCHANGED <<objects, catalog>>
      /\ Answer(u, Refusal("SERVICE_UNAVAILABLE"))
  BY DEF ClaimFails
<1>2. PICK k \in Key : k = call[u].key
  BY <1>1, CallFacts DEF CallOK
<1>3. CASE UNCHANGED commands
  BY <1>1, <1>3, RefusalKeeps DEF stored, Refused
<1>4. CASE ~ UNCHANGED commands
  <2>1. /\ CanTake(u, commands[k])
        /\ commands' = [commands EXCEPT ![k] = Claimed(u, commands[k])]
    BY <1>2, <1>4 DEF ClaimFails
  <2>2. PICK row \in Row :
          /\ row = Claimed(u, commands[k]) /\ RowOK(row) /\ row.state = "pending"
          /\ commands[k].state # "completed"
    BY <1>1, <1>2, <2>1, ClaimedRow
  <2>3. PICK x \in CallState :
          /\ call' = [call EXCEPT ![u] = x] /\ CallOK(x)
          /\ SecuredOK(u)' /\ AnsweredOK(u)'
    BY <1>1, RefusalRecord DEF Refused
  <2>4. /\ commands' \in [Key -> Row]
        /\ \A j \in Key :
             /\ RowOK(commands'[j]) /\ KeptOK(j)' /\ ShownOK(j)'
             /\ commands[j].state = "completed" => commands'[j] = commands[j]
    BY <1>1, <2>1, <2>2, RowWritten
  <2> QED
    BY <1>1, <2>3, <2>4, CallFacts, StepKeeps
<1> QED
  BY <1>3, <1>4

\* The rows of a publication.
LEMMA Publishes ==
  ASSUME Inv, NEW u \in Upload, call[u].pc = "publish",
         CanPublish(u), Publication(u), UNCHANGED objects
  PROVE  /\ commands' \in [Key -> Row] /\ catalog' \in [Key -> Receipt \cup {None}]
         /\ \A k \in Key :
              /\ RowOK(commands'[k]) /\ KeptOK(k)' /\ ShownOK(k)'
              /\ commands[k].state = "completed" => commands'[k] = commands[k]
         /\ Snapshot(u) \in Receipt
         /\ commands'[call[u].key].state = "completed"
         /\ commands'[call[u].key].receipt = Snapshot(u)
<1>1. PICK k \in Key : k = call[u].key
  BY CallFacts DEF CallOK
<1>2. /\ call[u] \in CallState /\ call[u].content \in Content
      /\ objects[call[u].content].entry = "durable"
  BY CallFacts DEF CallOK, SecuredOK
<1>3. PICK s \in Receipt : s = Snapshot(u)
  BY <1>1, <1>2 DEF Snapshot, Receipt, CallState
<1>4. s # None /\ s.content = call[u].content
  BY <1>3, AssetAssumption DEF Snapshot, Receipt
<1>5. commands[k] \in Row /\ commands[k].state = "pending" /\ catalog[k] = None
  BY <1>1, KeyFacts DEF CanPublish, Holds
<1> DEFINE row == [commands[k] EXCEPT !.state = "completed", !.token = 0, !.left = 0,
                                      !.receipt = s]
<1>6. /\ commands' = [commands EXCEPT ![k] = row]
      /\ catalog' = [catalog EXCEPT ![k] = s]
  BY <1>1, <1>3 DEF Publication, Completed
<1>7. /\ row \in Row /\ row.state = "completed" /\ row.token = 0 /\ row.receipt = s
  <2>1. 0 \in - MaxWait .. TTL
    BY AssetAssumption
  <2> QED
    BY <1>5, <2>1 DEF Row
<1> HIDE DEF row
<1>8. /\ commands' \in [Key -> Row] /\ commands'[k] = row
      /\ \A j \in Key \ {k} : commands'[j] = commands[j]
      /\ catalog' \in [Key -> Receipt \cup {None}] /\ catalog'[k] = s
      /\ \A j \in Key \ {k} : catalog'[j] = catalog[j]
  BY <1>6, <1>7 DEF Inv, Types
<1>9. ASSUME NEW j \in Key
      PROVE  /\ RowOK(commands'[j]) /\ KeptOK(j)' /\ ShownOK(j)'
             /\ commands[j].state = "completed" => commands'[j] = commands[j]
  <2>1. CASE j = k
    BY <1>2, <1>4, <1>5, <1>7, <1>8, <2>1 DEF RowOK, KeptOK, ShownOK
  <2>2. CASE j # k
    <3>1. /\ commands'[j] = commands[j] /\ catalog'[j] = catalog[j]
          /\ RowOK(commands[j]) /\ KeptOK(j) /\ ShownOK(j)
      BY <1>8, <2>2, KeyFacts
    <3> QED
      BY <3>1 DEF KeptOK, ShownOK
  <2> QED
    BY <2>1, <2>2
<1> QED
  BY <1>1, <1>3, <1>7, <1>8, <1>9

LEMMA PublishKeeps ==
  ASSUME Inv, NEW u \in Upload, Publish(u)
  PROVE  Inv'
<1>1. call[u].pc = "publish" /\ call[u].pc # "idle" /\ UNCHANGED objects
  BY DEF Publish
<1>2. PICK k \in Key : k = call[u].key
  BY <1>1, CallFacts DEF CallOK
<1>3. CASE CanPublish(u)
  <2>1. /\ Publication(u)
        /\ Answer(u, [code |-> "stored", replayed |-> FALSE, receipt |-> Snapshot(u)])
    BY <1>3 DEF Publish
  <2>2. /\ commands' \in [Key -> Row] /\ catalog' \in [Key -> Receipt \cup {None}]
        /\ \A j \in Key :
             /\ RowOK(commands'[j]) /\ KeptOK(j)' /\ ShownOK(j)'
             /\ commands[j].state = "completed" => commands'[j] = commands[j]
        /\ Snapshot(u) \in Receipt
        /\ commands'[k].state = "completed" /\ commands'[k].receipt = Snapshot(u)
    BY <1>1, <1>2, <1>3, <2>1, Publishes
  <2>3. PICK a \in AnswerState :
          a = [code |-> "stored", replayed |-> FALSE, receipt |-> Snapshot(u)]
    BY <2>2 DEF AnswerState
  <2>4. PICK x \in CallState :
          /\ call' = [call EXCEPT ![u] = x] /\ call'[u] = x /\ CallOK(x)
          /\ x.pc = "idle" /\ x.key = call[u].key /\ x.answer = a
    BY <1>1, <2>1, <2>3, AnswerRecord
  <2>5. SecuredOK(u)' /\ AnsweredOK(u)'
    BY <1>2, <2>2, <2>3, <2>4 DEF SecuredOK, AnsweredOK
  <2> QED
    BY <1>1, <2>2, <2>4, <2>5, CallFacts, StepKeeps
<1>4. CASE ~ CanPublish(u)
  <2>1. UNCHANGED <<objects, stored>>
    BY <1>1, <1>4 DEF Publish
  <2>2. CASE Holds(u, commands[k])
    <3>1. Go(u, "abort")
      BY <1>2, <1>4, <2>2 DEF Publish
    <3>2. PICK x \in CallState :
            /\ call' = [call EXCEPT ![u] = x] /\ call'[u] = x /\ CallOK(x)
            /\ x.pc = "abort" /\ x.key = call[u].key /\ x.content = call[u].content
            /\ x.answer = None
      BY <1>1, <3>1, GoRecord
    <3>3. SecuredOK(u)' /\ AnsweredOK(u)'
      BY <3>2 DEF SecuredOK, AnsweredOK
    <3> QED
      BY <2>1, <3>2, <3>3, QuietKeeps
  <2>3. CASE ~ Holds(u, commands[k])
    <3>1. Answer(u, Refusal("STALE_UPLOAD_CLAIM"))
      BY <1>2, <1>4, <2>3 DEF Publish
    <3> QED
      BY <1>1, <2>1, <3>1, RefusalKeeps DEF Refused
  <2> QED
    BY <2>2, <2>3
<1> QED
  BY <1>3, <1>4

LEMMA PublishFailsKeeps ==
  ASSUME Inv, NEW u \in Upload, PublishFails(u)
  PROVE  Inv'
<1>1. /\ call[u].pc = "publish" /\ call[u].pc # "idle" /\ UNCHANGED objects
      /\ Go(u, "abort")
  BY DEF PublishFails
<1>2. PICK x \in CallState :
        /\ call' = [call EXCEPT ![u] = x] /\ call'[u] = x /\ CallOK(x)
        /\ x.pc = "abort" /\ x.key = call[u].key /\ x.content = call[u].content
        /\ x.answer = None
  BY <1>1, GoRecord
<1>3. SecuredOK(u)' /\ AnsweredOK(u)'
  BY <1>2 DEF SecuredOK, AnsweredOK
<1>4. CASE UNCHANGED stored
  BY <1>1, <1>2, <1>3, <1>4, QuietKeeps
<1>5. CASE ~ UNCHANGED stored
  <2>1. CanPublish(u) /\ Publication(u)
    BY <1>5 DEF PublishFails
  <2>2. /\ commands' \in [Key -> Row] /\ catalog' \in [Key -> Receipt \cup {None}]
        /\ \A j \in Key :
             /\ RowOK(commands'[j]) /\ KeptOK(j)' /\ ShownOK(j)'
             /\ commands[j].state = "completed" => commands'[j] = commands[j]
    BY <1>1, <2>1, Publishes
  <2> QED
    BY <1>1, <1>2, <1>3, <2>2, CallFacts, StepKeeps
<1> QED
  BY <1>4, <1>5

LEMMA AbortKeeps ==
  ASSUME Inv, NEW u \in Upload, Abort(u)
  PROVE  Inv'
<1>1. /\ call[u].pc = "abort" /\ call[u].pc # "idle" /\ UNCHANGED <<objects, catalog>>
      /\ Answer(u, Refusal("SERVICE_UNAVAILABLE"))
  BY DEF Abort
<1>2. PICK k \in Key : k = call[u].key
  BY <1>1, CallFacts DEF CallOK
<1>3. CASE Holds(u, commands[k])
  <2>1. commands' = [commands EXCEPT ![k] = NoCommand]
    BY <1>2, <1>3 DEF Abort
  <2>2. /\ NoCommand \in Row /\ RowOK(NoCommand) /\ NoCommand.state = "absent"
    <3>1. 0 \in - MaxWait .. TTL /\ 0 \in 0 .. MaxFence
      BY AssetAssumption
    <3> QED
      BY <3>1 DEF NoCommand, Row, RowOK
  <2>3. commands[k].state = "pending"
    BY <1>3 DEF Holds
  <2>4. PICK x \in CallState :
          /\ call' = [call EXCEPT ![u] = x] /\ CallOK(x)
          /\ SecuredOK(u)' /\ AnsweredOK(u)'
    BY <1>1, RefusalRecord DEF Refused
  <2>5. /\ commands' \in [Key -> Row]
        /\ \A j \in Key :
             /\ RowOK(commands'[j]) /\ KeptOK(j)' /\ ShownOK(j)'
             /\ commands[j].state = "completed" => commands'[j] = commands[j]
    BY <1>1, <2>1, <2>2, <2>3, RowWritten
  <2> QED
    BY <1>1, <2>4, <2>5, CallFacts, StepKeeps
<1>4. CASE ~ Holds(u, commands[k])
  <2>1. UNCHANGED <<objects, stored>>
    BY <1>1, <1>2, <1>4, CallFacts DEF Abort, stored
  <2> QED
    BY <1>1, <2>1, RefusalKeeps DEF Refused
<1> QED
  BY <1>3, <1>4

LEMMA VerifyReplayKeeps ==
  ASSUME Inv, NEW u \in Upload, VerifyReplay(u)
  PROVE  Inv'
<1>1. /\ call[u].pc = "verify" /\ call[u].pc # "idle" /\ UNCHANGED <<objects, stored>>
      /\ UNCHANGED <<objects, commands, catalog>>
  BY DEF VerifyReplay, stored
<1>2. PICK k \in Key : k = call[u].key
  BY <1>1, CallFacts DEF CallOK
<1>3. CASE Answer(u, Refusal("SERVICE_UNAVAILABLE"))
  BY <1>1, <1>3, RefusalKeeps DEF Refused
<1>4. CASE ~ Answer(u, Refusal("SERVICE_UNAVAILABLE"))
  <2>1. Answer(u, [code |-> "stored", replayed |-> TRUE, receipt |-> commands[k].receipt])
    BY <1>2, <1>4 DEF VerifyReplay, Replayed
  <2>2. PICK a \in AnswerState :
          a = [code |-> "stored", replayed |-> TRUE, receipt |-> commands[k].receipt]
    BY KeyFacts DEF Row, AnswerState
  <2>3. PICK x \in CallState :
          /\ call' = [call EXCEPT ![u] = x] /\ call'[u] = x /\ CallOK(x)
          /\ x.pc = "idle" /\ x.key = call[u].key /\ x.answer = a
    BY <1>1, <2>1, <2>2, AnswerRecord
  <2>4. commands[k].state = "completed"
    BY <1>1, <1>2, CallFacts DEF AnsweredOK
  <2>5. SecuredOK(u)' /\ AnsweredOK(u)'
    BY <1>1, <1>2, <2>2, <2>3, <2>4 DEF SecuredOK, AnsweredOK
  <2> QED
    BY <1>1, <2>3, <2>5, QuietKeeps
<1> QED
  BY <1>3, <1>4

-----------------------------------------------------------------------------
(* One lemma per action: requests, time and faults.                         *)

LEMMA IdleOK == Idle \in CallState /\ CallOK(Idle) /\ Idle.pc = "idle" /\ Idle.answer = None
BY AssetAssumption DEF Idle, CallState, CallOK

LEMMA SubmitKeeps ==
  ASSUME Inv, NEW u \in Upload, NEW k \in Key, NEW c \in Content, Submit(u, k, c)
  PROVE  Inv'
<1>1. UNCHANGED <<objects, stored>> /\ call[u].pc = "idle"
  BY DEF Submit
<1> DEFINE asked == [Idle EXCEPT !.key = k, !.content = c]
<1>2. asked \in CallState /\ asked.key = k /\ asked.content = c /\ asked.answer = None
  BY IdleOK DEF CallState
<1>3. CASE c \in Workbook
  <2> DEFINE x == [asked EXCEPT !.pc = "put"]
  <2>1. call' = [call EXCEPT ![u] = x] /\ call'[u] = x
    BY <1>3, CallFacts DEF Submit
  <2> HIDE DEF asked
  <2>2. /\ x \in CallState /\ x.pc = "put" /\ x.key = k /\ x.content = c /\ x.answer = None
    BY <1>2 DEF CallState
  <2> HIDE DEF x
  <2>3. CallOK(x) /\ SecuredOK(u)' /\ AnsweredOK(u)'
    BY <2>1, <2>2 DEF CallOK, SecuredOK, AnsweredOK
  <2> QED
    BY <1>1, <2>1, <2>2, <2>3, QuietKeeps
<1>4. CASE c \notin Workbook
  <2> DEFINE x == [asked EXCEPT !.content = None, !.answer = Refusal("INVALID_WORKBOOK")]
  <2>1. call' = [call EXCEPT ![u] = x] /\ call'[u] = x
    BY <1>4, CallFacts DEF Submit
  <2>2. asked.pc = "idle"
    BY IdleOK DEF CallState
  <2> HIDE DEF asked
  <2>3. PICK a \in AnswerState : a = Refusal("INVALID_WORKBOOK") /\ a.code = "INVALID_WORKBOOK"
    <3>1. "INVALID_WORKBOOK" \in Refused
      BY DEF Refused
    <3> QED
      BY <3>1, RefusalType
  <2>4. x = [asked EXCEPT !.content = None, !.answer = a]
    BY <2>3
  <2> HIDE DEF x
  <2>5. /\ x \in CallState /\ x.pc = "idle" /\ x.key = k /\ x.answer = a
    BY <1>2, <2>2, <2>4 DEF CallState
  <2>6. CallOK(x) /\ SecuredOK(u)' /\ AnsweredOK(u)'
    BY <2>1, <2>3, <2>5 DEF CallOK, SecuredOK, AnsweredOK
  <2> QED
    BY <1>1, <2>1, <2>5, <2>6, QuietKeeps
<1> QED
  BY <1>3, <1>4

LEMMA StoreFailsKeeps ==
  ASSUME Inv, NEW u \in Upload, StoreFails(u)
  PROVE  Inv'
<1>1. /\ call[u].pc # "idle" /\ UNCHANGED <<objects, stored>>
      /\ Answer(u, Refusal("SERVICE_UNAVAILABLE"))
  BY DEF StoreFails
<1> QED
  BY <1>1, RefusalKeeps DEF Refused

LEMMA DieKeeps ==
  ASSUME Inv, NEW u \in Upload, Die(u)
  PROVE  Inv'
<1>1. UNCHANGED <<objects, stored>> /\ call' = [call EXCEPT ![u] = Idle] /\ call'[u] = Idle
  BY CallFacts DEF Die
<1>2. SecuredOK(u)' /\ AnsweredOK(u)'
  BY <1>1, IdleOK DEF SecuredOK, AnsweredOK
<1> QED
  BY <1>1, <1>2, IdleOK, QuietKeeps

LEMMA TickKeeps ==
  ASSUME Inv, Tick
  PROVE  Inv'
<1>1. /\ \A u \in Upload : call[u].pc = "claim" => call[u].late < MaxWait
      /\ commands' = [k \in Key |->
           IF commands[k].state = "pending" /\ commands[k].left > - MaxWait
           THEN [commands[k] EXCEPT !.left = @ - 1] ELSE commands[k]]
      /\ call' = [u \in Upload |->
           IF call[u].pc = "claim" THEN [call[u] EXCEPT !.late = @ + 1] ELSE call[u]]
      /\ UNCHANGED <<objects, catalog>>
  BY DEF Tick
<1>2. ASSUME NEW k \in Key
      PROVE  /\ commands'[k] \in Row /\ RowOK(commands'[k])
             /\ commands'[k].state = commands[k].state
             /\ commands'[k].receipt = commands[k].receipt
  <2>1. commands[k] \in Row /\ RowOK(commands[k])
    BY KeyFacts
  <2>2. CASE commands[k].state = "pending" /\ commands[k].left > - MaxWait
    <3> DEFINE row == [commands[k] EXCEPT !.left = @ - 1]
    <3>1. commands'[k] = row
      BY <1>1, <2>2
    <3>2. commands[k].left - 1 \in - MaxWait .. TTL
      BY <2>1, <2>2, AssetAssumption DEF Row
    <3>3. /\ row \in Row /\ row.state = commands[k].state /\ row.token = commands[k].token
          /\ row.fence = commands[k].fence /\ row.receipt = commands[k].receipt
      BY <2>1, <3>2 DEF Row
    <3> HIDE DEF row
    <3> QED
      BY <2>1, <3>1, <3>3 DEF RowOK
  <2>3. CASE ~ (commands[k].state = "pending" /\ commands[k].left > - MaxWait)
    BY <1>1, <2>1, <2>3
  <2> QED
    BY <2>2, <2>3
<1>3. ASSUME NEW u \in Upload
      PROVE  /\ call'[u] \in CallState /\ CallOK(call'[u])
             /\ call'[u].pc = call[u].pc /\ call'[u].key = call[u].key
             /\ call'[u].content = call[u].content /\ call'[u].answer = call[u].answer
  <2>1. call[u] \in CallState /\ CallOK(call[u])
    BY CallFacts
  <2>2. CASE call[u].pc = "claim"
    <3> DEFINE x == [call[u] EXCEPT !.late = @ + 1]
    <3>1. call'[u] = x
      BY <1>1, <2>2
    <3>2. call[u].late + 1 \in 0 .. MaxWait
      BY <1>1, <2>1, <2>2, AssetAssumption DEF CallState
    <3>3. /\ x \in CallState /\ x.pc = call[u].pc /\ x.key = call[u].key
          /\ x.content = call[u].content /\ x.answer = call[u].answer
          /\ x.token = call[u].token
      BY <2>1, <3>2 DEF CallState
    <3> HIDE DEF x
    <3> QED
      BY <2>1, <3>1, <3>3 DEF CallOK
  <2>3. CASE call[u].pc # "claim"
    BY <1>1, <2>1, <2>3
  <2> QED
    BY <2>2, <2>3
<1>4. Types'
  <2>1. commands' \in [Key -> Row]
    BY <1>1, <1>2
  <2>2. call' \in [Upload -> CallState]
    BY <1>1, <1>3
  <2> QED
    BY <1>1, <2>1, <2>2 DEF Inv, Types
<1>5. Rows' /\ CallsOK'
  BY <1>2, <1>3 DEF Rows, CallsOK
<1>6. Secured'
  BY <1>1, <1>3, CallFacts DEF Secured, SecuredOK
<1>7. Kept'
  BY <1>1, KeyFacts DEF Kept, KeptOK
<1>8. Shown'
  BY <1>1, <1>2, KeyFacts DEF Shown, ShownOK
<1>9. Answered'
  <2> SUFFICES ASSUME NEW u \in Upload PROVE AnsweredOK(u)'
    BY DEF Answered
  <2>1. AnsweredOK(u) /\ CallOK(call[u])
    BY CallFacts
  <2>2. call[u].pc = "verify" \/ call[u].answer # None => call[u].key \in Key
    BY <2>1 DEF CallOK
  <2> QED
    BY <1>2, <1>3, <2>1, <2>2 DEF AnsweredOK
<1> QED
  BY <1>4, <1>5, <1>6, <1>7, <1>8, <1>9 DEF Inv

LEMMA PowerFailsKeeps ==
  ASSUME Inv, PowerFails
  PROVE  Inv'
<1>1. UNCHANGED <<commands, catalog>> /\ call' = [u \in Upload |-> Idle]
  BY DEF PowerFails, stored
<1>2. PICK lost \in SUBSET {c \in Content : objects[c].entry = "volatile"} :
        objects' = [c \in Content |->
          IF c \in lost \/ objects[c].entry = "absent" THEN NoObject
          ELSE [entry |-> "durable",
                data |-> IF objects[c].data = "cached" THEN "torn" ELSE objects[c].data]]
  BY DEF PowerFails
<1>3. ASSUME NEW c \in Content
      PROVE  /\ objects'[c] \in Object
             /\ objects[c].entry = "durable" => objects'[c].entry = "durable"
  <2>1. objects[c] \in Object
    BY CallFacts, <1>3 DEF Inv, Types
  <2>2. CASE c \in lost \/ objects[c].entry = "absent"
    <3>1. objects'[c] = NoObject /\ objects[c].entry # "durable"
      BY <1>2, <2>2
    <3> QED
      BY <3>1 DEF NoObject, Object
  <2>3. CASE ~ (c \in lost \/ objects[c].entry = "absent")
    <3>1. objects'[c] = [entry |-> "durable", data |-> "synced"]
      BY <1>2, <2>1, <2>3 DEF Object
    <3> QED
      BY <3>1 DEF Object
  <2> QED
    BY <2>2, <2>3
<1>4. \A u \in Upload : call'[u] = Idle
  BY <1>1
<1>5. Types'
  <2>1. objects' \in [Content -> Object]
    BY <1>2, <1>3
  <2> QED
    BY <1>1, <2>1, IdleOK DEF Inv, Types
<1>6. Rows' /\ CallsOK' /\ Shown'
  BY <1>1, <1>4, IdleOK DEF Inv, Rows, CallsOK, Shown, ShownOK
<1>7. Secured' /\ Answered'
  BY <1>4, IdleOK DEF Secured, SecuredOK, Answered, AnsweredOK
<1>8. Kept'
  <2> SUFFICES ASSUME NEW k \in Key PROVE KeptOK(k)'
    BY DEF Kept
  <2>1. KeptOK(k) /\ (catalog[k] # None => catalog[k].content \in Content)
    BY KeyFacts DEF Receipt
  <2> QED
    BY <1>1, <1>3, <2>1 DEF KeptOK
<1> QED
  BY <1>5, <1>6, <1>7, <1>8 DEF Inv

LEMMA StutterKeeps ==
  ASSUME Inv, UNCHANGED vars
  PROVE  Inv'
BY DEF vars, Inv, Types, Rows, CallsOK, Secured, SecuredOK, Kept, KeptOK, Answered,
       AnsweredOK, Shown, ShownOK

-----------------------------------------------------------------------------
(* The invariant, and what follows from it.                                 *)

LEMMA InitInv == Init => Inv
<1> SUFFICES ASSUME Init PROVE Inv
  OBVIOUS
<1>1. /\ objects = [c \in Content |-> NoObject] /\ commands = [k \in Key |-> NoCommand]
      /\ catalog = [k \in Key |-> None] /\ call = [u \in Upload |-> Idle]
  BY DEF Init
<1>2. NoCommand \in Row /\ RowOK(NoCommand) /\ NoCommand.state = "absent"
  <2>1. 0 \in - MaxWait .. TTL /\ 0 \in 0 .. MaxFence
    BY AssetAssumption
  <2> QED
    BY <2>1 DEF NoCommand, Row, RowOK
<1>3. NoObject \in Object
  BY DEF NoObject, Object
<1>4. Types
  BY <1>1, <1>2, <1>3, IdleOK DEF Types
<1>5. Rows /\ CallsOK /\ Kept /\ Shown
  BY <1>1, <1>2, IdleOK DEF Rows, CallsOK, Kept, KeptOK, Shown, ShownOK
<1>6. Secured /\ Answered
  BY <1>1, IdleOK DEF Secured, SecuredOK, Answered, AnsweredOK
<1> QED
  BY <1>4, <1>5, <1>6 DEF Inv

LEMMA InvStep == Inv /\ [Next]_vars => Inv'
<1> SUFFICES ASSUME Inv, [Next]_vars PROVE Inv'
  OBVIOUS
<1>1. ASSUME NEW u \in Upload, NEW k \in Key, NEW c \in Content, Submit(u, k, c)
      PROVE  Inv'
  BY <1>1, SubmitKeeps
<1>2. ASSUME NEW u \in Upload, Step(u) PROVE Inv'
  BY <1>2, PutKeeps, LinkKeeps, SyncDirectoryKeeps, ReadBackKeeps, ReadClockKeeps,
     ClaimKeeps, PublishKeeps, AbortKeeps, VerifyReplayKeeps DEF Step
<1>3. ASSUME NEW u \in Upload,
             ClaimFails(u) \/ PublishFails(u) \/ StoreFails(u) \/ Die(u)
      PROVE  Inv'
  BY <1>3, ClaimFailsKeeps, PublishFailsKeeps, StoreFailsKeeps, DieKeeps
<1>4. CASE Tick \/ PowerFails
  BY <1>4, TickKeeps, PowerFailsKeeps
<1>5. CASE UNCHANGED vars
  BY <1>5, StutterKeeps
<1> QED
  BY <1>1, <1>2, <1>3, <1>4, <1>5 DEF Next

\* Every reachable state of the upload satisfies the invariant.
THEOREM Invariance == Spec => []Inv
<1>1. Init => Inv
  BY InitInv
<1>2. Inv /\ [Next]_vars => Inv'
  BY InvStep
<1> QED
  BY <1>1, <1>2, PTL DEF Spec

\* What a client is told is stored stays stored: one receipt for all who ask
\* under its key, one row of the catalog, and bytes that survive every death of
\* a request and every loss of power.
THEOREM Stored == Spec => []StoredIsStored
<1>1. Inv => StoredIsStored
  <2> SUFFICES ASSUME Inv PROVE StoredIsStored
    OBVIOUS
  <2>1. TypeOK
    <3>1. ASSUME NEW k \in Key
          PROVE  /\ commands[k].state \in {"absent", "pending", "completed"}
                 /\ commands[k].state = "pending" <=> commands[k].token # 0
                 /\ commands[k].state = "completed" <=> commands[k].receipt # None
                 /\ commands[k].left \in - MaxWait .. TTL /\ commands[k].fence \in 0 .. MaxFence
      BY KeyFacts DEF Row, RowOK
    <3>2. \A c \in Content : objects[c].entry \in {"absent", "volatile", "durable"}
      BY DEF Inv, Types, Object
    <3>3. \A u \in Upload :
            call[u].pc \in {"idle", "put", "link", "sync", "reread", "clock", "claim",
                            "publish", "abort", "verify"}
      BY CallFacts DEF CallState
    <3> QED
      BY <3>1, <3>2, <3>3 DEF TypeOK
  <2>2. PublishedStaysReadable
    <3> SUFFICES ASSUME NEW k \in Key, catalog[k] # None
                 PROVE  Download(k, catalog[k]) = "ok"
      BY DEF PublishedStaysReadable
    <3>1. catalog[k].content \in Content /\ objects[catalog[k].content].entry = "durable"
      BY KeyFacts DEF KeptOK, Receipt
    <3>2. ReadDigest(catalog[k].content) = "ok"
      BY <3>1, ReadDigestType
    <3> QED
      BY <3>2 DEF Download
  <2>3. AnswersAgree
    BY CallFacts DEF AnswersAgree, AnsweredOK
  <2>4. CatalogFollowsCommands
    BY KeyFacts DEF CatalogFollowsCommands, ShownOK
  <2> QED
    BY <2>1, <2>2, <2>3, <2>4 DEF StoredIsStored
<1> QED
  BY <1>1, Invariance, PTL

\* A row that is overwritten by a claim had no running lease.
LEMMA TakesNoLease ==
  ASSUME Inv, NEW u \in Upload, call[u].pc = "claim", NEW k \in Key,
         CanTake(u, commands[k]), commands[k].state = "pending"
  PROVE  ~ commands[k].left > 0
<1>1. commands[k].left + call[u].late <= 0
  BY DEF CanTake, Expired
<1>2. commands[k].left \in Int /\ call[u].late \in Nat
  BY CallFacts, KeyFacts, AssetAssumption DEF Row, CallState
<1> QED
  BY <1>1, <1>2

\* A running lease is ended by its holder and by nobody else: whoever was taken
\* over neither completes nor withdraws the claim of its successor.
THEOREM LeaseRespected == Spec => LeaseIsRespected
<1>1. ASSUME Inv, [Next]_vars, NEW k \in Key,
             commands[k].state = "pending", commands[k].left > 0,
             commands'[k].token # commands[k].token
      PROVE  \E u \in Upload : call[u].token = commands[k].token /\ call'[u] # call[u]
  <2>1. ~ UNCHANGED commands
    BY <1>1
  <2>2. ASSUME NEW u \in Upload, Claim(u) \/ ClaimFails(u) PROVE FALSE
    <3>1. /\ call[u].pc = "claim" /\ CanTake(u, commands[call[u].key])
          /\ commands' = [commands EXCEPT ![call[u].key] = Claimed(u, commands[call[u].key])]
      BY <2>1, <2>2 DEF Claim, ClaimFails
    <3>2. k = call[u].key
      BY <1>1, <3>1, CallFacts
    <3> QED
      BY <1>1, <3>1, <3>2, TakesNoLease
  <2>3. ASSUME NEW u \in Upload, Publish(u) \/ PublishFails(u) \/ Abort(u)
        PROVE  call[u].token = commands[k].token /\ call'[u] # call[u]
    <3>1. Holds(u, commands[call[u].key]) /\ k = call[u].key
      BY <1>1, <2>1, <2>3, CallFacts
         DEF Publish, PublishFails, Abort, CanPublish, Publication, stored
    <3>2. call[u].pc \in {"publish", "abort"} /\ call'[u].pc # call[u].pc
      <4>1. call[u].pc \in {"publish", "abort"}
        BY <2>3 DEF Publish, PublishFails, Abort
      <4>2. ASSUME NEW a, Answer(u, a) PROVE call'[u].pc = "idle"
        <5> DEFINE x == [Idle EXCEPT !.key = call[u].key, !.answer = a]
        <5>1. call' = [call EXCEPT ![u] = x] /\ x.pc = "idle"
          BY <4>2 DEF Answer, Idle
        <5>2. call \in [Upload -> CallState]
          BY <1>1, CallFacts
        <5> HIDE DEF x
        <5> QED
          BY <5>1, <5>2
      <4>3. ASSUME Go(u, "abort") PROVE call'[u].pc = "abort"
        BY <1>1, <4>1, <4>3, GoRecord
      <4>4. CASE Abort(u)
        BY <4>2, <4>4 DEF Abort
      <4>5. CASE Publish(u)
        BY <4>2, <4>3, <4>5 DEF Publish
      <4>6. CASE PublishFails(u)
        BY <4>3, <4>6 DEF PublishFails
      <4> QED
        BY <2>3, <4>1, <4>4, <4>5, <4>6
    <3> QED
      BY <3>1, <3>2 DEF Holds
  <2>4. CASE Tick
    <3>1. commands'[k].token = commands[k].token
      BY <1>1, <2>4, KeyFacts DEF Tick, Row
    <3> QED
      BY <1>1, <3>1
  <2>5. CASE PowerFails
    BY <2>1, <2>5 DEF PowerFails, stored
  <2>6. ASSUME NEW u \in Upload,
               \/ \E j \in Key, c \in Content : Submit(u, j, c)
               \/ Put(u) \/ Link(u) \/ SyncDirectory(u) \/ ReadBack(u) \/ ReadClock(u)
               \/ VerifyReplay(u) \/ StoreFails(u) \/ Die(u)
        PROVE  FALSE
    BY <2>1, <2>6 DEF Submit, Put, Link, SyncDirectory, ReadBack, ReadClock, VerifyReplay,
       StoreFails, Die, stored
  <2>7. CASE UNCHANGED vars
    BY <2>1, <2>7 DEF vars
  <2> QED
    BY <1>1, <2>2, <2>3, <2>4, <2>5, <2>6, <2>7 DEF Next, Step
<1>2. Inv /\ [Next]_vars =>
        [\A k \in Key :
           commands[k].state = "pending" /\ commands[k].left > 0
             /\ commands'[k].token # commands[k].token
           => \E u \in Upload : call[u].token = commands[k].token /\ call'[u] # call[u]]_vars
  BY <1>1
<1> QED
  BY <1>2, Invariance, PTL DEF Spec, LeaseIsRespected

-----------------------------------------------------------------------------
(***************************************************************************)
(* The gates of the web adapters, for any number of requests, threads and  *)
(* upload slots.                                                           *)
(*                                                                         *)
(* The argument.  A semaphore is seen through two things: who is present   *)
(* at it, waiting or handed a permit, and how many permits it has, free or *)
(* handed over.  Whatever happens at a semaphore changes each of them by   *)
(* at most one.  Who is present are exactly the requests that stand        *)
(* before the gate, and no request submits a call twice; so each permit    *)
(* that leaves the semaphore is held by one call, and comes back once.     *)
(***************************************************************************)

Semaphores == [free : Nat, waiters : Seq(Requests), granted : SUBSET Requests]

\* Each waits in one place, a free permit has no takers.
SemaphoreOK(s) ==
  /\ s \in Semaphores
  /\ \A i, j \in DOMAIN s.waiters : s.waiters[i] = s.waiters[j] => i = j
  /\ \A i \in DOMAIN s.waiters : s.waiters[i] \notin s.granted
  /\ s.free > 0 => s.waiters = <<>>

\* Who waits at a semaphore, the permits it has.
Present(s) == s.granted \cup Range(s.waiters)
Permits(s) == s.free + Cardinality(s.granted)

\* The requests at a point, and the uploads that hold their gate.
Standing(where) == {r \in Requests : At(r) = where}
Holders == {r \in Requests : HoldsUpload(r)}

Places == {"new", "gate", "awaiting", "uploadGate", "body", "ended"}

GateTypes ==
  /\ request \in [Requests -> [at : Places, leg : Legs]]
  /\ future \in [Calls -> {"none", "queued", "running", "done", "cancelled"}]
  /\ queue \in Seq(Calls)
  /\ releases \in Nat
  /\ lifespan \in {"open", "closing", "closed"}

\* A request before the gate has not submitted its call yet.
FreshOK(r) ==
  /\ request[r].leg = "principal" => future[<<r, "operation">>] = "none"
  /\ At(r) \in {"new", "gate", "body"} => future[Call(r)] = "none"
  /\ At(r) \in {"new", "uploadGate"} => request[r].leg = "principal"
  /\ At(r) = "body" => request[r].leg = "operation"
  /\ At(r) = "uploadGate" => r \in Uploads

Fresh == \A r \in Requests : FreshOK(r)

GateOK ==
  /\ SemaphoreOK(gate)
  /\ Present(gate) = Standing("gate")
  /\ Permits(gate) + Cardinality(Unfinished) + releases = Capacity

UploadOK ==
  /\ SemaphoreOK(upload)
  /\ Present(upload) = Standing("uploadGate")
  /\ Permits(upload) + Cardinality(Holders) = UploadConcurrency

\* The invariant.
GateInv == GateTypes /\ Fresh /\ GateOK /\ UploadOK

-----------------------------------------------------------------------------
(* The semaphore.                                                           *)

LEMMA GrantedCount ==
  ASSUME GateAssumption, NEW s, SemaphoreOK(s)
  PROVE  IsFiniteSet(s.granted) /\ Cardinality(s.granted) \in Nat
BY FS_Subset, FS_CardinalityType DEF GateAssumption, SemaphoreOK, Semaphores

LEMMA TakenFacts ==
  ASSUME NEW s, SemaphoreOK(s), IsFree(s), GateAssumption
  PROVE  /\ SemaphoreOK(Taken(s))
         /\ Present(Taken(s)) = Present(s)
         /\ Permits(Taken(s)) = Permits(s) - 1
BY GrantedCount DEF SemaphoreOK, Semaphores, IsFree, Taken, Present, Permits

LEMMA WaitingFacts ==
  ASSUME NEW s, SemaphoreOK(s), ~ IsFree(s), NEW r \in Requests, r \notin Present(s)
  PROVE  /\ SemaphoreOK(Waiting(s, r))
         /\ Present(Waiting(s, r)) = Present(s) \cup {r}
         /\ Permits(Waiting(s, r)) = Permits(s)
<1> DEFINE w == s.waiters
           v == Append(w, r)
<1>1. w \in Seq(Requests) /\ s.free = 0
  BY DEF SemaphoreOK, Semaphores, IsFree
<1>2. /\ v \in Seq(Requests) /\ DOMAIN v = 1 .. Len(w) + 1 /\ DOMAIN w = 1 .. Len(w)
      /\ Len(w) \in Nat
      /\ \A i \in 1 .. Len(w) : v[i] = w[i]
      /\ v[Len(w) + 1] = r
  BY <1>1, AppendProperties, LenProperties
<1>3. /\ Waiting(s, r) = [s EXCEPT !.waiters = v]
      /\ Waiting(s, r) \in Semaphores
      /\ Waiting(s, r).waiters = v /\ Waiting(s, r).free = 0
      /\ Waiting(s, r).granted = s.granted
  BY <1>1, <1>2 DEF Waiting, SemaphoreOK, Semaphores
<1>4. \A i \in DOMAIN w : w[i] # r
  BY DEF Present, Range
<1>5. /\ \A i, j \in DOMAIN w : w[i] = w[j] => i = j
      /\ \A i \in DOMAIN w : w[i] \notin s.granted
      /\ r \notin s.granted
  BY DEF SemaphoreOK, Present
<1>6. Range(v) = Range(w) \cup {r}
  BY <1>2 DEF Range
<1> HIDE DEF v, w
<1>7. /\ \A i, j \in DOMAIN v : v[i] = v[j] => i = j
      /\ \A i \in DOMAIN v : v[i] \notin s.granted
  BY <1>2, <1>4, <1>5
<1>8. SemaphoreOK(Waiting(s, r))
  BY <1>1, <1>3, <1>7 DEF SemaphoreOK
<1> QED
  BY <1>1, <1>3, <1>6, <1>8 DEF Present, Permits, w

LEMMA ReleasedFacts ==
  ASSUME NEW s, SemaphoreOK(s), GateAssumption
  PROVE  /\ SemaphoreOK(Released(s))
         /\ Present(Released(s)) = Present(s)
         /\ Permits(Released(s)) = Permits(s) + 1
<1>1. CASE s.waiters = <<>>
  BY <1>1, GrantedCount DEF SemaphoreOK, Semaphores, Released, Present, Permits
<1>2. CASE s.waiters # <<>>
  <2> DEFINE w == s.waiters
             v == Tail(w)
             g == s.granted \cup {Head(w)}
  <2>1. w \in Seq(Requests) /\ w # <<>> /\ s.free = 0
    BY <1>2 DEF SemaphoreOK, Semaphores
  <2>2. /\ v \in Seq(Requests) /\ Len(w) \in Nat /\ Len(w) > 0
        /\ DOMAIN v = 1 .. Len(w) - 1 /\ DOMAIN w = 1 .. Len(w)
        /\ \A i \in 1 .. Len(w) - 1 : v[i] = w[i + 1]
        /\ Head(w) = w[1] /\ Head(w) \in Requests
    BY <2>1, HeadTailProperties, LenProperties
  <2>3. /\ Released(s) \in Semaphores
        /\ Released(s).waiters = v /\ Released(s).free = 0
        /\ Released(s).granted = g
    BY <2>1, <2>2 DEF Released, SemaphoreOK, Semaphores
  <2>4. /\ \A i, j \in DOMAIN w : w[i] = w[j] => i = j
        /\ \A i \in DOMAIN w : w[i] \notin s.granted
    BY DEF SemaphoreOK
  <2>5. Cardinality(g) = Cardinality(s.granted) + 1 /\ Cardinality(s.granted) \in Nat
    <3>1. Head(w) \notin s.granted
      BY <2>2, <2>4
    <3>2. IsFiniteSet(s.granted) /\ Cardinality(s.granted) \in Nat
      BY GrantedCount
    <3> QED
      BY <3>1, <3>2, FS_AddElement
  <2>6. g \cup Range(v) = s.granted \cup Range(w)
    <3>1. ASSUME NEW x \in Range(w) PROVE x \in g \cup Range(v)
      <4>1. PICK i \in 1 .. Len(w) : x = w[i]
        BY <3>1, <2>2 DEF Range
      <4>2. CASE i = 1
        BY <4>1, <4>2, <2>2
      <4>3. CASE i # 1
        <5>1. i - 1 \in DOMAIN v /\ v[i - 1] = x
          BY <4>1, <4>3, <2>2
        <5> QED
          BY <5>1 DEF Range
      <4> QED
        BY <4>2, <4>3
    <3>2. ASSUME NEW x \in Range(v) PROVE x \in Range(w)
      <4>1. PICK i \in 1 .. Len(w) - 1 : x = v[i]
        BY <3>2, <2>2 DEF Range
      <4>2. i + 1 \in DOMAIN w /\ w[i + 1] = x
        BY <4>1, <2>2
      <4> QED
        BY <4>2 DEF Range
    <3>3. Head(w) \in Range(w)
      BY <2>2 DEF Range
    <3> QED
      BY <3>1, <3>2, <3>3
  <2> HIDE DEF v, w, g
  <2>7. /\ \A i, j \in DOMAIN v : v[i] = v[j] => i = j
        /\ \A i \in DOMAIN v : v[i] \notin g
    <3>1. ASSUME NEW i \in DOMAIN v PROVE i + 1 \in DOMAIN w /\ i + 1 # 1 /\ v[i] = w[i + 1]
      BY <3>1, <2>2
    <3>2. 1 \in DOMAIN w
      BY <2>2
    <3>3. ASSUME NEW i \in DOMAIN v PROVE v[i] \notin g
      BY <3>1, <3>2, <2>2, <2>4 DEF g
    <3>4. ASSUME NEW i \in DOMAIN v, NEW j \in DOMAIN v, v[i] = v[j] PROVE i = j
      <4>1. i + 1 = j + 1
        BY <3>1, <3>4, <2>4
      <4> QED
        BY <4>1, <2>2
    <3> QED
      BY <3>3, <3>4
  <2>8. SemaphoreOK(Released(s))
    BY <2>3, <2>7 DEF SemaphoreOK
  <2>9. Permits(Released(s)) = Permits(s) + 1
    BY <2>1, <2>3, <2>5 DEF Permits
  <2> QED
    BY <2>3, <2>6, <2>8, <2>9 DEF Present, w
<1> QED
  BY <1>1, <1>2

LEMMA EnteredFacts ==
  ASSUME NEW s, SemaphoreOK(s), NEW r \in s.granted, GateAssumption
  PROVE  /\ SemaphoreOK(Entered(s, r))
         /\ Present(Entered(s, r)) = Present(s) \ {r}
         /\ Permits(Entered(s, r)) = Permits(s) - 1
<1>1. /\ Entered(s, r) \in Semaphores
      /\ Entered(s, r).waiters = s.waiters /\ Entered(s, r).free = s.free
      /\ Entered(s, r).granted = s.granted \ {r}
  BY DEF Entered, SemaphoreOK, Semaphores
<1>2. Cardinality(s.granted \ {r}) = Cardinality(s.granted) - 1 /\ Cardinality(s.granted) \in Nat
  BY GrantedCount, FS_RemoveElement
<1>3. SemaphoreOK(Entered(s, r))
  BY <1>1 DEF SemaphoreOK
<1>4. r \notin Range(s.waiters)
  BY DEF SemaphoreOK, Range
<1>5. Permits(Entered(s, r)) = Permits(s) - 1
  <2>1. s.free \in Nat
    BY DEF SemaphoreOK, Semaphores
  <2> QED
    BY <1>1, <1>2, <2>1 DEF Permits
<1> QED
  BY <1>1, <1>3, <1>4, <1>5 DEF Present

\* What is left of a sequence when one place of it is taken out.
LEMMA RemoveAtFacts ==
  ASSUME NEW S, NEW w \in Seq(S), NEW k \in 1 .. Len(w)
  PROVE  /\ RemoveAt(w, k) \in Seq(S)
         /\ Len(RemoveAt(w, k)) = Len(w) - 1
         /\ \A i \in 1 .. Len(w) - 1 :
              RemoveAt(w, k)[i] = IF i < k THEN w[i] ELSE w[i + 1]
<1> DEFINE a == SubSeq(w, 1, k - 1)
           b == SubSeq(w, k + 1, Len(w))
<1>1. Len(w) \in Nat /\ DOMAIN w = 1 .. Len(w) /\ \A i \in 1 .. Len(w) : w[i] \in S
  BY LenProperties, ElementOfSeq
<1>2. a \in Seq(S) /\ Len(a) = k - 1 /\ \A i \in 1 .. k - 1 : a[i] = w[i]
  <2>1. k - 1 \in Int /\ \A i \in 1 .. k - 1 : w[i] \in S
    BY <1>1
  <2>2. /\ a \in Seq(S) /\ Len(a) = IF 1 <= k - 1 THEN k - 1 - 1 + 1 ELSE 0
        /\ \A i \in 1 .. k - 1 - 1 + 1 : a[i] = w[1 + i - 1]
    BY <2>1, SubSeqProperties
  <2> HIDE DEF a
  <2> QED
    BY <2>2, <1>1
<1>3. /\ b \in Seq(S) /\ Len(b) = Len(w) - k
      /\ \A i \in 1 .. Len(w) - k : b[i] = w[k + i]
  <2>1. k + 1 \in Int /\ Len(w) \in Int /\ \A i \in k + 1 .. Len(w) : w[i] \in S
    BY <1>1
  <2>2. /\ b \in Seq(S)
        /\ Len(b) = IF k + 1 <= Len(w) THEN Len(w) - (k + 1) + 1 ELSE 0
        /\ \A i \in 1 .. Len(w) - (k + 1) + 1 : b[i] = w[k + 1 + i - 1]
    BY <2>1, SubSeqProperties
  <2> HIDE DEF b
  <2>3. k \in 1 .. Len(w) /\ Len(w) \in Nat
    BY <1>1
  <2>4. Len(b) = Len(w) - k
    BY <2>2, <2>3
  <2>5. ASSUME NEW i \in 1 .. Len(w) - k PROVE b[i] = w[k + i]
    <3>1. i \in 1 .. Len(w) - (k + 1) + 1 /\ k + 1 + i - 1 = k + i
      BY <2>3
    <3> QED
      BY <2>2, <3>1
  <2> QED
    BY <2>2, <2>4, <2>5
<1> HIDE DEF a, b
<1>4. /\ a \o b \in Seq(S) /\ Len(a \o b) = Len(w) - 1
      /\ \A i \in 1 .. Len(w) - 1 : (a \o b)[i] = IF i <= k - 1 THEN a[i] ELSE b[i - (k - 1)]
  <2>1. /\ a \o b \in Seq(S) /\ Len(a \o b) = Len(a) + Len(b)
        /\ \A i \in 1 .. Len(a) + Len(b) : (a \o b)[i] = IF i <= Len(a) THEN a[i] ELSE b[i - Len(a)]
    BY <1>2, <1>3, ConcatProperties
  <2>2. Len(a) = k - 1 /\ Len(a) + Len(b) = Len(w) - 1
    BY <1>1, <1>2, <1>3
  <2> QED
    BY <2>1, <2>2
<1>5. ASSUME NEW i \in 1 .. Len(w) - 1
      PROVE  (a \o b)[i] = IF i < k THEN w[i] ELSE w[i + 1]
  BY <1>1, <1>2, <1>3, <1>4
<1> QED
  BY <1>4, <1>5 DEF RemoveAt, a, b

LEMMA WithdrawnFacts ==
  ASSUME NEW s, SemaphoreOK(s), NEW r \in Present(s), GateAssumption
  PROVE  /\ SemaphoreOK(Withdrawn(s, r))
         /\ Present(Withdrawn(s, r)) = Present(s) \ {r}
         /\ Permits(Withdrawn(s, r)) = Permits(s)
<1>1. CASE r \in s.granted
  <2>1. Permits(s) \in Nat
    BY GrantedCount DEF Permits, SemaphoreOK, Semaphores
  <2>2. Withdrawn(s, r) = Released(Entered(s, r))
    BY <1>1 DEF Withdrawn
  <2> QED
    BY <1>1, <2>1, <2>2, EnteredFacts, ReleasedFacts
<1>2. CASE r \notin s.granted
  <2> DEFINE w == s.waiters
             k == PlaceOf(s, r)
             v == RemoveAt(w, k)
  <2>1. w \in Seq(Requests) /\ Len(w) \in Nat /\ DOMAIN w = 1 .. Len(w)
    BY LenProperties DEF SemaphoreOK, Semaphores
  <2>2. k \in 1 .. Len(w) /\ w[k] = r
    BY <1>2, <2>1 DEF Present, Range, PlaceOf
  <2>3. /\ \A i, j \in DOMAIN w : w[i] = w[j] => i = j
        /\ \A i \in DOMAIN w : w[i] \notin s.granted
        /\ s.free = 0
    <3>1. w # <<>>
      BY <2>1, <2>2
    <3> QED
      BY <3>1 DEF SemaphoreOK, Semaphores
  <2> HIDE DEF k
  <2>4. /\ v \in Seq(Requests) /\ DOMAIN v = 1 .. Len(w) - 1
        /\ \A i \in 1 .. Len(w) - 1 : v[i] = IF i < k THEN w[i] ELSE w[i + 1]
    <3>1. /\ v \in Seq(Requests) /\ Len(v) = Len(w) - 1
          /\ \A i \in 1 .. Len(w) - 1 : v[i] = IF i < k THEN w[i] ELSE w[i + 1]
      BY <2>1, <2>2, RemoveAtFacts
    <3> HIDE DEF v
    <3> QED
      BY <3>1, LenProperties
  <2> HIDE DEF v
  <2>5. /\ Withdrawn(s, r) \in Semaphores
        /\ Withdrawn(s, r).waiters = v /\ Withdrawn(s, r).free = 0
        /\ Withdrawn(s, r).granted = s.granted
    BY <1>2, <2>3, <2>4 DEF Withdrawn, SemaphoreOK, Semaphores, v, k
  <2> HIDE DEF w
  <2>6. ASSUME NEW i \in DOMAIN v
        PROVE  LET j == IF i < k THEN i ELSE i + 1
               IN  j \in DOMAIN w /\ j # k /\ v[i] = w[j]
    BY <2>1, <2>2, <2>4
  <2>7. ASSUME NEW i \in DOMAIN v, NEW j \in DOMAIN v, v[i] = v[j] PROVE i = j
    <3>1. (IF i < k THEN i ELSE i + 1) = (IF j < k THEN j ELSE j + 1)
      BY <2>3, <2>6, <2>7
    <3> QED
      BY <3>1, <2>1, <2>2, <2>4
  <2>8. \A i \in DOMAIN v : v[i] \notin s.granted
    BY <2>3, <2>6
  <2>9. SemaphoreOK(Withdrawn(s, r))
    BY <2>5, <2>7, <2>8 DEF SemaphoreOK
  <2>10. Range(v) = Range(w) \ {r}
    <3>1. ASSUME NEW x \in Range(v) PROVE x \in Range(w) /\ x # r
      <4>1. PICK i \in DOMAIN v : x = v[i]
        BY <3>1 DEF Range
      <4>2. PICK j \in DOMAIN w : j # k /\ x = w[j]
        BY <4>1, <2>6
      <4> QED
        BY <4>2, <2>1, <2>2, <2>3 DEF Range
    <3>2. ASSUME NEW x \in Range(w), x # r PROVE x \in Range(v)
      <4>1. PICK j \in DOMAIN w : x = w[j]
        BY <3>2 DEF Range
      <4>2. j # k
        BY <3>2, <4>1, <2>2
      <4>3. CASE j < k
        <5>1. j \in DOMAIN v /\ v[j] = x
          BY <4>1, <4>3, <2>1, <2>2, <2>4
        <5> QED
          BY <5>1 DEF Range
      <4>4. CASE ~ (j < k)
        <5>1. j - 1 \in DOMAIN v /\ v[j - 1] = x
          BY <4>1, <4>2, <4>4, <2>1, <2>2, <2>4
        <5> QED
          BY <5>1 DEF Range
      <4> QED
        BY <4>3, <4>4
    <3> QED
      BY <3>1, <3>2
  <2>11. Present(Withdrawn(s, r)) = Present(s) \ {r}
    BY <1>2, <2>5, <2>10 DEF Present, w
  <2> QED
    BY <2>3, <2>5, <2>9, <2>11 DEF Permits
<1> QED
  BY <1>1, <1>2
-----------------------------------------------------------------------------
(* Who is where, and what is counted.                                       *)

LEMMA Counts ==
  ASSUME GateAssumption
  PROVE  /\ IsFiniteSet(Calls)
         /\ IsFiniteSet(Unfinished) /\ Cardinality(Unfinished) \in Nat
         /\ IsFiniteSet(Holders) /\ Cardinality(Holders) \in Nat
<1>1. IsFiniteSet(Legs)
  <2>1. Legs = {"principal"} \cup {"operation"}
    BY DEF Legs
  <2> QED
    BY <2>1, FS_Singleton, FS_AddElement
<1>2. IsFiniteSet(Calls)
  BY <1>1, FS_Product DEF GateAssumption, Calls
<1>3. Unfinished \in SUBSET Calls /\ Holders \in SUBSET Requests
  BY DEF Unfinished, Holders
<1> QED
  BY <1>2, <1>3, FS_Subset, FS_CardinalityType DEF GateAssumption

LEMMA GateStays ==
  ASSUME GateOK, UNCHANGED gate, Standing("gate")' = Standing("gate"),
         Cardinality(Unfinished)' + releases' = Cardinality(Unfinished) + releases,
         GateAssumption, releases \in Nat, releases' \in Nat
  PROVE  GateOK'
<1>1. /\ Cardinality(Unfinished) \in Nat /\ Cardinality(Unfinished') \in Nat
      /\ Permits(gate) \in Nat
  <2>1. /\ IsFiniteSet(Calls)
        /\ Unfinished \in SUBSET Calls /\ Unfinished' \in SUBSET Calls
    BY Counts DEF Unfinished, Calls
  <2>2. Permits(gate) \in Nat
    BY GrantedCount DEF GateOK, Permits, SemaphoreOK, Semaphores
  <2> QED
    BY <2>1, <2>2, FS_Subset, FS_CardinalityType
<1>2. Permits(gate)' = Permits(gate) /\ Present(gate)' = Present(gate) /\ SemaphoreOK(gate)'
  BY DEF GateOK, Permits, Present, SemaphoreOK, Semaphores
<1>3. Permits(gate)' + Cardinality(Unfinished)' + releases' = Capacity
  BY <1>1, <1>2 DEF GateOK
<1> QED
  BY <1>2, <1>3 DEF GateOK, Capacity

LEMMA UploadStays ==
  ASSUME UploadOK, UNCHANGED upload, Holders' = Holders,
         Standing("uploadGate")' = Standing("uploadGate")
  PROVE  UploadOK'
BY DEF UploadOK, Permits, Present, SemaphoreOK, Semaphores

\* A request that goes somewhere, and what it changes about who is where.
LEMMA Moved ==
  ASSUME GateInv, NEW r \in Requests, NEW at \in Places, NEW leg \in Legs, Goes(r, at, leg)
  PROVE  /\ request' \in [Requests -> [at : Places, leg : Legs]]
         /\ request'[r].at = at /\ request'[r].leg = leg
         /\ \A q \in Requests : q # r => request'[q] = request[q]
         /\ Standing("gate")' =
              IF at = "gate" THEN Standing("gate") \cup {r} ELSE Standing("gate") \ {r}
         /\ Standing("uploadGate")' =
              IF at = "uploadGate" THEN Standing("uploadGate") \cup {r}
                                   ELSE Standing("uploadGate") \ {r}
         /\ Holders' =
              IF r \in Uploads /\ leg = "operation" /\ at \in {"body", "gate", "awaiting"}
              THEN Holders \cup {r} ELSE Holders \ {r}
<1>1. /\ request' \in [Requests -> [at : Places, leg : Legs]]
      /\ request'[r].at = at /\ request'[r].leg = leg
      /\ \A q \in Requests : q # r => request'[q] = request[q]
  BY DEF GateInv, GateTypes, Goes
<1>2. /\ Standing("gate")' =
           IF at = "gate" THEN Standing("gate") \cup {r} ELSE Standing("gate") \ {r}
      /\ Standing("uploadGate")' =
           IF at = "uploadGate" THEN Standing("uploadGate") \cup {r}
                                ELSE Standing("uploadGate") \ {r}
  BY <1>1 DEF Standing, At
<1>3. Holders' =
        IF r \in Uploads /\ leg = "operation" /\ at \in {"body", "gate", "awaiting"}
        THEN Holders \cup {r} ELSE Holders \ {r}
  BY <1>1 DEF Holders, HoldsUpload, At
<1> QED
  BY <1>1, <1>2, <1>3

\* A request knows nothing of the calls of others.
LEMMA OthersStayFresh ==
  ASSUME GateInv, NEW r \in Requests, FreshOK(r)',
         \A q \in Requests : q # r => request'[q] = request[q],
         \A q \in Requests, l \in Legs : q # r => future'[<<q, l>>] = future[<<q, l>>]
  PROVE  Fresh'
<1> SUFFICES ASSUME NEW q \in Requests, q # r PROVE FreshOK(q)'
  BY DEF Fresh
<1>1. request'[q] = request[q] /\ request[q].leg \in Legs
  BY DEF GateInv, GateTypes
<1>2. /\ future'[<<q, "operation">>] = future[<<q, "operation">>]
      /\ future'[<<q, request[q].leg>>] = future[<<q, request[q].leg>>]
  BY <1>1 DEF Legs
<1>3. FreshOK(q)
  BY DEF GateInv, Fresh
<1> QED
  BY <1>1, <1>2, <1>3 DEF FreshOK, At, Call

\* A call that is submitted, and one that ends, change the number of
\* unfinished calls by one.
LEMMA SubmitCounts ==
  ASSUME GateInv, GateAssumption, NEW c \in Calls, future[c] = "none", Submits(c)
  PROVE  /\ future' \in [Calls -> {"none", "queued", "running", "done", "cancelled"}]
         /\ queue' \in Seq(Calls)
         /\ Cardinality(Unfinished)' = Cardinality(Unfinished) + 1
         /\ \A d \in Calls : d # c => future'[d] = future[d]
<1>1. /\ future' = [future EXCEPT ![c] = "queued"] /\ queue' = Append(queue, c)
      /\ future \in [Calls -> {"none", "queued", "running", "done", "cancelled"}]
      /\ queue \in Seq(Calls)
  BY DEF Submits, GateInv, GateTypes
<1>2. Unfinished' = Unfinished \cup {c} /\ c \notin Unfinished
  BY <1>1 DEF Unfinished, Live, Calls
<1>3. Cardinality(Unfinished') = Cardinality(Unfinished) + 1
  BY <1>2, Counts, FS_AddElement
<1> QED
  BY <1>1, <1>3

LEMMA EndCounts ==
  ASSUME GateInv, GateAssumption, NEW c \in Calls, Live(c), NEW f \in {"done", "cancelled"},
         future' = [future EXCEPT ![c] = f]
  PROVE  /\ future' \in [Calls -> {"none", "queued", "running", "done", "cancelled"}]
         /\ Cardinality(Unfinished)' = Cardinality(Unfinished) - 1
         /\ \A d \in Calls : d # c => future'[d] = future[d]
<1>1. future \in [Calls -> {"none", "queued", "running", "done", "cancelled"}]
  BY DEF GateInv, GateTypes
<1>2. Unfinished' = Unfinished \ {c} /\ c \in Unfinished
  BY <1>1 DEF Unfinished, Live, Calls
<1>3. Cardinality(Unfinished') = Cardinality(Unfinished) - 1
  BY <1>2, Counts, FS_RemoveElement
<1> QED
  BY <1>1, <1>3
LEMMA EndsUpload ==
  ASSUME GateInv, GateAssumption, NEW r \in Requests, Ends(r), At(r) # "uploadGate"
  PROVE  UploadOK'
<1>1. /\ Goes(r, "ended", request[r].leg) /\ request[r].leg \in Legs /\ "ended" \in Places
      /\ upload' = IF HoldsUpload(r) THEN Released(upload) ELSE upload
  BY DEF Ends, GateInv, GateTypes, Places
<1>2. /\ Standing("uploadGate")' = Standing("uploadGate") \ {r} /\ Holders' = Holders \ {r}
  BY <1>1, Moved
<1>3. Standing("uploadGate")' = Standing("uploadGate")
  BY <1>2 DEF Standing
<1>4. CASE HoldsUpload(r)
  <2>1. Cardinality(Holders') = Cardinality(Holders) - 1
    BY <1>2, <1>4, Counts, FS_RemoveElement DEF Holders
  <2>2. PICK u : u = Released(upload)
    OBVIOUS
  <2>3. SemaphoreOK(u) /\ Present(u) = Present(upload) /\ Permits(u) = Permits(upload) + 1
    BY <2>2, ReleasedFacts DEF GateInv, UploadOK
  <2>4. upload' = u
    BY <1>1, <1>4, <2>2
  <2>5. Permits(upload) \in Nat /\ Cardinality(Holders) \in Nat
    BY Counts, GrantedCount DEF GateInv, UploadOK, Permits, SemaphoreOK, Semaphores
  <2> QED
    BY <1>3, <2>1, <2>3, <2>4, <2>5
       DEF GateInv, UploadOK, SemaphoreOK, Semaphores, Present, Permits
<1>5. CASE ~ HoldsUpload(r)
  BY <1>1, <1>2, <1>3, <1>5, UploadStays DEF Holders, GateInv
<1> QED
  BY <1>4, <1>5

\* What a new state of a semaphore is, when it is one whose facts are known.
LEMMA GateBecomes ==
  ASSUME NEW s, gate' = s, SemaphoreOK(s), Present(s) = Standing("gate")',
         Permits(s) + Cardinality(Unfinished)' + releases' = Capacity
  PROVE  GateOK'
BY DEF GateOK, SemaphoreOK, Semaphores, Present, Permits, Capacity

LEMMA UploadBecomes ==
  ASSUME NEW s, upload' = s, SemaphoreOK(s), Present(s) = Standing("uploadGate")',
         Permits(s) + Cardinality(Holders)' = UploadConcurrency
  PROVE  UploadOK'
BY DEF UploadOK, SemaphoreOK, Semaphores, Present, Permits

LEMMA Numbers ==
  ASSUME GateInv, GateAssumption
  PROVE  /\ Permits(gate) \in Nat /\ Permits(upload) \in Nat
         /\ Cardinality(Unfinished) \in Nat /\ Cardinality(Holders) \in Nat
         /\ releases \in Nat /\ Capacity \in Nat
         /\ SemaphoreOK(gate) /\ Present(gate) = Standing("gate")
         /\ SemaphoreOK(upload) /\ Present(upload) = Standing("uploadGate")
         /\ Permits(gate) + Cardinality(Unfinished) + releases = Capacity
         /\ Permits(upload) + Cardinality(Holders) = UploadConcurrency
<1>1. /\ SemaphoreOK(gate) /\ Present(gate) = Standing("gate")
      /\ SemaphoreOK(upload) /\ Present(upload) = Standing("uploadGate")
      /\ Permits(gate) + Cardinality(Unfinished) + releases = Capacity
      /\ Permits(upload) + Cardinality(Holders) = UploadConcurrency
      /\ releases \in Nat
  BY DEF GateInv, GateTypes, GateOK, UploadOK
<1>2. ASSUME NEW s, SemaphoreOK(s) PROVE Permits(s) \in Nat
  BY <1>2, GrantedCount DEF SemaphoreOK, Semaphores, Permits
<1>3. Capacity \in Nat
  BY DEF Capacity, GateAssumption
<1> QED
  BY <1>1, <1>2, <1>3, Counts

\* A request that ends leaves its calls as they are.
LEMMA EndedStaysFresh ==
  ASSUME GateInv, NEW r \in Requests, Goes(r, "ended", request[r].leg), UNCHANGED future
  PROVE  /\ request' \in [Requests -> [at : Places, leg : Legs]]
         /\ Standing("gate")' = Standing("gate") \ {r}
         /\ Standing("uploadGate")' = Standing("uploadGate") \ {r}
         /\ Holders' = Holders \ {r}
         /\ Unfinished' = Unfinished
         /\ Fresh'
<1>1. request[r].leg \in Legs /\ "ended" \in Places /\ FreshOK(r)
  BY DEF GateInv, GateTypes, Places, Fresh
<1>2. /\ request' \in [Requests -> [at : Places, leg : Legs]]
      /\ request'[r].at = "ended" /\ request'[r].leg = request[r].leg
      /\ \A q \in Requests : q # r => request'[q] = request[q]
      /\ Standing("gate")' = Standing("gate") \ {r}
      /\ Standing("uploadGate")' = Standing("uploadGate") \ {r}
      /\ Holders' = Holders \ {r}
  BY <1>1, Moved
<1>3. FreshOK(r)'
  BY <1>1, <1>2 DEF FreshOK, At, Call
<1>4. Fresh'
  BY <1>2, <1>3, OthersStayFresh
<1>5. Unfinished' = Unfinished
  BY DEF Unfinished, Live
<1> QED
  BY <1>2, <1>4, <1>5

-----------------------------------------------------------------------------
(* The actions.                                                             *)

LEMMA OffloadKeeps ==
  ASSUME GateInv, GateAssumption, NEW r \in Requests, At(r) \in {"new", "body"},
         Offload(r, request[r].leg), UNCHANGED <<releases, lifespan>>
  PROVE  GateInv'
<1> DEFINE leg == request[r].leg
<1>1. /\ leg \in Legs /\ <<r, leg>> \in Calls /\ FreshOK(r) /\ future[<<r, leg>>] = "none"
      /\ {"ended", "awaiting", "gate"} \subseteq Places
      /\ r \notin Standing("gate") /\ r \notin Standing("uploadGate")
  BY DEF GateInv, GateTypes, Fresh, FreshOK, Call, Calls, Places, Standing
<1>2. CASE Ends(r) /\ UNCHANGED <<gate, future, queue>>
  <2>1. /\ request' \in [Requests -> [at : Places, leg : Legs]]
        /\ Standing("gate")' = Standing("gate") \ {r}
        /\ Unfinished' = Unfinished
        /\ Fresh'
    BY <1>2, EndedStaysFresh DEF Ends
  <2>2. Standing("gate")' = Standing("gate")
    BY <1>1, <2>1
  <2>3. UploadOK'
    BY <1>2, EndsUpload
  <2>4. GateOK'
    BY <1>2, <2>1, <2>2, GateStays DEF GateInv, GateTypes
  <2> QED
    BY <1>2, <2>1, <2>3, <2>4 DEF GateInv, GateTypes
<1>3. ASSUME NEW at \in {"awaiting", "gate"}, Goes(r, at, leg), UNCHANGED upload
      PROVE  /\ request' \in [Requests -> [at : Places, leg : Legs]]
             /\ request'[r].at = at /\ request'[r].leg = leg
             /\ \A q \in Requests : q # r => request'[q] = request[q]
             /\ Standing("gate")' = IF at = "gate" THEN Standing("gate") \cup {r}
                                                   ELSE Standing("gate") \ {r}
             /\ UploadOK'
  <2>1. /\ request' \in [Requests -> [at : Places, leg : Legs]]
        /\ request'[r].at = at /\ request'[r].leg = leg
        /\ \A q \in Requests : q # r => request'[q] = request[q]
        /\ Standing("gate")' = IF at = "gate" THEN Standing("gate") \cup {r}
                                              ELSE Standing("gate") \ {r}
        /\ Standing("uploadGate")' = Standing("uploadGate") \ {r}
        /\ Holders' = IF r \in Uploads /\ leg = "operation"
                      THEN Holders \cup {r} ELSE Holders \ {r}
    BY <1>1, <1>3, Moved
  <2>2. r \in Holders <=> r \in Uploads /\ leg = "operation"
    BY <1>1 DEF Holders, HoldsUpload, FreshOK
  <2>3. Holders' = Holders /\ Standing("uploadGate")' = Standing("uploadGate")
    BY <1>1, <2>1, <2>2
  <2> QED
    BY <1>3, <2>1, <2>3, UploadStays DEF GateInv
<1>4. CASE IsFree(gate) /\ gate' = Taken(gate) /\ Submits(<<r, leg>>)
           /\ Goes(r, "awaiting", leg) /\ UNCHANGED upload
  <2>1. /\ request' \in [Requests -> [at : Places, leg : Legs]]
        /\ request'[r].at = "awaiting" /\ request'[r].leg = leg
        /\ \A q \in Requests : q # r => request'[q] = request[q]
        /\ Standing("gate")' = Standing("gate") \ {r}
        /\ UploadOK'
    BY <1>3, <1>4
  <2>2. /\ future' \in [Calls -> {"none", "queued", "running", "done", "cancelled"}]
        /\ queue' \in Seq(Calls)
        /\ Cardinality(Unfinished)' = Cardinality(Unfinished) + 1
        /\ \A d \in Calls : d # <<r, leg>> => future'[d] = future[d]
    BY <1>1, <1>4, SubmitCounts
  <2>3. GateOK'
    <3>1. PICK s : s = Taken(gate)
      OBVIOUS
    <3>2. SemaphoreOK(s) /\ Present(s) = Present(gate) /\ Permits(s) = Permits(gate) - 1
      BY <1>4, <3>1, Numbers, TakenFacts
    <3>3. Present(s) = Standing("gate")'
      BY <1>1, <2>1, <3>2, Numbers
    <3>4. Permits(s) + Cardinality(Unfinished)' + releases' = Capacity
      BY <2>2, <3>2, Numbers
    <3> QED
      BY <1>4, <3>1, <3>2, <3>3, <3>4, GateBecomes
  <2>4. FreshOK(r)'
    <3>1. leg = "principal" => future'[<<r, "operation">>] = future[<<r, "operation">>]
      BY <1>1, <2>2 DEF Calls, Legs
    <3> QED
      BY <1>1, <2>1, <3>1 DEF FreshOK, At
  <2>5. \A q \in Requests, l \in Legs : q # r => future'[<<q, l>>] = future[<<q, l>>]
    BY <2>2 DEF Calls
  <2>6. Fresh'
    BY <2>1, <2>4, <2>5, OthersStayFresh
  <2> QED
    BY <2>1, <2>2, <2>3, <2>6 DEF GateInv, GateTypes
<1>5. CASE ~ IsFree(gate) /\ gate' = Waiting(gate, r) /\ Goes(r, "gate", leg)
           /\ UNCHANGED <<upload, future, queue>>
  <2>1. /\ request' \in [Requests -> [at : Places, leg : Legs]]
        /\ request'[r].at = "gate" /\ request'[r].leg = leg
        /\ \A q \in Requests : q # r => request'[q] = request[q]
        /\ Standing("gate")' = Standing("gate") \cup {r}
        /\ UploadOK'
    BY <1>3, <1>5
  <2>2. Unfinished' = Unfinished
    BY <1>5 DEF Unfinished, Live
  <2>3. GateOK'
    <3>1. PICK s : s = Waiting(gate, r)
      OBVIOUS
    <3>2. SemaphoreOK(s) /\ Present(s) = Present(gate) \cup {r} /\ Permits(s) = Permits(gate)
      BY <1>1, <1>5, <3>1, Numbers, WaitingFacts
    <3>3. Present(s) = Standing("gate")'
      BY <2>1, <3>2, Numbers
    <3>4. Permits(s) + Cardinality(Unfinished)' + releases' = Capacity
      BY <2>2, <3>2, Numbers
    <3> QED
      BY <1>5, <3>1, <3>2, <3>3, <3>4, GateBecomes
  <2>4. FreshOK(r)'
    BY <1>1, <1>5, <2>1 DEF FreshOK, At, Call
  <2>5. Fresh'
    BY <1>5, <2>1, <2>4, OthersStayFresh
  <2> QED
    BY <1>5, <2>1, <2>3, <2>5 DEF GateInv, GateTypes
<1> QED
  BY <1>2, <1>4, <1>5 DEF Offload

LEMMA ArriveKeeps ==
  ASSUME GateInv, GateAssumption, NEW r \in Requests, Arrive(r)
  PROVE  GateInv'
<1>1. At(r) = "new" /\ request[r].leg = "principal"
  BY DEF Arrive, GateInv, Fresh, FreshOK
<1> QED
  BY <1>1, OffloadKeeps DEF Arrive

LEMMA PassKeeps ==
  ASSUME GateInv, GateAssumption, NEW r \in Requests, Pass(r)
  PROVE  GateInv'
<1> DEFINE leg == request[r].leg
<1>1. /\ leg \in Legs /\ <<r, leg>> \in Calls /\ FreshOK(r) /\ At(r) = "gate"
      /\ future[<<r, leg>>] = "none" /\ r \in gate.granted /\ "awaiting" \in Places
      /\ r \notin Standing("uploadGate")
      /\ UNCHANGED <<releases, lifespan>>
  BY DEF GateInv, GateTypes, Fresh, FreshOK, Call, Calls, Places, Standing, Pass
<1>2. PICK e : e = Entered(gate, r)
  OBVIOUS
<1>3. SemaphoreOK(e) /\ Present(e) = Present(gate) \ {r} /\ Permits(e) = Permits(gate) - 1
  BY <1>1, <1>2, Numbers, EnteredFacts
<1>4. CASE gate' = Entered(gate, r) /\ Submits(Call(r)) /\ Goes(r, "awaiting", leg)
           /\ UNCHANGED upload
  <2>1. /\ request' \in [Requests -> [at : Places, leg : Legs]]
        /\ request'[r].at = "awaiting" /\ request'[r].leg = leg
        /\ \A q \in Requests : q # r => request'[q] = request[q]
        /\ Standing("gate")' = Standing("gate") \ {r}
        /\ Standing("uploadGate")' = Standing("uploadGate") \ {r}
        /\ Holders' = IF r \in Uploads /\ leg = "operation"
                      THEN Holders \cup {r} ELSE Holders \ {r}
    BY <1>1, <1>4, Moved
  <2>2. /\ future' \in [Calls -> {"none", "queued", "running", "done", "cancelled"}]
        /\ queue' \in Seq(Calls)
        /\ Cardinality(Unfinished)' = Cardinality(Unfinished) + 1
        /\ \A d \in Calls : d # <<r, leg>> => future'[d] = future[d]
    BY <1>1, <1>4, SubmitCounts DEF Call
  <2>3. UploadOK'
    <3>1. r \in Holders <=> r \in Uploads /\ leg = "operation"
      BY <1>1 DEF Holders, HoldsUpload
    <3>2. Holders' = Holders /\ Standing("uploadGate")' = Standing("uploadGate")
      BY <1>1, <2>1, <3>1
    <3> QED
      BY <1>4, <3>2, UploadStays DEF GateInv
  <2>4. GateOK'
    <3>1. Present(e) = Standing("gate")'
      BY <1>3, <2>1, Numbers
    <3>2. Permits(e) + Cardinality(Unfinished)' + releases' = Capacity
      BY <1>1, <1>3, <2>2, Numbers
    <3> QED
      BY <1>2, <1>3, <1>4, <3>1, <3>2, GateBecomes
  <2>5. FreshOK(r)'
    <3>1. leg = "principal" => future'[<<r, "operation">>] = future[<<r, "operation">>]
      BY <1>1, <2>2 DEF Calls, Legs
    <3> QED
      BY <1>1, <2>1, <3>1 DEF FreshOK, At
  <2>6. \A q \in Requests, l \in Legs : q # r => future'[<<q, l>>] = future[<<q, l>>]
    BY <2>2 DEF Calls
  <2>7. Fresh'
    BY <2>1, <2>5, <2>6, OthersStayFresh
  <2> QED
    BY <1>1, <2>1, <2>2, <2>3, <2>4, <2>7 DEF GateInv, GateTypes
<1>5. CASE gate' = Released(Entered(gate, r)) /\ Ends(r) /\ UNCHANGED <<future, queue>>
  <2>1. /\ request' \in [Requests -> [at : Places, leg : Legs]]
        /\ Standing("gate")' = Standing("gate") \ {r}
        /\ Unfinished' = Unfinished
        /\ Fresh'
    BY <1>5, EndedStaysFresh DEF Ends
  <2>2. UploadOK'
    BY <1>1, <1>5, EndsUpload
  <2>3. GateOK'
    <3>1. PICK s : s = Released(e)
      OBVIOUS
    <3>2. SemaphoreOK(s) /\ Present(s) = Present(e) /\ Permits(s) = Permits(e) + 1
      BY <1>3, <3>1, ReleasedFacts
    <3>3. Present(s) = Standing("gate")'
      BY <1>3, <2>1, <3>2, Numbers
    <3>4. Permits(s) + Cardinality(Unfinished)' + releases' = Capacity
      BY <1>1, <1>3, <2>1, <3>2, Numbers
    <3> QED
      BY <1>2, <1>5, <3>1, <3>2, <3>3, <3>4, GateBecomes
  <2> QED
    BY <1>1, <1>5, <2>1, <2>2, <2>3 DEF GateInv, GateTypes
<1> QED
  BY <1>4, <1>5 DEF Pass

\* A request that ends away from both gates.
LEMMA EndsKeeps ==
  ASSUME GateInv, GateAssumption, NEW r \in Requests, Ends(r), At(r) \notin {"gate", "uploadGate"},
         UNCHANGED <<gate, future, queue, releases, lifespan>>
  PROVE  GateInv'
<1>1. /\ request' \in [Requests -> [at : Places, leg : Legs]]
      /\ Standing("gate")' = Standing("gate") \ {r}
      /\ Unfinished' = Unfinished
      /\ Fresh'
  BY EndedStaysFresh DEF Ends
<1>2. Standing("gate")' = Standing("gate")
  BY <1>1 DEF Standing
<1>3. UploadOK'
  BY EndsUpload
<1>4. GateOK'
  BY <1>1, <1>2, GateStays DEF GateInv, GateTypes
<1> QED
  BY <1>1, <1>3, <1>4 DEF GateInv, GateTypes

LEMMA PrincipalKnownKeeps ==
  ASSUME GateInv, GateAssumption, NEW r \in Requests, PrincipalKnown(r)
  PROVE  GateInv'
<1>1. /\ At(r) = "awaiting" /\ request[r].leg = "principal" /\ FreshOK(r)
      /\ UNCHANGED <<gate, future, queue, releases, lifespan>>
      /\ {"body", "uploadGate"} \subseteq Places /\ {"operation", "principal"} \subseteq Legs
  BY DEF PrincipalKnown, GateInv, Fresh, Places, Legs
<1>2. CASE Ends(r)
  BY <1>1, <1>2, EndsKeeps
<1>3. ASSUME NEW at \in {"body", "uploadGate"}, NEW leg \in Legs, Goes(r, at, leg),
             at = "body" => leg = "operation",
             at = "uploadGate" => leg = "principal" /\ r \in Uploads,
             UploadOK'
      PROVE  GateInv'
  <2>1. /\ request' \in [Requests -> [at : Places, leg : Legs]]
        /\ request'[r].at = at /\ request'[r].leg = leg
        /\ \A q \in Requests : q # r => request'[q] = request[q]
        /\ Standing("gate")' = Standing("gate") \ {r}
    BY <1>1, <1>3, Moved
  <2>2. Standing("gate")' = Standing("gate")
    BY <1>1, <2>1 DEF Standing
  <2>3. Unfinished' = Unfinished
    BY <1>1 DEF Unfinished, Live
  <2>4. GateOK'
    BY <1>1, <2>2, <2>3, GateStays DEF GateInv, GateTypes
  <2>5. FreshOK(r)'
    BY <1>1, <1>3, <2>1 DEF FreshOK, At, Call
  <2>6. Fresh'
    BY <1>1, <2>1, <2>5, OthersStayFresh
  <2> QED
    BY <1>1, <1>3, <2>1, <2>4, <2>6 DEF GateInv, GateTypes
<1>4. r \notin Holders /\ r \notin Standing("uploadGate")
  BY <1>1 DEF Holders, HoldsUpload, Standing
<1>5. CASE r \notin Uploads /\ Goes(r, "body", "operation") /\ UNCHANGED upload
  <2>1. /\ Standing("uploadGate")' = Standing("uploadGate") \ {r}
        /\ Holders' = Holders \ {r}
    BY <1>1, <1>5, Moved
  <2>2. UploadOK'
    BY <1>4, <1>5, <2>1, UploadStays DEF GateInv
  <2> QED
    BY <1>1, <1>3, <1>5, <2>2
<1>6. CASE r \in Uploads /\ IsFree(upload) /\ upload' = Taken(upload)
           /\ Goes(r, "body", "operation")
  <2>1. /\ Standing("uploadGate")' = Standing("uploadGate") \ {r}
        /\ Holders' = Holders \cup {r}
    BY <1>1, <1>6, Moved
  <2>2. PICK s : s = Taken(upload)
    OBVIOUS
  <2>3. SemaphoreOK(s) /\ Present(s) = Present(upload) /\ Permits(s) = Permits(upload) - 1
    BY <1>6, <2>2, Numbers, TakenFacts
  <2>4. Cardinality(Holders') = Cardinality(Holders) + 1
    BY <1>4, <2>1, Counts, FS_AddElement
  <2>5. Present(s) = Standing("uploadGate")'
    BY <1>4, <2>1, <2>3, Numbers
  <2>6. Permits(s) + Cardinality(Holders)' = UploadConcurrency
    BY <2>3, <2>4, Numbers
  <2>7. UploadOK'
    BY <1>6, <2>2, <2>3, <2>5, <2>6, UploadBecomes
  <2> QED
    BY <1>1, <1>3, <1>6, <2>7
<1>7. CASE r \in Uploads /\ ~ IsFree(upload) /\ upload' = Waiting(upload, r)
           /\ Goes(r, "uploadGate", "principal")
  <2>1. /\ Standing("uploadGate")' = Standing("uploadGate") \cup {r}
        /\ Holders' = Holders \ {r}
    BY <1>1, <1>7, Moved
  <2>2. PICK s : s = Waiting(upload, r)
    OBVIOUS
  <2>3. SemaphoreOK(s) /\ Present(s) = Present(upload) \cup {r} /\ Permits(s) = Permits(upload)
    BY <1>4, <1>7, <2>2, Numbers, WaitingFacts
  <2>4. Present(s) = Standing("uploadGate")'
    BY <2>1, <2>3, Numbers
  <2>5. Permits(s) + Cardinality(Holders)' = UploadConcurrency
    BY <1>4, <2>1, <2>3, Numbers
  <2>6. UploadOK'
    BY <1>7, <2>2, <2>3, <2>4, <2>5, UploadBecomes
  <2> QED
    BY <1>1, <1>3, <1>7, <2>6
<1> QED
  BY <1>2, <1>5, <1>6, <1>7 DEF PrincipalKnown

LEMMA PassUploadKeeps ==
  ASSUME GateInv, GateAssumption, NEW r \in Requests, PassUpload(r)
  PROVE  GateInv'
<1>1. /\ At(r) = "uploadGate" /\ r \in upload.granted /\ FreshOK(r)
      /\ request[r].leg = "principal" /\ r \in Uploads
      /\ upload' = Entered(upload, r) /\ Goes(r, "body", "operation")
      /\ UNCHANGED <<gate, future, queue, releases, lifespan>>
      /\ "body" \in Places /\ "operation" \in Legs
      /\ r \notin Holders /\ r \notin Standing("gate")
  BY DEF PassUpload, GateInv, Fresh, FreshOK, Places, Legs, Holders, HoldsUpload, Standing
<1>2. /\ request' \in [Requests -> [at : Places, leg : Legs]]
      /\ request'[r].at = "body" /\ request'[r].leg = "operation"
      /\ \A q \in Requests : q # r => request'[q] = request[q]
      /\ Standing("gate")' = Standing("gate") \ {r}
      /\ Standing("uploadGate")' = Standing("uploadGate") \ {r}
      /\ Holders' = Holders \cup {r}
  BY <1>1, Moved
<1>3. Unfinished' = Unfinished
  BY <1>1 DEF Unfinished, Live
<1>4. GateOK'
  BY <1>1, <1>2, <1>3, GateStays DEF GateInv, GateTypes
<1>5. UploadOK'
  <2>1. PICK s : s = Entered(upload, r)
    OBVIOUS
  <2>2. /\ SemaphoreOK(s) /\ Present(s) = Present(upload) \ {r}
        /\ Permits(s) = Permits(upload) - 1
    BY <1>1, <2>1, Numbers, EnteredFacts
  <2>3. Cardinality(Holders') = Cardinality(Holders) + 1
    BY <1>1, <1>2, Counts, FS_AddElement
  <2>4. Present(s) = Standing("uploadGate")'
    BY <1>2, <2>2, Numbers
  <2>5. Permits(s) + Cardinality(Holders)' = UploadConcurrency
    BY <2>2, <2>3, Numbers
  <2> QED
    BY <1>1, <2>1, <2>2, <2>4, <2>5, UploadBecomes
<1>6. FreshOK(r)'
  BY <1>1, <1>2 DEF FreshOK, At, Call
<1>7. Fresh'
  BY <1>1, <1>2, <1>6, OthersStayFresh
<1> QED
  BY <1>1, <1>2, <1>4, <1>5, <1>7 DEF GateInv, GateTypes

LEMMA ReadBodyKeeps ==
  ASSUME GateInv, GateAssumption, NEW r \in Requests, ReadBody(r)
  PROVE  GateInv'
<1>1. At(r) = "body" /\ request[r].leg = "operation"
  BY DEF ReadBody, GateInv, Fresh, FreshOK
<1> QED
  BY <1>1, EndsKeeps, OffloadKeeps DEF ReadBody

LEMMA ReadTimeoutKeeps ==
  ASSUME GateInv, GateAssumption, NEW r \in Requests, ReadTimeout(r)
  PROVE  GateInv'
BY EndsKeeps DEF ReadTimeout

LEMMA AnswerKeeps ==
  ASSUME GateInv, GateAssumption, NEW r \in Requests, Respond(r)
  PROVE  GateInv'
BY EndsKeeps DEF Respond

\* A client that goes away withdraws from the gate it waits at, gives back the
\* upload gate it holds, and cancels its queued call.
LEMMA ClientGoneKeeps ==
  ASSUME GateInv, GateAssumption, NEW r \in Requests, ClientGone(r)
  PROVE  GateInv'
<1> DEFINE leg == request[r].leg
<1>1. /\ leg \in Legs /\ <<r, leg>> \in Calls /\ FreshOK(r) /\ "ended" \in Places
      /\ Goes(r, "ended", leg) /\ UNCHANGED <<queue, lifespan>>
  BY DEF GateInv, GateTypes, Fresh, Calls, Places, ClientGone
<1>2. /\ request' \in [Requests -> [at : Places, leg : Legs]]
      /\ request'[r].at = "ended" /\ request'[r].leg = leg
      /\ \A q \in Requests : q # r => request'[q] = request[q]
      /\ Standing("gate")' = Standing("gate") \ {r}
      /\ Standing("uploadGate")' = Standing("uploadGate") \ {r}
      /\ Holders' = Holders \ {r}
  BY <1>1, Moved
<1>3. UploadOK'
  <2>1. CASE HoldsUpload(r)
    <3>1. Ends(r) /\ At(r) # "uploadGate"
      BY <1>1, <2>1 DEF Ends, ClientGone, HoldsUpload
    <3> QED
      BY <3>1, EndsUpload
  <2>2. CASE At(r) = "uploadGate"
    <3>1. PICK s : s = Withdrawn(upload, r)
      OBVIOUS
    <3>2. r \in Present(upload) /\ r \notin Holders
      BY <2>2, Numbers DEF Standing, Holders, HoldsUpload
    <3>3. /\ SemaphoreOK(s) /\ Present(s) = Present(upload) \ {r}
          /\ Permits(s) = Permits(upload)
      BY <3>1, <3>2, Numbers, WithdrawnFacts
    <3>4. upload' = s
      BY <2>2, <3>1 DEF ClientGone, HoldsUpload
    <3>5. Present(s) = Standing("uploadGate")'
      BY <1>2, <3>3, Numbers
    <3>6. Permits(s) + Cardinality(Holders)' = UploadConcurrency
      BY <1>2, <3>2, <3>3, Numbers
    <3> QED
      BY <3>3, <3>4, <3>5, <3>6, UploadBecomes
  <2>3. CASE ~ HoldsUpload(r) /\ At(r) # "uploadGate"
    <3>1. UNCHANGED upload
      BY <2>3 DEF ClientGone
    <3>2. Holders' = Holders /\ Standing("uploadGate")' = Standing("uploadGate")
      BY <1>2, <2>3 DEF Holders, Standing
    <3> QED
      BY <3>1, <3>2, UploadStays DEF GateInv
  <2> QED
    BY <2>1, <2>2, <2>3
<1>4. CASE At(r) = "awaiting" /\ future[<<r, leg>>] = "queued"
  <2>1. /\ future' = [future EXCEPT ![<<r, leg>>] = "cancelled"]
        /\ releases' = releases + 1 /\ gate' = gate
    BY <1>4 DEF ClientGone, Call
  <2>2. /\ future' \in [Calls -> {"none", "queued", "running", "done", "cancelled"}]
        /\ Cardinality(Unfinished)' = Cardinality(Unfinished) - 1
        /\ \A d \in Calls : d # <<r, leg>> => future'[d] = future[d]
    BY <1>1, <1>4, <2>1, EndCounts DEF Live
  <2>3. Standing("gate")' = Standing("gate")
    BY <1>2, <1>4 DEF Standing
  <2>4. releases' \in Nat /\ Cardinality(Unfinished)' + releases' = Cardinality(Unfinished) + releases
    BY <2>1, <2>2, Numbers
  <2>5. GateOK'
    BY <2>1, <2>3, <2>4, GateStays DEF GateInv, GateTypes
  <2>6. FreshOK(r)'
    <3>1. leg = "principal" => future'[<<r, "operation">>] = future[<<r, "operation">>]
      BY <1>1, <2>2 DEF Calls, Legs
    <3> QED
      BY <1>1, <1>2, <3>1 DEF FreshOK, At
  <2>7. \A q \in Requests, l \in Legs : q # r => future'[<<q, l>>] = future[<<q, l>>]
    BY <2>2 DEF Calls
  <2>8. Fresh'
    BY <1>2, <2>6, <2>7, OthersStayFresh
  <2> QED
    BY <1>1, <1>2, <1>3, <2>2, <2>4, <2>5, <2>8 DEF GateInv, GateTypes
<1>5. CASE ~ (At(r) = "awaiting" /\ future[<<r, leg>>] = "queued")
  <2>1. UNCHANGED <<future, releases>>
    BY <1>5 DEF ClientGone, Call
  <2>2. Unfinished' = Unfinished /\ Fresh'
    BY <1>1, <2>1, EndedStaysFresh
  <2>3. GateOK'
    <3>1. CASE At(r) = "gate"
      <4>1. PICK s : s = Withdrawn(gate, r)
        OBVIOUS
      <4>2. r \in Present(gate)
        BY <3>1, Numbers DEF Standing
      <4>3. /\ SemaphoreOK(s) /\ Present(s) = Present(gate) \ {r}
            /\ Permits(s) = Permits(gate)
        BY <4>1, <4>2, Numbers, WithdrawnFacts
      <4>4. gate' = s
        BY <3>1, <4>1 DEF ClientGone
      <4>5. Present(s) = Standing("gate")'
        BY <1>2, <4>3, Numbers
      <4>6. Permits(s) + Cardinality(Unfinished)' + releases' = Capacity
        BY <2>1, <2>2, <4>3, Numbers
      <4> QED
        BY <4>3, <4>4, <4>5, <4>6, GateBecomes
    <3>2. CASE At(r) # "gate"
      <4>1. UNCHANGED gate
        BY <3>2 DEF ClientGone
      <4>2. Standing("gate")' = Standing("gate")
        BY <1>2, <3>2 DEF Standing
      <4> QED
        BY <2>1, <2>2, <4>1, <4>2, GateStays DEF GateInv, GateTypes
    <3> QED
      BY <3>1, <3>2
  <2> QED
    BY <1>1, <1>2, <1>3, <2>1, <2>2, <2>3 DEF GateInv, GateTypes
<1> QED
  BY <1>4, <1>5

\* The requests stay where they are.
LEMMA NobodyMoves ==
  ASSUME GateInv, UNCHANGED <<request, upload>>
  PROVE  UploadOK' /\ Standing("gate")' = Standing("gate")
<1>1. /\ Holders' = Holders /\ Standing("uploadGate")' = Standing("uploadGate")
      /\ Standing("gate")' = Standing("gate")
  BY DEF Holders, HoldsUpload, Standing, At
<1> QED
  BY <1>1, UploadStays DEF GateInv

LEMMA ReleaseKeeps ==
  ASSUME GateInv, GateAssumption, Release
  PROVE  GateInv'
<1>1. /\ releases > 0 /\ releases' = releases - 1 /\ gate' = Released(gate)
      /\ UNCHANGED <<request, upload, future, queue, lifespan>>
  BY DEF Release
<1>2. UploadOK' /\ Standing("gate")' = Standing("gate")
  BY <1>1, NobodyMoves
<1>3. Unfinished' = Unfinished /\ Fresh'
  BY <1>1 DEF Unfinished, Live, GateInv, Fresh, FreshOK, At, Call
<1>4. PICK s : s = Released(gate)
  OBVIOUS
<1>5. SemaphoreOK(s) /\ Present(s) = Present(gate) /\ Permits(s) = Permits(gate) + 1
  BY <1>4, Numbers, ReleasedFacts
<1>6. Present(s) = Standing("gate")'
  BY <1>2, <1>5, Numbers
<1>7. Permits(s) + Cardinality(Unfinished)' + releases' = Capacity /\ releases' \in Nat
  BY <1>1, <1>3, <1>5, Numbers
<1>8. GateOK'
  BY <1>1, <1>4, <1>5, <1>6, <1>7, GateBecomes
<1> QED
  BY <1>1, <1>2, <1>3, <1>7, <1>8 DEF GateInv, GateTypes

\* The steps of the pool and of the lifespan: no request moves, no gate changes.
LEMMA PoolKeeps ==
  ASSUME GateInv, GateAssumption, UNCHANGED <<request, gate, upload>>,
         future' \in [Calls -> {"none", "queued", "running", "done", "cancelled"}],
         \A c \in Calls : future[c] = "none" => future'[c] = "none",
         queue' \in Seq(Calls), releases' \in Nat, lifespan' \in {"open", "closing", "closed"},
         Cardinality(Unfinished)' + releases' = Cardinality(Unfinished) + releases
  PROVE  GateInv'
<1>1. UploadOK' /\ Standing("gate")' = Standing("gate")
  BY NobodyMoves
<1>2. GateOK'
  BY <1>1, GateStays DEF GateInv, GateTypes
<1>3. ASSUME NEW r \in Requests PROVE FreshOK(r)'
  <2>1. FreshOK(r) /\ request[r].leg \in Legs /\ <<r, request[r].leg>> \in Calls
        /\ <<r, "operation">> \in Calls
    BY DEF GateInv, Fresh, GateTypes, Calls, Legs
  <2> QED
    BY <2>1 DEF FreshOK, At, Call
<1> QED
  BY <1>1, <1>2, <1>3 DEF GateInv, GateTypes, Fresh

LEMMA TakeKeeps ==
  ASSUME GateInv, GateAssumption, Take
  PROVE  GateInv'
<1>1. /\ queue \in Seq(Calls) /\ queue # <<>> /\ queue' = Tail(queue)
      /\ future' = [future EXCEPT ![Head(queue)] = IF @ = "queued" THEN "running" ELSE @]
      /\ future \in [Calls -> {"none", "queued", "running", "done", "cancelled"}]
      /\ UNCHANGED <<request, gate, upload, releases, lifespan>>
  BY DEF Take, GateInv, GateTypes
<1>2. Head(queue) \in Calls /\ queue' \in Seq(Calls)
  BY <1>1, HeadTailProperties
<1>3. PICK c \in Calls : c = Head(queue)
  BY <1>2
<1>4. future' = [future EXCEPT ![c] = IF future[c] = "queued" THEN "running" ELSE future[c]]
  BY <1>1, <1>3
<1>5. /\ future' \in [Calls -> {"none", "queued", "running", "done", "cancelled"}]
      /\ \A d \in Calls : future[d] = "none" => future'[d] = "none"
      /\ \A d \in Calls : future'[d] \in {"queued", "running"} <=> future[d] \in {"queued", "running"}
  BY <1>1, <1>4
<1>6. Unfinished' = Unfinished
  BY <1>5 DEF Unfinished, Live, Calls
<1> QED
  BY <1>1, <1>2, <1>5, <1>6, PoolKeeps DEF GateInv, GateTypes

LEMMA FinishKeeps ==
  ASSUME GateInv, GateAssumption, NEW c \in Calls, Finish(c)
  PROVE  GateInv'
<1>1. /\ future[c] = "running" /\ future' = [future EXCEPT ![c] = "done"]
      /\ releases' = releases + 1
      /\ UNCHANGED <<request, gate, upload, queue, lifespan>>
  BY DEF Finish
<1>2. /\ future' \in [Calls -> {"none", "queued", "running", "done", "cancelled"}]
      /\ Cardinality(Unfinished)' = Cardinality(Unfinished) - 1
      /\ \A d \in Calls : d # c => future'[d] = future[d]
  BY <1>1, EndCounts DEF Live
<1>3. \A d \in Calls : future[d] = "none" => future'[d] = "none"
  BY <1>1, <1>2
<1>4. releases' \in Nat /\ Cardinality(Unfinished)' + releases' = Cardinality(Unfinished) + releases
  BY <1>1, <1>2, Numbers
<1> QED
  BY <1>1, <1>2, <1>3, <1>4, PoolKeeps DEF GateInv, GateTypes

\* The shutdown gives back as many permits as it cancels calls.
LEMMA CloseKeeps ==
  ASSUME GateInv, GateAssumption, Close
  PROVE  GateInv'
<1> DEFINE Q == {c \in Calls : future[c] = "queued"}
<1>1. /\ lifespan' = "closing" /\ queue' = <<>>
      /\ future' = [c \in Calls |-> IF future[c] = "queued" THEN "cancelled" ELSE future[c]]
      /\ releases' = releases + Cardinality(Q)
      /\ UNCHANGED <<request, gate, upload>>
      /\ future \in [Calls -> {"none", "queued", "running", "done", "cancelled"}]
  BY DEF Close, GateInv, GateTypes
<1>2. /\ future' \in [Calls -> {"none", "queued", "running", "done", "cancelled"}]
      /\ \A c \in Calls : future[c] = "none" => future'[c] = "none"
  BY <1>1
<1>3. /\ Unfinished' \cup Q = Unfinished /\ Unfinished' \cap Q = {}
  BY <1>1 DEF Unfinished, Live, Calls
<1>4. /\ IsFiniteSet(Unfinished') /\ Cardinality(Unfinished') \in Nat
      /\ IsFiniteSet(Q) /\ Cardinality(Q) \in Nat
  <2>1. Unfinished' \in SUBSET Unfinished /\ Q \in SUBSET Unfinished
    BY <1>3
  <2> HIDE DEF Q
  <2> QED
    BY <2>1, Counts, FS_Subset, FS_CardinalityType
<1> HIDE DEF Q
<1>5. Cardinality(Unfinished) = Cardinality(Unfinished') + Cardinality(Q)
  BY <1>3, <1>4, FS_Union, FS_EmptySet
<1>6. releases' \in Nat /\ Cardinality(Unfinished)' + releases' = Cardinality(Unfinished) + releases
  <2>1. releases' = releases + Cardinality(Q)
    BY <1>1
  <2>2. releases \in Nat
    BY Numbers
  <2> QED
    BY <1>4, <1>5, <2>1, <2>2
<1>7. queue' \in Seq(Calls)
  BY <1>1
<1> QED
  BY <1>1, <1>2, <1>6, <1>7, PoolKeeps

LEMMA ClosedKeeps ==
  ASSUME GateInv, GateAssumption, Closed
  PROVE  GateInv'
<1>1. /\ lifespan' = "closed" /\ UNCHANGED <<request, gate, upload, future, queue, releases>>
      /\ Unfinished' = Unfinished
  BY DEF Closed, Unfinished, Live
<1> QED
  BY <1>1, PoolKeeps DEF GateInv, GateTypes

LEMMA GateStutterKeeps ==
  ASSUME GateInv, GateAssumption, UNCHANGED gateVars
  PROVE  GateInv'
<1>1. UNCHANGED gateVars /\ Unfinished' = Unfinished
  BY DEF gateVars, Unfinished, Live
<1> QED
  BY <1>1, PoolKeeps DEF GateInv, GateTypes, gateVars

-----------------------------------------------------------------------------
(* The theorems.                                                            *)

THEOREM GateInitInv ==
  ASSUME GateAssumption
  PROVE  GateInit => GateInv
<1> SUFFICES ASSUME GateInit PROVE GateInv
  OBVIOUS
<1>1. GateTypes /\ Fresh
  BY DEF GateInit, GateTypes, Fresh, FreshOK, At, Call, Calls, Legs, Places
<1>2. Unfinished = {} /\ Holders = {} /\ Standing("gate") = {} /\ Standing("uploadGate") = {}
  BY DEF GateInit, Unfinished, Live, Calls, Holders, HoldsUpload, Standing, At
<1>3. Capacity \in Nat /\ UploadConcurrency \in Nat
  BY DEF Capacity, GateAssumption
<1>4. ASSUME NEW n \in Nat
      PROVE  /\ SemaphoreOK(Semaphore(n)) /\ Present(Semaphore(n)) = {}
             /\ Permits(Semaphore(n)) = n
  <2>1. Semaphore(n) \in Semaphores
    BY DEF Semaphore, Semaphores
  <2>2. Range(<<>>) = {}
    BY DEF Range
  <2> QED
    BY <2>1, <2>2, FS_EmptySet DEF Semaphore, SemaphoreOK, Present, Permits
<1>5. gate = Semaphore(Capacity) /\ upload = Semaphore(UploadConcurrency) /\ releases = 0
  BY DEF GateInit
<1>6. GateOK /\ UploadOK
  BY <1>2, <1>3, <1>4, <1>5, FS_EmptySet DEF GateOK, UploadOK
<1> QED
  BY <1>1, <1>6 DEF GateInv

THEOREM GateInvStep ==
  ASSUME GateAssumption
  PROVE  GateInv /\ [GateNext]_gateVars => GateInv'
<1> SUFFICES ASSUME GateInv, [GateNext]_gateVars PROVE GateInv'
  OBVIOUS
<1>1. ASSUME NEW r \in Requests,
             \/ Arrive(r) \/ Pass(r) \/ PrincipalKnown(r) \/ PassUpload(r)
             \/ ReadBody(r) \/ ReadTimeout(r) \/ Respond(r) \/ ClientGone(r)
      PROVE  GateInv'
  BY <1>1, ArriveKeeps, PassKeeps, PrincipalKnownKeeps, PassUploadKeeps, ReadBodyKeeps,
     ReadTimeoutKeeps, AnswerKeeps, ClientGoneKeeps
<1>2. CASE Release \/ Take \/ Close \/ Closed
  BY <1>2, ReleaseKeeps, TakeKeeps, CloseKeeps, ClosedKeeps
<1>3. ASSUME NEW c \in Calls, Finish(c) PROVE GateInv'
  BY <1>3, FinishKeeps
<1>4. CASE UNCHANGED gateVars
  BY <1>4, GateStutterKeeps
<1> QED
  BY <1>1, <1>2, <1>3, <1>4 DEF GateNext

\* Every reachable state of the gates satisfies the invariant.
THEOREM GateInvariance ==
  ASSUME GateAssumption
  PROVE  GateSpec => []GateInv
<1>1. GateInit => GateInv
  BY GateInitInv
<1>2. GateInv /\ [GateNext]_gateVars => GateInv'
  BY GateInvStep
<1> QED
  BY <1>1, <1>2, PTL DEF GateSpec

\* Every slot of the executor and of the upload gate is free, handed to one
\* waiter, held by one call that has not finished, or on its way back: none is
\* lost or given back twice, however clients go away and the application
\* closes, and none lies idle while a request waits for it.
THEOREM Slots ==
  ASSUME GateAssumption
  PROVE  GateSpec => []SlotsAreAccounted
<1>1. GateInv => SlotsAreAccounted
  <2> SUFFICES ASSUME GateInv PROVE SlotsAreAccounted
    OBVIOUS
  <2>1. ASSUME NEW s, SemaphoreOK(s)
        PROVE  /\ s.free \in Nat /\ s.granted \subseteq Requests
               /\ Range(s.waiters) \subseteq Requests
               /\ Cardinality(s.granted) \in Nat
               /\ s.free > 0 => s.waiters = <<>>
    BY <2>1, GrantedCount, RangeOfSeq DEF SemaphoreOK, Semaphores
  <2>2. /\ gate.free + Cardinality(gate.granted) + Cardinality(Unfinished) + releases = Capacity
        /\ upload.free + Cardinality(upload.granted) + Cardinality(Holders) = UploadConcurrency
    BY Numbers DEF Permits
  <2>3. gate.free \in 0 .. Capacity /\ upload.free \in 0 .. UploadConcurrency
    <3>1. /\ gate.free \in Nat /\ Cardinality(gate.granted) \in Nat
          /\ upload.free \in Nat /\ Cardinality(upload.granted) \in Nat
      BY <2>1, Numbers
    <3>2. UploadConcurrency \in Nat /\ Capacity \in Nat
      BY Numbers DEF GateAssumption
    <3> QED
      BY <2>2, <3>1, <3>2, Numbers
  <2>4. Range(upload.waiters) \subseteq Uploads
    <3>1. Present(upload) = Standing("uploadGate")
      BY Numbers
    <3>2. ASSUME NEW r \in Standing("uploadGate") PROVE r \in Uploads
      BY DEF GateInv, Fresh, FreshOK, Standing
    <3> QED
      BY <3>1, <3>2 DEF Present
  <2>5. GateTypeOK
    <3>1. request \in [Requests -> [at : {"new", "gate", "awaiting", "uploadGate", "body", "ended"},
                                    leg : Legs]]
      BY DEF GateInv, GateTypes, Places
    <3>2. gate.granted \subseteq Requests /\ Range(gate.waiters) \subseteq Requests
          /\ upload.granted \subseteq Requests
      BY <2>1, Numbers
    <3> QED
      BY <2>3, <2>4, <3>1, <3>2 DEF GateTypeOK, GateInv, GateTypes
  <2>6. (gate.free > 0 => gate.waiters = <<>>) /\ (upload.free > 0 => upload.waiters = <<>>)
    BY <2>1, Numbers
  <2> QED
    BY <2>2, <2>5, <2>6 DEF SlotsAreAccounted, Holders
<1> QED
  BY <1>1, GateInvariance, PTL
=============================================================================
