---------------------------- MODULE AddinProofs ----------------------------
(***************************************************************************)
(* Machine-checked proofs about the execution of an approved edit by the   *)
(* add-in, for any panes, edits, attempts and user actions, whatever the   *)
(* network and the coauthors do.                                           *)
(*                                                                         *)
(* The argument.  A user action has a number of its own, and a pane works  *)
(* on one at a time (Alone).  Each call names its action and its stage, so *)
(* a copy that comes late can only do again what its key has done          *)
(* (ReceiptOK), and the pane knows which of its calls were never made      *)
(* (Unsent): while it is about to write nobody has reported, and after an  *)
(* ordinary failure nobody will start.  owner[a] is the edit of action a.  *)
(* The last part is about the host sessions its requests come through.     *)
(***************************************************************************)
EXTENDS HostedAddin, SequenceTheorems, TLAPS

TheBook == Binding.book
Actions == 1 .. MaxActions
Outcomes == {"applied", "indeterminate", "stale_precondition"}
CallPcs == {"claim", "start", "abort", "publish"} \cup Outcomes
\* The steps of an action that holds a claim, and of one that publishes.
Executing == {"read", "start", "reread", "write", "readback", "witness", "abort"} \cup Outcomes
Publishing == {"save", "publish", "lookup", "resume"}

Started  == {"apply_started", "session_verified", "indeterminate", "verification_failed"}
Reported == {"session_verified", "indeterminate", "verification_failed"}

Content == Edit \cup {Base, Other}
Calls == [to : Pane, request : Commands, n : 1 .. MaxNetworkAttempts]
Documents ==
  [state : EditStates \cup {"absent"}, binding : {None, Binding}, exec : Key \cup {None},
   fence : Nat, required : BOOLEAN, publication : {0, 2}]
PaneRecords ==
  [pc : PaneStates, loaded : EditStates \cup {None}, id : Edit \cup {None},
   action : 0 .. MaxActions, exec : Key \cup {None}, request : Commands \cup {None},
   n : 0 .. MaxNetworkAttempts, reply : Replies \cup {None}, outcome : Outcomes \cup {None},
   after : Content \cup {None}, result : {"failed", "uncertain", "done", None}]

Types ==
  /\ edit \in [Key -> Documents]
  /\ holder \in [Book -> Key \cup {None}] /\ fence \in [Book -> Nat] /\ head \in [Book -> Nat]
  /\ receipts \in [Key -> Receipts \cup {None}]
  /\ cells \in [Book -> Content] /\ saved \in [Book -> Seq(Content)]
  /\ written \in [Edit -> Nat]
  /\ pane \in [Pane -> PaneRecords]
  /\ wire \subseteq Calls
  /\ actions \in 0 .. MaxActions

Unsent(a, s, w) == receipts[<<a, s>>] = None /\ \A m \in w : m.request.key # <<a, s>>

-----------------------------------------------------------------------------
(* The invariant, of the edit of each action.                               *)

\* Edit i is in action a.
Executed(owner, i, a) == owner[a] = i /\ edit[i].exec = <<a, "claim">>

EditOK(owner, i) ==
  LET doc == edit[i] IN
  /\ doc.binding = Binding /\ doc.state # "absent"
  /\ doc.state = "approved" <=> doc.exec = None
  /\ doc.exec # None => doc.required = Required
  /\ doc.exec # None => \E a \in 1 .. actions :
       /\ Executed(owner, i, a)
       /\ doc.state \in Started => receipts[<<a, "start">>] # None
       /\ doc.state \in Reported => \/ receipts[<<a, "applied">>] # None
                                  \/ receipts[<<a, "indeterminate">>] # None
  /\ doc.state \in {"claimed", "apply_started"} => holder[TheBook] = doc.exec
  /\ written[i] <= IF doc.state \in Started THEN 1 ELSE 0
  /\ doc.state = "session_verified" => written[i] = 1
  /\ doc.publication # 0 => /\ doc.state = "session_verified"
                          /\ Len(saved[TheBook]) >= 2 /\ saved[TheBook][2] = i

\* What a receipt says stays so.
ReceiptOK(owner, a, s) ==
  LET told == receipts[<<a, s>>]
      doc == edit[owner[a]]
  IN told # None =>
     /\ a <= actions
     /\ s # "publish" => doc.exec = <<a, "claim">>
     /\ s = "start" => doc.state \in Started
     /\ s = "abort" => doc.state = "aborted_before_apply"
     /\ s \in Outcomes => told.state = doc.state /\ doc.state \in Reported \cup {"stale_precondition"}
     /\ s = "publish" => doc.state = "session_verified" /\ doc.publication # 0

CallOK(owner, r) ==
  \E a \in 1 .. actions, s \in Stages :
    /\ r.key = <<a, s>> /\ r.id = owner[a] /\ r.required = Required
    /\ r.op = "claim_execution" => s = "claim"
    /\ r.op = "mark_apply_started" => s = "start"
    /\ r.op = "abort_claim" => s = "abort"
    /\ r.op = "verify_execution" => s \in Outcomes /\ r.witness.outcome = s
    /\ r.op = "publish_verified_snapshot" => s = "publish"
    /\ s \notin {"claim", "publish"} => r.exec = <<a, "claim">>
    /\ s = "applied" => written[r.id] = 1
    /\ s = "publish" => edit[r.id].state = "session_verified" /\ edit[r.id].exec = r.exec

-----------------------------------------------------------------------------
(* What a pane in state r knows, with the calls w on the wire and the       *)
(* actions that are at work.                                                *)

\* What it shows.
ShownOK(r) ==
  /\ r.loaded # None => r.id \in Edit
  /\ r.loaded = "session_verified" =>
       /\ edit[r.id].state = "session_verified"
       /\ r.result = "done" /\ edit[r.id].required => edit[r.id].publication # 0

\* An ordinary failure leaves a claim that will never start, or one that is given
\* back.
FailureOK(r, w, work) ==
  r.result = "failed" /\ r.exec # None =>
    /\ r.id \in Edit /\ edit[r.id].exec = r.exec
    /\ \/ edit[r.id].state \in {"aborted_before_apply", "stale_precondition", "session_verified"}
       \/ /\ edit[r.id].state = "claimed"
          /\ \E a \in 1 .. actions :
               r.exec = <<a, "claim">> /\ Unsent(a, "start", w) /\ a \notin work

\* The call it waits for and the answer to it.
WaitingOK(owner, r) ==
  /\ r.request # None <=> r.pc \in CallPcs
  /\ r.n > 0 <=> r.pc \in CallPcs
  /\ r.request # None => CallOK(owner, r.request) /\ r.request.key = <<r.action, r.pc>>
  /\ r.request # None /\ r.reply # None /\ r.reply.ok =>
       receipts[<<r.action, r.pc>>] # None /\ r.reply.state = receipts[<<r.action, r.pc>>].state

Unstarted(r) ==
  \/ r.pc \in {"workflow", "claim", "read", "stale_precondition"}
  \/ r.pc = "witness" /\ r.outcome = None

WorkOK(owner, r, w) ==
  /\ r.pc = "idle" => r.action = 0
  /\ r.pc # "idle" => /\ r.id \in Edit /\ r.action \in 1 .. actions /\ owner[r.action] = r.id
                      /\ r.result = None
  /\ r.pc \in {"workflow", "claim"} => r.exec = None
  /\ r.pc \in Executing => r.exec = <<r.action, "claim">> /\ receipts[<<r.action, "claim">>] # None
  /\ r.pc = "read" => r.outcome = None
  /\ Unstarted(r) => Unsent(r.action, "start", w)
  /\ r.pc \in {"workflow", "claim", "read", "start", "reread", "write"} =>
       Unsent(r.action, "applied", w) /\ Unsent(r.action, "indeterminate", w)
  /\ r.pc \in {"read", "start", "reread", "write"} => written[r.id] = 0
  /\ r.pc \in {"reread", "write"} => receipts[<<r.action, "start">>] # None
  /\ r.pc = "readback" \/ (r.pc = "witness" /\ r.outcome = "applied") => written[r.id] = 1
  /\ r.pc \in Publishing =>
       edit[r.id].state = "session_verified" /\ edit[r.id].exec = r.exec

PaneOK(owner, r, w, work) ==
  ShownOK(r) /\ FailureOK(r, w, work) /\ WaitingOK(owner, r) /\ WorkOK(owner, r, w)

\* The actions that are at work; no two panes work on one.
InWork == {pane[p].action : p \in Pane}
Alone == \A p, q \in Pane : pane[p].action = pane[q].action /\ pane[p].action # 0 => p = q

Holding(owner) ==
  /\ \A i \in Edit : EditOK(owner, i)
  /\ \A a \in Actions, s \in Stages : ReceiptOK(owner, a, s)
  /\ \A m \in wire : CallOK(owner, m.request)
  /\ \A p \in Pane : PaneOK(owner, pane[p], wire, InWork)
  /\ Alone

Inv == Types /\ \E owner \in [Actions -> Edit] : Holding(owner)

-----------------------------------------------------------------------------
(* Facts about the constants and about a pane.                              *)

\* The binding of the edits names a workbook and a session.
LEMMA BindingFacts ==
  TheBook \in Book /\ Binding.session \in Session /\ Binding.rev = 1
BY OfficeAssumption DEF TheBook, Binding

\* A call of an action has a key.
LEMMA KeyFacts ==
  ASSUME NEW a \in Actions, NEW s \in Stages
  PROVE  <<a, s>> \in Key
BY OfficeAssumption DEF Actions

\* Action numbers count from one.
LEMMA ActionFacts ==
  ASSUME Types
  PROVE  /\ actions \in Nat /\ MaxActions \in Nat /\ MaxNetworkAttempts \in Nat \ {0}
         /\ \A a \in 1 .. actions : a \in Actions /\ a # 0
BY OfficeAssumption DEF Types, Actions

\* A key tells its action and its stage.
LEMMA KeysDiffer ==
  ASSUME NEW a, NEW b, NEW s, NEW t, <<a, s>> = <<b, t>>
  PROVE  a = b /\ s = t
OBVIOUS

\* A pane with no action is well typed.
LEMMA IdleType == Idle \in PaneRecords
<1>1. 0 \in 0 .. MaxActions /\ 0 \in 0 .. MaxNetworkAttempts
  BY OfficeAssumption
<1> QED  BY <1>1 DEF PaneRecords, Idle, PaneStates

\* What holds of a pane.
LEMMA PaneFacts ==
  ASSUME Types, NEW owner, Holding(owner), NEW p \in Pane
  PROVE  pane[p] \in PaneRecords /\ PaneOK(owner, pane[p], wire, InWork)
BY DEF Types, Holding

\* Only pane p changes.
Moved(p) ==
  /\ pane' \in [Pane -> PaneRecords]
  /\ \A q \in Pane \ {p} : pane'[q] = pane[q]

\* Saved revisions stay.
SavedGrows ==
  /\ saved' \in [Book -> Seq(Content)]
  /\ \A b \in Book : Len(saved[b]) >= 2 => Len(saved'[b]) >= 2 /\ saved'[b][2] = saved[b][2]

\* Nothing is saved.
LEMMA SavedKept ==
  ASSUME Types, UNCHANGED saved
  PROVE  SavedGrows
BY DEF Types, SavedGrows

\* A save adds a revision and leaves the earlier ones.
LEMMA SavedAppended ==
  ASSUME Types, NEW b \in Book, NEW x \in Content,
         saved' = [saved EXCEPT ![b] = Append(@, x)]
  PROVE  SavedGrows
<1>1. saved' \in [Book -> Seq(Content)]
  BY DEF Types
<1>2. ASSUME NEW c \in Book, Len(saved[c]) >= 2
      PROVE  Len(saved'[c]) >= 2 /\ saved'[c][2] = saved[c][2]
  <2>1. saved[c] \in Seq(Content)
    BY DEF Types
  <2>2. CASE c = b
    <3>1. saved'[c] = Append(saved[c], x)
      BY <2>2 DEF Types
    <3> QED  BY <1>2, <2>1, <3>1
  <2>3. CASE c # b
    BY <1>2, <2>3 DEF Types
  <2> QED  BY <2>2, <2>3
<1> QED  BY <1>1, <1>2 DEF SavedGrows

-----------------------------------------------------------------------------
(* A step of a pane that calls nobody, or makes one call.                   *)

\* What is on the wire was there or is a call of pane p.
Sent(owner, p) ==
  \A m \in wire' :
    \/ m \in wire
    \/ /\ m \in Calls /\ CallOK(owner, m.request)
       /\ \E s \in Stages : m.request.key = <<pane[p].action, s>>
       /\ pane[p].action \in 1 .. actions

\* Another pane is at work on another action, and knows what it knew.
LEMMA UnsentKept ==
  ASSUME Types, NEW owner, Holding(owner), NEW p \in Pane, Sent(owner, p),
         NEW a \in 1 .. actions, NEW s \in Stages, a # pane[p].action,
         Unsent(a, s, wire)
  PROVE  Unsent(a, s, wire')
BY DEF Sent, Unsent

\* What another pane knows outlives the calls of pane p.
LEMMA OtherPane ==
  ASSUME Types, NEW owner, Holding(owner), NEW p \in Pane, Sent(owner, p), Moved(p),
         pane'[p].action \in {0, pane[p].action},
         NEW q \in Pane, q # p
  PROVE  PaneOK(owner, pane[q], wire', InWork')
<1> DEFINE r == pane[q]
<1>1. r \in PaneRecords /\ PaneOK(owner, r, wire, InWork)
  BY PaneFacts
<1>2. r.action # 0 => r.action # pane[p].action
  BY DEF Holding, Alone
<1>3. FailureOK(r, wire', InWork')
  <2> SUFFICES ASSUME r.result = "failed", r.exec # None
               PROVE  \/ edit[r.id].state \in {"aborted_before_apply", "stale_precondition",
                                               "session_verified"}
                      \/ /\ edit[r.id].state = "claimed"
                         /\ \E a \in 1 .. actions :
                              r.exec = <<a, "claim">> /\ Unsent(a, "start", wire') /\ a \notin InWork'
    BY <1>1 DEF PaneOK, FailureOK
  <2>1. CASE edit[r.id].state \in {"aborted_before_apply", "stale_precondition",
                                   "session_verified"}
    BY <2>1
  <2>2. CASE edit[r.id].state = "claimed"
    <3>1. PICK a \in 1 .. actions :
            r.exec = <<a, "claim">> /\ Unsent(a, "start", wire) /\ a \notin InWork
      BY <1>1, <2>2 DEF PaneOK, FailureOK
    <3>2. a # pane[p].action
      BY <3>1 DEF InWork
    <3>3. a \notin InWork'
      <4> SUFFICES ASSUME NEW x \in Pane, pane'[x].action = a
                   PROVE  FALSE
        BY DEF InWork
      <4>1. CASE x = p
        <5>1. a # 0
          BY DEF Types
        <5> QED  BY <4>1, <5>1, <3>2
      <4>2. CASE x # p
        BY <4>2, <3>1 DEF InWork, Moved
      <4> QED  BY <4>1, <4>2
    <3>4. Unsent(a, "start", wire')
      BY <3>1, <3>2, UnsentKept DEF Stages
    <3> QED  BY <2>2, <3>1, <3>3, <3>4
  <2> QED  BY <1>1, <2>1, <2>2 DEF PaneOK, FailureOK
<1>4. ASSUME NEW s \in Stages, Unsent(r.action, s, wire), r.pc # "idle"
      PROVE  Unsent(r.action, s, wire')
  <2>1. r.action \in 1 .. actions /\ r.action # 0
    BY <1>1, <1>4 DEF PaneOK, WorkOK, Types
  <2> QED  BY <1>2, <1>4, <2>1, UnsentKept
<1>5. WorkOK(owner, r, wire')
  <2>1. Unstarted(r) => Unsent(r.action, "start", wire')
    BY <1>1, <1>4 DEF PaneOK, WorkOK, Unstarted, Stages
  <2>2. r.pc \in {"workflow", "claim", "read", "start", "reread", "write"} =>
          Unsent(r.action, "applied", wire') /\ Unsent(r.action, "indeterminate", wire')
    BY <1>1, <1>4 DEF PaneOK, WorkOK, Stages
  <2>3. WorkOK(owner, r, wire)
    BY <1>1 DEF PaneOK
  <2> QED  BY <2>1, <2>2, <2>3 DEF WorkOK
<1> QED  BY <1>1, <1>3, <1>5 DEF PaneOK

\* A step that only pane p, its calls, the cells and the saved revisions take part
\* in keeps the invariant if p knows what its next step needs.
LEMMA PaneMoves ==
  ASSUME Types, NEW owner, Holding(owner), NEW p \in Pane, Sent(owner, p), Moved(p),
         UNCHANGED <<avars, written, actions>>, cells' \in [Book -> Content], SavedGrows,
         pane'[p].action \in {0, pane[p].action},
         PaneOK(owner, pane'[p], wire', InWork')
  PROVE  Types' /\ Holding(owner)'
<1>1. wire' \subseteq Calls
  BY DEF Sent, Types
<1>2. Types'
  BY <1>1 DEF Types, Moved, SavedGrows, avars
<1>3. ASSUME NEW i \in Edit
      PROVE  EditOK(owner, i)'
  <2>1. EditOK(owner, i)
    BY DEF Holding
  <2>2. Len(saved[TheBook]) >= 2 =>
          Len(saved'[TheBook]) >= 2 /\ saved'[TheBook][2] = saved[TheBook][2]
    BY BindingFacts DEF SavedGrows
  <2> QED  BY <2>1, <2>2 DEF EditOK, Executed, avars
<1>4. ASSUME NEW a \in Actions, NEW s \in Stages
      PROVE  ReceiptOK(owner, a, s)'
  <2>1. ReceiptOK(owner, a, s)
    BY DEF Holding
  <2> QED  BY <2>1 DEF ReceiptOK, avars
<1>5. ASSUME NEW r
      PROVE  CallOK(owner, r) => CallOK(owner, r)'
  BY DEF CallOK, avars
<1>6. \A m \in wire' : CallOK(owner, m.request)'
  BY <1>5 DEF Sent, Holding
<1>7. ASSUME NEW q \in Pane
      PROVE  PaneOK(owner, pane[q], wire, InWork)'
  <2>1. PaneOK(owner, pane'[q], wire', InWork')
    BY OtherPane DEF Moved
  <2>2. ShownOK(pane[q])'
    BY <2>1 DEF PaneOK, ShownOK, avars
  <2>3. FailureOK(pane[q], wire, InWork)'
    BY <2>1 DEF PaneOK, FailureOK, Unsent, avars
  <2>4. WaitingOK(owner, pane[q])'
    BY <2>1, <1>5 DEF PaneOK, WaitingOK, avars
  <2>5. WorkOK(owner, pane[q], wire)'
    BY <2>1 DEF PaneOK, WorkOK, Unsent, Unstarted, avars
  <2> QED  BY <2>2, <2>3, <2>4, <2>5 DEF PaneOK
<1>8. Alone'
  <2> SUFFICES ASSUME NEW x \in Pane, NEW y \in Pane,
                      pane'[x].action = pane'[y].action, pane'[x].action # 0
               PROVE  x = y
    BY DEF Alone
  <2> QED  BY DEF Alone, Holding, Moved
<1> QED  BY <1>2, <1>3, <1>4, <1>6, <1>7, <1>8 DEF Holding

\* No call is made.
LEMMA NoCall ==
  ASSUME NEW owner, NEW p \in Pane, UNCHANGED wire
  PROVE  Sent(owner, p)
BY DEF Sent

\* Only pane p changes.
LEMMA Moves ==
  ASSUME Types, NEW p \in Pane, NEW n \in PaneRecords, pane' = [pane EXCEPT ![p] = n]
  PROVE  Moved(p) /\ pane'[p] = n
BY DEF Types, Moved

\* An action goes on.
LEMMA Continues ==
  ASSUME Types, NEW owner, Holding(owner), NEW p \in Pane, Sent(owner, p), Moved(p),
         UNCHANGED <<avars, written, actions>>, cells' \in [Book -> Content], SavedGrows,
         pane[p].pc # "idle",
         pane'[p].id = pane[p].id, pane'[p].action = pane[p].action,
         pane'[p].loaded = pane[p].loaded, pane'[p].result = pane[p].result,
         WaitingOK(owner, pane'[p]), WorkOK(owner, pane'[p], wire')
  PROVE  Types' /\ Holding(owner)'
<1>1. PaneOK(owner, pane[p], wire, InWork)
  BY PaneFacts
<1>2. ShownOK(pane'[p])
  BY <1>1 DEF PaneOK, ShownOK
<1>3. pane'[p].result # "failed"
  BY <1>1, NothingAssumption DEF PaneOK, WorkOK
<1>4. FailureOK(pane'[p], wire', InWork')
  BY <1>3 DEF FailureOK
<1> QED  BY <1>2, <1>4, PaneMoves DEF PaneOK

\* An action ends, or none begins.
LEMMA Ends ==
  ASSUME Types, NEW owner, Holding(owner), NEW p \in Pane, Moved(p),
         UNCHANGED <<avars, written, actions, wire>>, cells' \in [Book -> Content], SavedGrows,
         pane'[p].pc = "idle", pane'[p].action = 0, pane'[p].request = None, pane'[p].n = 0,
         ShownOK(pane'[p]), FailureOK(pane'[p], wire', InWork')
  PROVE  Types' /\ Holding(owner)'
<1>1. WaitingOK(owner, pane'[p])
  BY DEF WaitingOK, CallPcs, Outcomes
<1>2. WorkOK(owner, pane'[p], wire')
  BY DEF WorkOK, Unstarted, Executing, Publishing, Outcomes
<1> QED  BY <1>1, <1>2, NoCall, PaneMoves DEF PaneOK

\* The claim of an action that was never started.
LEMMA NotStarted ==
  ASSUME Types, NEW owner, Holding(owner), NEW i \in Edit, NEW a \in 1 .. actions,
         edit[i].exec = <<a, "claim">>, Unsent(a, "start", wire)
  PROVE  edit[i].state \in {"claimed", "aborted_before_apply", "stale_precondition"}
<1>1. a \in Actions
  BY ActionFacts
<1>2. edit[i].exec # None
  BY <1>1, KeyFacts, NothingAssumption DEF Stages
<1>3. EditOK(owner, i)
  BY DEF Holding
<1>4. edit[i].state \in EditStates
  BY <1>3, OfficeAssumption DEF Types, Documents, EditOK
<1>5. edit[i].state \notin Started
  <2>1. PICK b \in 1 .. actions :
          Executed(owner, i, b) /\ (edit[i].state \in Started => receipts[<<b, "start">>] # None)
    BY <1>2, <1>3 DEF EditOK
  <2>2. b = a
    BY <2>1, KeysDiffer DEF Executed
  <2> QED  BY <2>1, <2>2 DEF Unsent
<1> QED  BY <1>2, <1>3, <1>4, <1>5 DEF EditOK, EditStates, Started

\* The same of the action of a pane that has not asked for the start.
LEMMA NeverStarts ==
  ASSUME Types, NEW owner, Holding(owner), NEW p \in Pane, pane[p].pc \in Executing,
         Unstarted(pane[p]), edit[pane[p].id].exec = pane[p].exec
  PROVE  /\ edit[pane[p].id].state \in {"claimed", "aborted_before_apply", "stale_precondition"}
         /\ pane[p].exec = <<pane[p].action, "claim">>
         /\ pane[p].action \in 1 .. actions
         /\ Unsent(pane[p].action, "start", wire)
<1> DEFINE r == pane[p]
<1>1. WorkOK(owner, r, wire)
  BY PaneFacts DEF PaneOK
<1>2. /\ r.id \in Edit /\ r.action \in 1 .. actions /\ r.exec = <<r.action, "claim">>
      /\ Unsent(r.action, "start", wire)
  BY <1>1 DEF WorkOK, Executing, Outcomes
<1> QED  BY <1>2, NotStarted

\* The execution that a pane works for is the one of its edit.
LEMMA KnownExecution ==
  ASSUME Types, NEW owner, Holding(owner), NEW p \in Pane,
         pane[p].pc \in Executing \cup Publishing
  PROVE  pane[p].id \in Edit /\ edit[pane[p].id].exec = pane[p].exec
<1>1. WorkOK(owner, pane[p], wire)
  BY PaneFacts DEF PaneOK
<1>2. pane[p].id \in Edit
  BY <1>1 DEF WorkOK, Executing, Publishing, Outcomes
<1>3. CASE pane[p].pc \in Executing
  <2> DEFINE a == pane[p].action
  <2>1. /\ a \in 1 .. actions /\ owner[a] = pane[p].id
        /\ pane[p].exec = <<a, "claim">> /\ receipts[<<a, "claim">>] # None
    BY <1>1, <1>3 DEF WorkOK, Executing, Outcomes
  <2>2. ReceiptOK(owner, a, "claim")
    BY <2>1, ActionFacts DEF Holding, Stages
  <2> QED  BY <1>2, <2>1, <2>2 DEF ReceiptOK
<1>4. CASE pane[p].pc \in Publishing
  BY <1>1, <1>2, <1>4 DEF WorkOK
<1> QED  BY <1>3, <1>4

\* The end of a failed action: an ordinary failure tells that nothing was started, or
\* that what was is over.
LEMMA Settled ==
  ASSUME Types, NEW owner, Holding(owner), NEW p \in Pane, pane[p].pc # "idle",
         UNCHANGED <<avars, written, actions, wire>>, cells' \in [Book -> Content], SavedGrows,
         NEW result \in {"failed", "uncertain"}, Settle(p, result),
         result = "failed" =>
           \/ pane[p].exec = None
           \/ /\ pane[p].pc \in Executing \cup Publishing
              /\ edit[pane[p].id].state \in {"aborted_before_apply", "session_verified"}
           \/ pane[p].pc \in Executing /\ Unstarted(pane[p])
  PROVE  Types' /\ Holding(owner)'
<1> DEFINE r == pane[p]
           n == [Idle EXCEPT !.id = r.id, !.exec = r.exec, !.result = result]
<1>1. r \in PaneRecords /\ PaneOK(owner, r, wire, InWork)
  BY PaneFacts
<1>2. n \in PaneRecords
  BY <1>1, IdleType DEF PaneRecords
<1>3. Moved(p) /\ pane'[p] = n
  BY <1>2, Moves DEF Settle
<1>4. /\ pane'[p].pc = "idle" /\ pane'[p].action = 0 /\ pane'[p].request = None /\ pane'[p].n = 0
      /\ pane'[p].loaded = None /\ pane'[p].id = r.id /\ pane'[p].exec = r.exec
      /\ pane'[p].result = result
  BY <1>3 DEF Idle
<1>5. ShownOK(pane'[p])
  BY <1>4, NothingAssumption DEF ShownOK, EditStates
<1>6. FailureOK(pane'[p], wire', InWork')
  <2>3. result = "failed" /\ r.exec # None => r.id \in Edit /\ edit[r.id].exec = r.exec
    BY KnownExecution
  <2> SUFFICES ASSUME result = "failed", r.exec # None
               PROVE  \/ edit[r.id].state \in {"aborted_before_apply", "stale_precondition",
                                               "session_verified"}
                      \/ /\ edit[r.id].state = "claimed"
                         /\ \E a \in 1 .. actions :
                              r.exec = <<a, "claim">> /\ Unsent(a, "start", wire') /\ a \notin InWork'
    BY <1>4, <2>3 DEF FailureOK
  <2>1. CASE edit[r.id].state \in {"aborted_before_apply", "session_verified"}
    BY <2>1
  <2>2. CASE r.pc \in Executing /\ Unstarted(r)
    <3>1. /\ edit[r.id].state \in {"claimed", "aborted_before_apply", "stale_precondition"}
          /\ r.exec = <<r.action, "claim">>
          /\ r.action \in 1 .. actions /\ Unsent(r.action, "start", wire)
      BY <2>2, <2>3, NeverStarts
    <3>2. r.action \in 1 .. actions => r.action \notin InWork'
      <4> SUFFICES ASSUME r.action \in 1 .. actions, NEW x \in Pane, pane'[x].action = r.action
                   PROVE  FALSE
        BY DEF InWork
      <4>1. r.action # 0
        BY DEF Types
      <4>2. x # p
        BY <4>1, <1>4
      <4>3. pane[x].action = pane[p].action
        BY <4>2, <1>3 DEF Moved
      <4> QED  BY <4>1, <4>2, <4>3 DEF Holding, Alone
    <3> QED  BY <3>1, <3>2
  <2> QED  BY <2>1, <2>2
<1> QED  BY <1>3, <1>4, <1>5, <1>6, Ends

\* The end of an action whose verdict is shown.
LEMMA Finished ==
  ASSUME Types, NEW owner, Holding(owner), NEW p \in Pane, pane[p].pc # "idle",
         UNCHANGED <<avars, written, actions, wire>>, cells' \in [Book -> Content], SavedGrows,
         NEW shown \in EditStates, Finish(p, shown),
         shown = "session_verified" =>
           /\ edit[pane[p].id].state = "session_verified"
           /\ edit[pane[p].id].required => edit[pane[p].id].publication # 0
  PROVE  Types' /\ Holding(owner)'
<1> DEFINE r == pane[p]
           n == [Idle EXCEPT !.id = r.id, !.exec = r.exec, !.result = "done", !.loaded = shown]
<1>1. r \in PaneRecords /\ PaneOK(owner, r, wire, InWork)
  BY PaneFacts
<1>2. n \in PaneRecords
  BY <1>1, IdleType DEF PaneRecords
<1>3. Moved(p) /\ pane'[p] = n
  BY <1>2, Moves DEF Finish
<1>4. /\ pane'[p].pc = "idle" /\ pane'[p].action = 0 /\ pane'[p].request = None /\ pane'[p].n = 0
      /\ pane'[p].loaded = shown /\ pane'[p].id = r.id /\ pane'[p].result = "done"
  BY <1>3 DEF Idle
<1>5. r.id \in Edit
  BY <1>1 DEF PaneOK, WorkOK
<1>6. ShownOK(pane'[p]) /\ FailureOK(pane'[p], wire', InWork')
  BY <1>4, <1>5 DEF ShownOK, FailureOK
<1> QED  BY <1>3, <1>4, <1>6, Ends

\* The stage of a call fits the command it makes.
Fits(op, stage, witness) ==
  /\ op = "claim_execution" => stage = "claim"
  /\ op = "mark_apply_started" => stage = "start"
  /\ op = "abort_claim" => stage = "abort"
  /\ op = "verify_execution" => stage \in Outcomes /\ witness.outcome = stage
  /\ op = "publish_verified_snapshot" => stage = "publish"

Ops == {"claim_execution", "mark_apply_started", "abort_claim", "verify_execution",
        "publish_verified_snapshot"}

\* Where the next call of a pane in state r may be the one of a stage.
Ready(r, stage) ==
  /\ stage = "claim" => r.pc = "workflow"
  /\ stage \notin {"claim", "publish"} => r.pc \in Executing
  /\ stage = "start" => r.pc = "read"
  /\ stage = "stale_precondition" => Unstarted(r)
  /\ stage = "applied" => written[r.id] = 1
  /\ stage = "publish" => r.pc \in Publishing

\* A pane makes the call of its next step.
LEMMA Calling ==
  ASSUME Types, NEW owner, Holding(owner), NEW p \in Pane, pane[p].pc # "idle",
         NEW stage \in Stages, NEW op \in Ops, NEW witness \in Witnesses \cup {None},
         Fits(op, stage, witness), Ready(pane[p], stage),
         Call(p, stage, Request0(p, op, stage, witness)),
         UNCHANGED <<avars, written, actions>>, cells' \in [Book -> Content], SavedGrows
  PROVE  Types' /\ Holding(owner)'
<1> DEFINE r == pane[p]
           c == Request0(p, op, stage, witness)
           m == [to |-> p, request |-> c, n |-> 1]
           n == [r EXCEPT !.pc = stage, !.request = c, !.n = 1, !.reply = None]
<1>1. r \in PaneRecords /\ WorkOK(owner, r, wire) /\ WaitingOK(owner, r)
  BY PaneFacts DEF PaneOK
<1>2. r.id \in Edit /\ r.action \in 1 .. actions /\ owner[r.action] = r.id /\ r.action \in Actions
  BY <1>1, ActionFacts DEF WorkOK
<1>3. edit[r.id].binding = Binding
  BY <1>2 DEF Holding, EditOK
<1>4. /\ c.op = op /\ c.key = <<r.action, stage>> /\ c.id = r.id /\ c.exec = r.exec
      /\ c.witness = witness /\ c.required = Required
  BY DEF Request0
<1>5. c \in Commands
  <2>1. <<r.action, stage>> \in Key
    BY <1>2, KeyFacts
  <2>2. r.exec \in Key \cup {None}
    BY <1>1 DEF PaneRecords
  <2>3. edit[r.id].binding.session \in Session /\ Required \in BOOLEAN
    BY <1>3, BindingFacts, OfficeAssumption
  <2> QED  BY <1>2, <2>1, <2>2, <2>3 DEF Request0, Commands, Ops
<1>6. CallOK(owner, c)
  <2>1. stage \notin {"claim", "publish"} => r.exec = <<r.action, "claim">>
    BY <1>1 DEF Ready, WorkOK
  <2>2. stage = "publish" => edit[r.id].state = "session_verified" /\ edit[r.id].exec = r.exec
    BY <1>1 DEF Ready, WorkOK
  <2>3. stage = "applied" => written[r.id] = 1
    BY DEF Ready
  <2> QED  BY <1>2, <1>4, <2>1, <2>2, <2>3 DEF CallOK, Fits
<1>7. Sent(owner, p)
  <2>1. m \in Calls
    BY <1>5, ActionFacts DEF Calls
  <2>2. wire' = wire \cup {m}
    BY DEF Call
  <2> QED  BY <1>2, <1>4, <1>6, <2>1, <2>2 DEF Sent
<1>8. n \in PaneRecords
  <2>1. 1 \in 0 .. MaxNetworkAttempts
    BY ActionFacts
  <2>2. stage \in PaneStates
    BY DEF Stages, PaneStates
  <2> QED  BY <1>1, <1>5, <2>1, <2>2 DEF PaneRecords
<1>9. Moved(p) /\ pane'[p] = n
  <2>1. pane' = [pane EXCEPT ![p] = n]
    BY DEF Call, Types
  <2> QED  BY <1>8, <2>1, Moves
<1>10. /\ pane'[p].pc = stage /\ pane'[p].request = c /\ pane'[p].n = 1 /\ pane'[p].reply = None
       /\ pane'[p].id = r.id /\ pane'[p].action = r.action /\ pane'[p].loaded = r.loaded
       /\ pane'[p].result = r.result /\ pane'[p].exec = r.exec /\ pane'[p].outcome = r.outcome
  BY <1>1, <1>9 DEF PaneRecords
<1>11. WaitingOK(owner, pane'[p])
  <2>1. c # None /\ stage \in CallPcs
    BY <1>5, NothingAssumption DEF Stages, CallPcs, Outcomes
  <2> QED  BY <1>4, <1>6, <1>10, <2>1 DEF WaitingOK
<1>12. ASSUME NEW s \in Stages, s # stage, Unsent(r.action, s, wire)
       PROVE  Unsent(r.action, s, wire')
  <2>1. wire' = wire \cup {m} /\ m.request = c
    BY DEF Call
  <2>2. c.key # <<r.action, s>>
    BY <1>4, <1>12, KeysDiffer
  <2> QED  BY <1>12, <2>1, <2>2 DEF Unsent
<1>13. WorkOK(owner, pane'[p], wire')
  <2>1. stage \in {"claim", "stale_precondition"} => Unsent(r.action, "start", wire')
    BY <1>1, <1>12 DEF Ready, WorkOK, Unstarted, Stages
  <2>2. stage \in {"claim", "start"} =>
          Unsent(r.action, "applied", wire') /\ Unsent(r.action, "indeterminate", wire')
    BY <1>1, <1>12 DEF Ready, WorkOK, Stages
  <2>3. stage = "claim" => r.exec = None
    BY <1>1 DEF Ready, WorkOK
  <2>4. stage \notin {"claim", "publish"} =>
          r.exec = <<r.action, "claim">> /\ receipts[<<r.action, "claim">>] # None
    BY <1>1 DEF Ready, WorkOK
  <2>5. stage = "publish" => edit[r.id].state = "session_verified" /\ edit[r.id].exec = r.exec
    BY <1>1 DEF Ready, WorkOK
  <2>6. r.result = None
    BY <1>1 DEF WorkOK
  <2>7. stage = "start" => written[r.id] = 0
    BY <1>1 DEF Ready, WorkOK
  <2> QED  BY <1>2, <1>10, <2>1, <2>2, <2>3, <2>4, <2>5, <2>6, <2>7
           DEF WorkOK, Unstarted, Executing, Publishing, Outcomes, Stages
<1>14. pane'[p].pc # "idle"
  BY <1>10 DEF Stages
<1> QED  BY <1>7, <1>9, <1>10, <1>11, <1>13, <1>14, Continues

\* The answer to a call is its receipt.
LEMMA Answers ==
  ASSUME Types, NEW owner, Holding(owner), NEW p \in Pane, pane[p].pc \in CallPcs, Reply(p).ok
  PROVE  /\ receipts[<<pane[p].action, pane[p].pc>>] # None
         /\ Reply(p).state = receipts[<<pane[p].action, pane[p].pc>>].state
         /\ ReceiptOK(owner, pane[p].action, pane[p].pc)
         /\ owner[pane[p].action] = pane[p].id
<1>1. WorkOK(owner, pane[p], wire) /\ WaitingOK(owner, pane[p])
  BY PaneFacts DEF PaneOK
<1>2. pane[p].reply # None /\ Reply(p) = pane[p].reply
  BY DEF Reply, Refused
<1>3. pane[p].request # None
  BY <1>1 DEF WaitingOK
<1>4. pane[p].action \in Actions /\ owner[pane[p].action] = pane[p].id
  BY <1>1, ActionFacts DEF WorkOK, CallPcs, Outcomes
<1>5. ReceiptOK(owner, pane[p].action, pane[p].pc)
  BY <1>4 DEF Holding, CallPcs, Outcomes, Stages
<1> QED  BY <1>1, <1>2, <1>3, <1>4, <1>5 DEF WaitingOK

\* An action goes on without a call.
LEMMA GoesOn ==
  ASSUME Types, NEW owner, Holding(owner), NEW p \in Pane, NEW n \in PaneRecords,
         pane' = [pane EXCEPT ![p] = n], UNCHANGED <<avars, live, wire, actions>>,
         pane[p].pc # "idle", n.pc \notin CallPcs \cup {"idle"},
         n.id = pane[p].id, n.action = pane[p].action, n.loaded = pane[p].loaded,
         n.result = pane[p].result, n.request = None, n.n = 0,
         WorkOK(owner, n, wire)
  PROVE  Types' /\ Holding(owner)'
<1>1. Moved(p) /\ pane'[p] = n
  BY Moves
<1>2. Sent(owner, p) /\ SavedGrows /\ cells' \in [Book -> Content]
  BY NoCall, SavedKept DEF live, Types
<1>3. WaitingOK(owner, n)
  BY DEF WaitingOK
<1>4. WorkOK(owner, n, wire')
  BY DEF WorkOK
<1> QED  BY <1>1, <1>2, <1>3, <1>4, Continues DEF live

\* Workbooks stay as they are.
LEMMA QuietFacts ==
  ASSUME Types, UNCHANGED live
  PROVE  SavedGrows /\ UNCHANGED written /\ cells' \in [Book -> Content]
BY SavedKept DEF live, Types

-----------------------------------------------------------------------------
(* The steps of an action.                                                  *)

\* executeEdit claims the edit once its workflow was fetched again.
LEMMA ClaimStep ==
  ASSUME Types, NEW owner, Holding(owner), NEW p \in Pane, Claim(p)
  PROVE  Types' /\ Holding(owner)'
<1>1. pane[p].pc = "workflow" /\ UNCHANGED <<avars, live, actions>>
  BY DEF Claim
<1>2. pane[p].exec = None
  BY <1>1, PaneFacts DEF PaneOK, WorkOK
<1>3. CASE Call(p, "claim", Request0(p, "claim_execution", "claim", None))
  <2>1. Fits("claim_execution", "claim", None) /\ Ready(pane[p], "claim")
    BY <1>1 DEF Fits, Ready
  <2> QED  BY <1>1, <1>3, <2>1, Calling, QuietFacts DEF Ops, Stages
<1>4. CASE Settle(p, "failed") /\ UNCHANGED wire
  BY <1>1, <1>2, <1>4, Settled, QuietFacts
<1> QED  BY <1>3, <1>4 DEF Claim

\* The workflow cannot be fetched.
LEMMA WorkflowUnavailableStep ==
  ASSUME Types, NEW owner, Holding(owner), NEW p \in Pane, WorkflowUnavailable(p)
  PROVE  Types' /\ Holding(owner)'
<1>1. /\ pane[p].pc \in {"workflow", "resume"} /\ Settle(p, "failed")
      /\ UNCHANGED <<avars, live, wire, actions>>
  BY DEF WorkflowUnavailable
<1>2. pane[p].exec = None \/ edit[pane[p].id].state = "session_verified"
  BY <1>1, PaneFacts DEF PaneOK, WorkOK, Publishing
<1>3. pane[p].exec # None => pane[p].pc \in Publishing
  BY <1>1, PaneFacts DEF PaneOK, WorkOK, Publishing
<1> QED  BY <1>1, <1>2, <1>3, Settled, QuietFacts

\* A claim that is confirmed is a claim of this action, and none of its other calls
\* were made yet.
LEMMA ClaimedStep ==
  ASSUME Types, NEW owner, Holding(owner), NEW p \in Pane, Claimed(p)
  PROVE  Types' /\ Holding(owner)'
<1> DEFINE r == pane[p]
           n == [Idle EXCEPT !.pc = "read", !.id = r.id, !.action = r.action,
                             !.exec = r.request.key]
<1>1. r.pc = "claim" /\ UNCHANGED <<avars, live, wire, actions>>
  BY DEF Claimed, Answered
<1>2. r \in PaneRecords /\ WorkOK(owner, r, wire) /\ WaitingOK(owner, r)
  BY PaneFacts DEF PaneOK
<1>3. CASE Reply(p).ok /\ pane' = [pane EXCEPT ![p] = n]
  <2>1. r.request # None /\ r.request.key = <<r.action, "claim">>
    BY <1>1, <1>2 DEF WaitingOK, CallPcs
  <2>2. receipts[<<r.action, "claim">>] # None
    BY <1>1, <1>3, Answers DEF CallPcs
  <2>3. r.id \in Edit /\ r.action \in 1 .. actions /\ owner[r.action] = r.id /\ r.action \in Actions
    BY <1>1, <1>2, ActionFacts DEF WorkOK
  <2>4. <<r.action, "claim">> \in Key
    BY <2>3, KeyFacts DEF Stages
  <2>5. n \in PaneRecords
    BY <1>2, <2>1, <2>4, IdleType DEF PaneRecords, PaneStates
  <2>6. /\ n.pc = "read" /\ n.id = r.id /\ n.action = r.action /\ n.exec = <<r.action, "claim">>
        /\ n.request = None /\ n.n = 0 /\ n.result = None /\ n.outcome = None /\ n.loaded = None
    BY <2>1 DEF Idle
  <2>7. Moved(p) /\ pane'[p] = n
    BY <1>3, <2>5, Moves
  <2> HIDE DEF n
  <2>8. written[r.id] = 0
    <3>1. edit[r.id].exec = <<r.action, "claim">>
      BY <1>1, <1>3, <2>2, <2>3, Answers DEF ReceiptOK, CallPcs
    <3>2. edit[r.id].state \in {"claimed", "aborted_before_apply", "stale_precondition"}
      BY <1>1, <1>2, <2>3, <3>1, NotStarted DEF WorkOK, Unstarted
    <3>3. EditOK(owner, r.id) /\ written[r.id] \in Nat
      BY <2>3 DEF Holding, Types
    <3> QED  BY <3>2, <3>3 DEF EditOK, Started
  <2>11. WorkOK(owner, n, wire')
    BY <1>1, <1>2, <2>2, <2>3, <2>6, <2>8 DEF WorkOK, Unstarted, Executing, Publishing, Outcomes
  <2>9. WaitingOK(owner, n)
    BY <2>6 DEF WaitingOK, CallPcs, Outcomes
  <2>10. ShownOK(n) /\ FailureOK(n, wire', InWork')
    BY <2>6, NothingAssumption DEF ShownOK, FailureOK, EditStates
  <2> QED  BY <1>1, <2>6, <2>7, <2>9, <2>10, <2>11, PaneMoves, NoCall, QuietFacts DEF PaneOK
<1>4. r.exec = None
  BY <1>1, <1>2 DEF WorkOK
<1>5. CASE Settle(p, "failed") \/ Settle(p, "uncertain")
  BY <1>1, <1>4, <1>5, Settled, QuietFacts
<1> QED  BY <1>3, <1>5 DEF Claimed

\* abortClaim gives the claim back.
LEMMA AbortStep ==
  ASSUME Types, NEW owner, Holding(owner), NEW p \in Pane, pane[p].pc \in {"read", "start"},
         Abort(p), UNCHANGED <<avars, live, actions>>
  PROVE  Types' /\ Holding(owner)'
<1>1. Fits("abort_claim", "abort", None) /\ Ready(pane[p], "abort")
  BY DEF Fits, Ready, Executing
<1> QED  BY <1>1, Calling, QuietFacts DEF Abort, Ops, Stages

\* The cells are read before the start is asked for.
LEMMA ReadBeforeStep ==
  ASSUME Types, NEW owner, Holding(owner), NEW p \in Pane, ReadBefore(p)
  PROVE  Types' /\ Holding(owner)'
<1> DEFINE r == pane[p]
           n == [r EXCEPT !.pc = "witness"]
<1>1. r.pc = "read" /\ UNCHANGED <<avars, live, actions>>
  BY DEF ReadBefore
<1>2. r \in PaneRecords /\ WorkOK(owner, r, wire) /\ WaitingOK(owner, r)
  BY PaneFacts DEF PaneOK
<1>3. CASE Call(p, "start", Request0(p, "mark_apply_started", "start", None))
  <2>1. Fits("mark_apply_started", "start", None) /\ Ready(r, "start")
    BY <1>1 DEF Fits, Ready, Executing
  <2> QED  BY <1>1, <1>3, <2>1, Calling, QuietFacts DEF Ops, Stages
<1>4. CASE Goto(p, "witness") /\ UNCHANGED wire
  <2>1. n \in PaneRecords
    BY <1>2 DEF PaneRecords, PaneStates
  <2>2. pane' = [pane EXCEPT ![p] = n]
    BY <1>4 DEF Goto
  <2>3. /\ n.pc = "witness" /\ n.id = r.id /\ n.action = r.action /\ n.loaded = r.loaded
        /\ n.result = r.result /\ n.request = r.request /\ n.n = r.n /\ n.exec = r.exec
        /\ n.outcome = r.outcome
    BY <1>2 DEF PaneRecords
  <2>4. r.request = None /\ r.n = 0
    BY <1>1, <1>2 DEF WaitingOK, CallPcs, Outcomes, PaneRecords
  <2>5. WorkOK(owner, n, wire)
    BY <1>1, <1>2, <2>3, NothingAssumption DEF WorkOK, Unstarted, Executing, Publishing, Outcomes, Stages
  <2> QED  BY <1>1, <1>4, <2>1, <2>2, <2>3, <2>4, <2>5, GoesOn DEF CallPcs, Outcomes
<1>5. CASE Settle(p, "failed") /\ UNCHANGED wire
  BY <1>1, <1>5, Settled, QuietFacts DEF Executing, Unstarted
<1> QED  BY <1>3, <1>4, <1>5 DEF ReadBefore

\* The reading fails, and the claim is given back.
LEMMA BeforeWriteErrorStep ==
  ASSUME Types, NEW owner, Holding(owner), NEW p \in Pane, BeforeWriteError(p)
  PROVE  Types' /\ Holding(owner)'
BY AbortStep DEF BeforeWriteError

\* The start is refused, and the claim is given back.
LEMMA StartRejectedStep ==
  ASSUME Types, NEW owner, Holding(owner), NEW p \in Pane, StartRejected(p)
  PROVE  Types' /\ Holding(owner)'
BY AbortStep DEF StartRejected

\* What an action that holds its claim and has its start answered knows.
LEMMA Begun ==
  ASSUME Types, NEW owner, Holding(owner), NEW p \in Pane, pane[p].pc \in Executing,
         receipts[<<pane[p].action, "start">>] # None,
         Unsent(pane[p].action, "applied", wire), Unsent(pane[p].action, "indeterminate", wire)
  PROVE  /\ edit[pane[p].id].state = "apply_started"
         /\ edit[pane[p].id].exec = pane[p].exec
         /\ holder[TheBook] = pane[p].exec
<1> DEFINE i == pane[p].id
           a == pane[p].action
<1>1. WorkOK(owner, pane[p], wire)
  BY PaneFacts DEF PaneOK
<1>2. /\ i \in Edit /\ a \in 1 .. actions /\ owner[a] = i
      /\ pane[p].exec = <<a, "claim">> /\ receipts[<<a, "claim">>] # None
  BY <1>1 DEF WorkOK, Executing, Outcomes
<1>3. a \in Actions
  BY <1>2, ActionFacts
<1>4. edit[i].state \in Started /\ edit[i].exec = <<a, "claim">>
  <2>1. ReceiptOK(owner, a, "start")
    BY <1>3 DEF Holding, Stages
  <2> QED  BY <2>1, <1>2 DEF ReceiptOK
<1>5. edit[i].exec # None
  BY <1>3, <1>4, KeyFacts, NothingAssumption DEF Stages
<1>6. EditOK(owner, i)
  BY <1>2 DEF Holding
<1>7. edit[i].state \notin Reported
  <2>1. PICK b \in 1 .. actions :
          /\ Executed(owner, i, b)
          /\ edit[i].state \in Reported => \/ receipts[<<b, "applied">>] # None
                                           \/ receipts[<<b, "indeterminate">>] # None
    BY <1>5, <1>6 DEF EditOK
  <2>2. b = a
    BY <2>1, <1>4, KeysDiffer DEF Executed
  <2> QED  BY <2>1, <2>2 DEF Unsent
<1>8. edit[i].state = "apply_started"
  BY <1>4, <1>7 DEF Started, Reported
<1> QED  BY <1>2, <1>4, <1>6, <1>8 DEF EditOK

\* A pane that leaves its call, or goes to its next step.
LEMMA Proceeds ==
  ASSUME Types, NEW owner, Holding(owner), NEW p \in Pane, NEW pc \in PaneStates,
         pane[p].pc # "idle", pc \notin CallPcs \cup {"idle"},
         \/ Proceed(p, pc)
         \/ Goto(p, pc) /\ pane[p].pc \notin CallPcs,
         UNCHANGED <<avars, live, wire, actions>>,
         WorkOK(owner, [pane[p] EXCEPT !.pc = pc], wire)
  PROVE  Types' /\ Holding(owner)'
<1> DEFINE r == pane[p]
           m == [r EXCEPT !.pc = pc]
           n == [m EXCEPT !.request = None, !.n = 0, !.reply = None]
<1>1. r \in PaneRecords /\ WorkOK(owner, r, wire) /\ WaitingOK(owner, r)
  BY PaneFacts DEF PaneOK
<1>2. m \in PaneRecords
  BY <1>1 DEF PaneRecords
<1>3. n \in PaneRecords
  <2>1. 0 \in 0 .. MaxNetworkAttempts
    BY ActionFacts
  <2> QED  BY <1>2, <2>1 DEF PaneRecords
<1>4. /\ m.pc = pc /\ m.id = r.id /\ m.action = r.action /\ m.loaded = r.loaded
      /\ m.result = r.result /\ m.request = r.request /\ m.n = r.n
  BY <1>1 DEF PaneRecords
<1>5. CASE Goto(p, pc) /\ pane[p].pc \notin CallPcs
  <2>1. pane' = [pane EXCEPT ![p] = m]
    BY <1>5 DEF Goto
  <2>2. r.request = None /\ r.n = 0
    BY <1>1, <1>5 DEF WaitingOK, PaneRecords
  <2> QED  BY <1>2, <1>4, <2>1, <2>2, GoesOn
<1>6. CASE Proceed(p, pc)
  <2>1. pane' = [pane EXCEPT ![p] = n]
    BY <1>6 DEF Proceed, Types
  <2>2. /\ n.pc = pc /\ n.id = r.id /\ n.action = r.action /\ n.loaded = r.loaded
        /\ n.result = r.result /\ n.request = None /\ n.n = 0 /\ n.exec = m.exec
        /\ n.outcome = m.outcome
    BY <1>2, <1>4 DEF PaneRecords
  <2>3. WorkOK(owner, n, wire)
    BY <1>4, <2>2 DEF WorkOK, Unstarted
  <2> QED  BY <1>3, <2>1, <2>2, <2>3, GoesOn
<1> QED  BY <1>5, <1>6

\* A start that is confirmed was recorded for this action.
LEMMA StartConfirmedStep ==
  ASSUME Types, NEW owner, Holding(owner), NEW p \in Pane, StartConfirmed(p)
  PROVE  Types' /\ Holding(owner)'
<1> DEFINE r == pane[p]
           m == [r EXCEPT !.pc = "reread"]
<1>1. /\ r.pc = "start" /\ Reply(p).ok /\ Proceed(p, "reread")
      /\ UNCHANGED <<avars, live, wire, actions>>
  BY DEF StartConfirmed, Answered
<1>2. r \in PaneRecords /\ WorkOK(owner, r, wire)
  BY PaneFacts DEF PaneOK
<1>3. receipts[<<r.action, "start">>] # None
  BY <1>1, Answers DEF CallPcs
<1>4. /\ m.pc = "reread" /\ m.id = r.id /\ m.action = r.action /\ m.result = r.result
      /\ m.exec = r.exec /\ m.outcome = r.outcome
  BY <1>2 DEF PaneRecords
<1>5. WorkOK(owner, m, wire)
  BY <1>1, <1>2, <1>3, <1>4 DEF WorkOK, Unstarted, Executing, Publishing, Outcomes
<1> QED  BY <1>1, <1>5, Proceeds DEF PaneStates, CallPcs, Outcomes

\* Nobody knows whether the start was recorded.
LEMMA StartConfirmationErrorStep ==
  ASSUME Types, NEW owner, Holding(owner), NEW p \in Pane, StartConfirmationError(p)
  PROVE  Types' /\ Holding(owner)'
<1>1. /\ pane[p].pc = "start" /\ Settle(p, "uncertain")
      /\ UNCHANGED <<avars, live, wire, actions>>
  BY DEF StartConfirmationError, Answered
<1> QED  BY <1>1, Settled, QuietFacts

\* The outcome of a write is known, or is not.
LEMMA Witnessed ==
  ASSUME Types, NEW owner, Holding(owner), NEW p \in Pane,
         pane[p].pc \in {"reread", "write", "readback"},
         NEW n \in PaneRecords, pane' = [pane EXCEPT ![p] = n],
         UNCHANGED <<avars, live, wire, actions>>,
         n.pc = "witness", n.id = pane[p].id, n.action = pane[p].action, n.exec = pane[p].exec,
         n.loaded = pane[p].loaded, n.result = pane[p].result, n.request = pane[p].request,
         n.n = pane[p].n,
         \/ n.outcome = "indeterminate"
         \/ n.outcome = "applied" /\ pane[p].pc = "readback"
  PROVE  Types' /\ Holding(owner)'
<1>1. pane[p] \in PaneRecords /\ WorkOK(owner, pane[p], wire) /\ WaitingOK(owner, pane[p])
  BY PaneFacts DEF PaneOK
<1>2. n.request = None /\ n.n = 0
  BY <1>1 DEF WaitingOK, PaneRecords, CallPcs, Outcomes
<1>3. n.outcome # None
  BY NothingAssumption DEF Stages
<1>4. WorkOK(owner, n, wire)
  BY <1>1, <1>3 DEF WorkOK, Unstarted, Executing, Publishing, Outcomes
<1> QED  BY <1>1, <1>2, <1>4, GoesOn DEF CallPcs, Outcomes

\* The outcome of a write is not known.
LEMMA IndeterminateStep ==
  ASSUME Types, NEW owner, Holding(owner), NEW p \in Pane,
         pane[p].pc \in {"reread", "write", "readback"}, Indeterminate(p),
         UNCHANGED <<avars, live, wire, actions>>
  PROVE  Types' /\ Holding(owner)'
<1> DEFINE r == pane[p]
           n == [r EXCEPT !.pc = "witness", !.outcome = "indeterminate"]
<1>1. r \in PaneRecords
  BY PaneFacts
<1>2. n \in PaneRecords
  BY <1>1 DEF PaneRecords, PaneStates, Outcomes
<1>3. pane' = [pane EXCEPT ![p] = n]
  BY DEF Indeterminate, Types
<1>4. /\ n.pc = "witness" /\ n.id = r.id /\ n.action = r.action /\ n.exec = r.exec
      /\ n.loaded = r.loaded /\ n.result = r.result /\ n.request = r.request
      /\ n.n = r.n /\ n.outcome = "indeterminate"
  BY <1>1 DEF PaneRecords
<1> QED  BY <1>2, <1>3, <1>4, Witnessed

\* The cells are read again before they are written.
LEMMA ReadAgainStep ==
  ASSUME Types, NEW owner, Holding(owner), NEW p \in Pane, ReadAgain(p)
  PROVE  Types' /\ Holding(owner)'
<1> DEFINE r == pane[p]
           m == [r EXCEPT !.pc = "write"]
<1>1. r.pc = "reread" /\ UNCHANGED <<avars, live, wire, actions>>
  BY DEF ReadAgain
<1>2. r \in PaneRecords /\ WorkOK(owner, r, wire)
  BY PaneFacts DEF PaneOK
<1>3. /\ m.pc = "write" /\ m.id = r.id /\ m.action = r.action /\ m.result = r.result
      /\ m.exec = r.exec /\ m.outcome = r.outcome
  BY <1>2 DEF PaneRecords
<1>4. WorkOK(owner, m, wire)
  BY <1>1, <1>2, <1>3 DEF WorkOK, Unstarted, Executing, Publishing, Outcomes
<1>5. CASE Goto(p, "write")
  BY <1>1, <1>4, <1>5, Proceeds DEF PaneStates, CallPcs, Outcomes
<1>6. CASE Indeterminate(p)
  BY <1>1, <1>6, IndeterminateStep
<1> QED  BY <1>5, <1>6 DEF ReadAgain

\* The cells are read back.
LEMMA ReadAfterStep ==
  ASSUME Types, NEW owner, Holding(owner), NEW p \in Pane, ReadAfter(p)
  PROVE  Types' /\ Holding(owner)'
<1> DEFINE r == pane[p]
           n == [r EXCEPT !.pc = "witness", !.outcome = "applied", !.after = cells[BookOf(p)]]
<1>1. r.pc = "readback" /\ UNCHANGED <<avars, live, wire, actions>>
  BY DEF ReadAfter
<1>2. r \in PaneRecords /\ WorkOK(owner, r, wire)
  BY PaneFacts DEF PaneOK
<1>3. cells[BookOf(p)] \in Content
  <2>1. r.id \in Edit
    BY <1>1, <1>2 DEF WorkOK
  <2>2. BookOf(p) \in Book
    BY <2>1, BindingFacts DEF BookOf, Holding, EditOK, TheBook
  <2> QED  BY <2>2 DEF Types
<1>4. n \in PaneRecords
  BY <1>2, <1>3 DEF PaneRecords, PaneStates, Outcomes
<1>5. /\ n.pc = "witness" /\ n.id = r.id /\ n.action = r.action /\ n.exec = r.exec
      /\ n.loaded = r.loaded /\ n.result = r.result /\ n.request = r.request
      /\ n.n = r.n /\ n.outcome = "applied"
  BY <1>2 DEF PaneRecords
<1>6. CASE pane' = [pane EXCEPT ![p].pc = "witness", ![p].outcome = "applied",
                                ![p].after = cells[BookOf(p)]]
  <2>1. pane' = [pane EXCEPT ![p] = n]
    BY <1>6 DEF Types
  <2> QED  BY <1>1, <1>4, <1>5, <2>1, Witnessed
<1>7. CASE Indeterminate(p)
  BY <1>1, <1>7, IndeterminateStep
<1> QED  BY <1>6, <1>7 DEF ReadAfter

\* A report is made.
LEMMA VerifyStep ==
  ASSUME Types, NEW owner, Holding(owner), NEW p \in Pane, pane[p].pc \in Executing,
         NEW outcome \in Outcomes, Verify(p, outcome), UNCHANGED <<avars, live, actions>>,
         outcome = "stale_precondition" => Unstarted(pane[p]),
         outcome = "applied" => written[pane[p].id] = 1
  PROVE  Types' /\ Holding(owner)'
<1> DEFINE w == Witness(outcome, outcome = "applied" /\ pane[p].after = pane[p].id)
<1>1. w \in Witnesses /\ w.outcome = outcome
  BY DEF Witness, Witnesses, Outcomes, Stages
<1> HIDE DEF w
<1>2. Call(p, outcome, Request0(p, "verify_execution", outcome, w))
  BY DEF Verify, w
<1>3. Fits("verify_execution", outcome, w) /\ Ready(pane[p], outcome)
  BY <1>1 DEF Fits, Ready, Outcomes
<1>4. outcome \in Stages /\ pane[p].pc # "idle"
  BY DEF Outcomes, Stages, Executing
<1> QED  BY <1>1, <1>2, <1>3, <1>4, Calling, QuietFacts DEF Ops

\* The report fits what the pane did to the cells.
LEMMA ReportWitnessStep ==
  ASSUME Types, NEW owner, Holding(owner), NEW p \in Pane, ReportWitness(p)
  PROVE  Types' /\ Holding(owner)'
<1>1. pane[p].pc = "witness" /\ UNCHANGED <<avars, live, actions>>
  BY DEF ReportWitness
<1>2. pane[p].pc \in Executing
  BY <1>1 DEF Executing
<1>3. CASE pane[p].outcome = None /\ Verify(p, "stale_precondition")
  BY <1>1, <1>2, <1>3, VerifyStep DEF Unstarted, Outcomes
<1>4. CASE pane[p].outcome = "applied" /\ Verify(p, "applied")
  <2>1. written[pane[p].id] = 1
    BY <1>1, <1>4, PaneFacts DEF PaneOK, WorkOK
  <2> QED  BY <1>1, <1>2, <1>4, <2>1, VerifyStep DEF Outcomes
<1>5. CASE Verify(p, "indeterminate")
  BY <1>1, <1>2, <1>5, VerifyStep DEF Outcomes
<1> QED  BY <1>3, <1>4, <1>5 DEF ReportWitness

\* The report is too large to be made.
LEMMA WitnessTooLargeStep ==
  ASSUME Types, NEW owner, Holding(owner), NEW p \in Pane, WitnessTooLarge(p)
  PROVE  Types' /\ Holding(owner)'
<1>1. /\ pane[p].pc = "witness" /\ Settle(p, "uncertain")
      /\ UNCHANGED <<avars, live, wire, actions>>
  BY DEF WitnessTooLarge
<1> QED  BY <1>1, Settled, QuietFacts

\* The verdict of the service is about this execution: it is what the pane shows, or
\* what it saves for.
LEMMA VerifiedStep ==
  ASSUME Types, NEW owner, Holding(owner), NEW p \in Pane, Verified(p)
  PROVE  Types' /\ Holding(owner)'
<1> DEFINE r == pane[p]
           m == [r EXCEPT !.pc = "save"]
<1>1. PICK outcome \in Outcomes :
        /\ r.pc = outcome /\ Reply(p).ok /\ UNCHANGED <<avars, live, wire, actions>>
        /\ \/ Reply(p).state = "session_verified" /\ Proceed(p, "save")
           \/ ~ (Reply(p).state = "session_verified" /\ Required) /\ Finish(p, Reply(p).state)
  BY DEF Verified, Answered, Outcomes
<1>2. r \in PaneRecords /\ WorkOK(owner, r, wire)
  BY PaneFacts DEF PaneOK
<1>3. r.id \in Edit /\ r.action \in 1 .. actions /\ r.action \in Actions
      /\ r.exec = <<r.action, "claim">>
  BY <1>1, <1>2, ActionFacts DEF WorkOK, Executing, Outcomes
<1>4. receipts[<<r.action, outcome>>] # None /\ Reply(p).state = receipts[<<r.action, outcome>>].state
      /\ edit[r.id].exec = <<r.action, "claim">> /\ Reply(p).state = edit[r.id].state
  BY <1>1, Answers DEF CallPcs, ReceiptOK, Outcomes
<1>5. CASE Reply(p).state = "session_verified" /\ Proceed(p, "save")
  <2>1. /\ m.pc = "save" /\ m.id = r.id /\ m.action = r.action /\ m.result = r.result
        /\ m.exec = r.exec /\ m.outcome = r.outcome
    BY <1>2 DEF PaneRecords
  <2>2. WorkOK(owner, m, wire)
    BY <1>1, <1>2, <1>3, <1>4, <1>5, <2>1 DEF WorkOK, Unstarted, Executing, Publishing, Outcomes
  <2> QED  BY <1>1, <1>5, <2>2, Proceeds DEF PaneStates, CallPcs, Outcomes
<1>6. CASE ~ (Reply(p).state = "session_verified" /\ Required) /\ Finish(p, Reply(p).state)
  <2>1. Reply(p).state \in EditStates
    <3>1. <<r.action, outcome>> \in Key
      BY <1>3, KeyFacts DEF Outcomes, Stages
    <3> QED  BY <1>4, <3>1 DEF Types, Receipts
  <2>2. edit[r.id].required = Required
    <3>1. edit[r.id].exec # None
      BY <1>3, <1>4, KeyFacts, NothingAssumption DEF Stages
    <3> QED  BY <1>3, <3>1 DEF Holding, EditOK
  <2>3. Reply(p).state = "session_verified" =>
          edit[r.id].state = "session_verified" /\ ~ edit[r.id].required
    BY <1>4, <1>6, <2>2
  <2>4. r.pc # "idle"
    BY <1>1 DEF Outcomes
  <2> QED  BY <1>1, <1>6, <2>1, <2>3, <2>4, Finished, QuietFacts
<1> QED  BY <1>1, <1>5, <1>6

\* A report that comes after the deadline is made again.
LEMMA LeaseExpiredStep ==
  ASSUME Types, NEW owner, Holding(owner), NEW p \in Pane, LeaseExpired(p)
  PROVE  Types' /\ Holding(owner)'
<1>1. pane[p].pc = "applied" /\ Verify(p, "indeterminate") /\ UNCHANGED <<avars, live, actions>>
  BY DEF LeaseExpired
<1> QED  BY <1>1, VerifyStep DEF Executing, Outcomes

\* A report nobody confirms leaves an ordinary failure only where nothing was started.
LEMMA VerificationFailsStep ==
  ASSUME Types, NEW owner, Holding(owner), NEW p \in Pane, VerificationFails(p)
  PROVE  Types' /\ Holding(owner)'
<1>1. PICK outcome \in Outcomes :
        /\ pane[p].pc = outcome /\ UNCHANGED <<avars, live, wire, actions>>
        /\ Settle(p, IF outcome = "stale_precondition" THEN "failed" ELSE "uncertain")
  BY DEF VerificationFails, Answered, Outcomes
<1>2. pane[p].pc # "idle"
  BY <1>1 DEF Outcomes
<1>3. CASE outcome = "stale_precondition"
  <2>1. Settle(p, "failed") /\ pane[p].pc \in Executing /\ Unstarted(pane[p])
    BY <1>1, <1>3 DEF Executing, Outcomes, Unstarted
  <2> QED  BY <1>1, <1>2, <2>1, Settled, QuietFacts
<1>4. CASE outcome # "stale_precondition"
  <2>1. Settle(p, "uncertain")
    BY <1>1, <1>4
  <2> QED  BY <1>1, <1>2, <2>1, Settled, QuietFacts
<1> QED  BY <1>3, <1>4

\* abortClaim tells of an ordinary failure only if the claim was given back.
LEMMA AbortedStep ==
  ASSUME Types, NEW owner, Holding(owner), NEW p \in Pane, Aborted(p)
  PROVE  Types' /\ Holding(owner)'
<1>1. /\ pane[p].pc = "abort" /\ UNCHANGED <<avars, live, wire, actions>>
      /\ Settle(p, IF Reply(p).ok THEN "failed" ELSE "uncertain")
  BY DEF Aborted, Answered
<1>2. CASE Reply(p).ok
  <2>1. edit[pane[p].id].state = "aborted_before_apply"
    BY <1>1, <1>2, Answers DEF CallPcs, ReceiptOK
  <2>2. Settle(p, "failed")
    BY <1>1, <1>2
  <2> QED  BY <1>1, <2>1, <2>2, Settled, QuietFacts DEF Executing
<1>3. CASE ~ Reply(p).ok
  <2>1. Settle(p, "uncertain")
    BY <1>1, <1>3
  <2> QED  BY <1>1, <2>1, Settled, QuietFacts
<1> QED  BY <1>2, <1>3

\* What a pane that publishes knows of its edit.
LEMMA Verdict ==
  ASSUME Types, NEW owner, Holding(owner), NEW p \in Pane, pane[p].pc \in Publishing
  PROVE  /\ pane[p].id \in Edit /\ pane[p].pc # "idle"
         /\ edit[pane[p].id].state = "session_verified"
         /\ edit[pane[p].id].required = Required
         /\ BookOf(p) = TheBook
<1> DEFINE r == pane[p]
<1>1. WorkOK(owner, r, wire)
  BY PaneFacts DEF PaneOK
<1>2. r.id \in Edit /\ r.pc # "idle" /\ edit[r.id].state = "session_verified"
  BY <1>1 DEF WorkOK, Publishing
<1>3. EditOK(owner, r.id)
  BY <1>2 DEF Holding
<1> QED  BY <1>2, <1>3 DEF EditOK, BookOf, TheBook

\* The workbook is saved, after the verdict.
LEMMA SaveStep ==
  ASSUME Types, NEW owner, Holding(owner), NEW p \in Pane, Save(p)
  PROVE  Types' /\ Holding(owner)'
<1>1. pane[p].pc = "save" /\ UNCHANGED <<avars, cells, written, changes, actions>>
  BY DEF Save
<1>2. /\ pane[p].id \in Edit /\ pane[p].pc # "idle" /\ BookOf(p) = TheBook
      /\ edit[pane[p].id].state = "session_verified" /\ edit[pane[p].id].required = Required
  BY <1>1, Verdict DEF Publishing
<1>3. cells' \in [Book -> Content] /\ cells[BookOf(p)] \in Content
  BY <1>1, <1>2, BindingFacts DEF Types
<1>4. SavedGrows
  <2>1. CASE saved' = [saved EXCEPT ![BookOf(p)] = Append(@, cells[BookOf(p)])]
    BY <1>2, <1>3, <2>1, BindingFacts, SavedAppended
  <2>2. CASE UNCHANGED saved
    BY <2>2, SavedKept
  <2> QED  BY <2>1, <2>2 DEF Save
<1>5. CASE Call(p, "publish", Request0(p, "publish_verified_snapshot", "publish", None))
  <2>1. Fits("publish_verified_snapshot", "publish", None) /\ Ready(pane[p], "publish")
    BY <1>1 DEF Fits, Ready, Publishing
  <2> QED  BY <1>1, <1>2, <1>3, <1>4, <1>5, <2>1, Calling DEF Ops, Stages
<1>6. CASE ~ Required /\ Finish(p, "session_verified") /\ UNCHANGED wire
  BY <1>1, <1>2, <1>3, <1>4, <1>6, Finished DEF EditStates
<1>7. CASE Settle(p, "uncertain") /\ UNCHANGED wire
  BY <1>1, <1>2, <1>3, <1>4, <1>7, Settled
<1> QED  BY <1>5, <1>6, <1>7 DEF Save

\* A publication that is confirmed is one of this edit.
LEMMA PublicationAnsweredStep ==
  ASSUME Types, NEW owner, Holding(owner), NEW p \in Pane, PublicationAnswered(p)
  PROVE  Types' /\ Holding(owner)'
<1> DEFINE r == pane[p]
           m == [r EXCEPT !.pc = "lookup"]
<1>1. r.pc = "publish" /\ UNCHANGED <<avars, live, wire, actions>>
  BY DEF PublicationAnswered, Answered
<1>2. r.id \in Edit /\ r.pc # "idle" /\ edit[r.id].state = "session_verified"
  BY <1>1, Verdict DEF Publishing
<1>3. r \in PaneRecords /\ WorkOK(owner, r, wire)
  BY PaneFacts DEF PaneOK
<1>4. CASE Reply(p).ok /\ Finish(p, "session_verified")
  <2>1. edit[r.id].publication # 0
    BY <1>1, <1>4, Answers DEF CallPcs, ReceiptOK
  <2> QED  BY <1>1, <1>2, <1>4, <2>1, Finished, QuietFacts DEF EditStates
<1>5. CASE Proceed(p, "lookup")
  <2>1. /\ m.pc = "lookup" /\ m.id = r.id /\ m.action = r.action /\ m.result = r.result
        /\ m.exec = r.exec /\ m.outcome = r.outcome
    BY <1>3 DEF PaneRecords
  <2>2. WorkOK(owner, m, wire)
    BY <1>1, <1>3, <2>1 DEF WorkOK, Unstarted, Executing, Publishing, Outcomes
  <2> QED  BY <1>1, <1>5, <2>2, Proceeds DEF PaneStates, CallPcs, Outcomes
<1>6. CASE Settle(p, "uncertain")
  BY <1>1, <1>2, <1>6, Settled, QuietFacts
<1> QED  BY <1>4, <1>5, <1>6 DEF PublicationAnswered

\* A publication nobody confirmed is looked up.
LEMMA LookupStep ==
  ASSUME Types, NEW owner, Holding(owner), NEW p \in Pane, Lookup(p)
  PROVE  Types' /\ Holding(owner)'
<1>1. pane[p].pc = "lookup" /\ UNCHANGED <<avars, live, wire, actions>>
  BY DEF Lookup
<1>2. /\ pane[p].id \in Edit /\ pane[p].pc # "idle"
      /\ edit[pane[p].id].state = "session_verified"
  BY <1>1, Verdict DEF Publishing
<1>3. CASE Published(pane[p].id) /\ Finish(p, "session_verified")
  <2>1. edit[pane[p].id].publication # 0
    BY <1>3 DEF Published
  <2> QED  BY <1>1, <1>2, <1>3, <2>1, Finished, QuietFacts DEF EditStates
<1>4. CASE Settle(p, "uncertain")
  BY <1>1, <1>2, <1>4, Settled, QuietFacts
<1> QED  BY <1>3, <1>4 DEF Lookup

\* A pane that was opened again looks before it publishes.
LEMMA ResumeStep ==
  ASSUME Types, NEW owner, Holding(owner), NEW p \in Pane, Resume(p)
  PROVE  Types' /\ Holding(owner)'
<1>1. pane[p].pc = "resume" /\ UNCHANGED <<avars, live, actions>>
  BY DEF Resume
<1>2. /\ pane[p].id \in Edit /\ pane[p].pc # "idle"
      /\ edit[pane[p].id].state = "session_verified"
  BY <1>1, Verdict DEF Publishing
<1>3. CASE Published(pane[p].id) /\ Finish(p, "session_verified") /\ UNCHANGED wire
  <2>1. edit[pane[p].id].publication # 0
    BY <1>3 DEF Published
  <2> QED  BY <1>1, <1>2, <1>3, <2>1, Finished, QuietFacts DEF EditStates
<1>4. CASE Call(p, "publish", Request0(p, "publish_verified_snapshot", "publish", None))
  <2>1. Fits("publish_verified_snapshot", "publish", None) /\ Ready(pane[p], "publish")
    BY <1>1 DEF Fits, Ready, Publishing
  <2> QED  BY <1>1, <1>2, <1>4, <2>1, Calling, QuietFacts DEF Ops, Stages
<1> QED  BY <1>3, <1>4 DEF Resume

\* The same call again.
LEMMA NetworkRetryStep ==
  ASSUME Types, NEW owner, Holding(owner), NEW p \in Pane, NetworkRetry(p)
  PROVE  Types' /\ Holding(owner)'
<1> DEFINE r == pane[p]
           m == [to |-> p, request |-> r.request, n |-> r.n + 1]
           n == [r EXCEPT !.n = r.n + 1, !.reply = None]
<1>1. /\ r.request # None /\ r.n < MaxNetworkAttempts
      /\ pane' = [pane EXCEPT ![p].n = @ + 1, ![p].reply = None]
      /\ wire' = wire \cup {m} /\ UNCHANGED <<avars, live, actions>>
  BY DEF NetworkRetry
<1>2. r \in PaneRecords /\ WorkOK(owner, r, wire) /\ WaitingOK(owner, r)
  BY PaneFacts DEF PaneOK
<1>3. /\ r.pc \in CallPcs /\ r.pc \in Stages /\ r.pc # "idle"
      /\ CallOK(owner, r.request) /\ r.request.key = <<r.action, r.pc>> /\ r.request \in Commands
  BY <1>1, <1>2 DEF WaitingOK, CallPcs, Outcomes, Stages, PaneRecords
<1>4. r.action \in 1 .. actions
  BY <1>2, <1>3 DEF WorkOK
<1>5. r.n + 1 \in 1 .. MaxNetworkAttempts /\ r.n + 1 \in 0 .. MaxNetworkAttempts
  BY <1>1, <1>2, ActionFacts DEF PaneRecords
<1>6. Sent(owner, p)
  <2>1. m \in Calls
    BY <1>3, <1>5 DEF Calls
  <2> QED  BY <1>1, <1>3, <1>4, <2>1 DEF Sent
<1>7. n \in PaneRecords
  BY <1>2, <1>5 DEF PaneRecords
<1>8. Moved(p) /\ pane'[p] = n
  <2>1. pane' = [pane EXCEPT ![p] = n]
    BY <1>1 DEF Types
  <2> QED  BY <1>7, <2>1, Moves
<1>9. /\ n.pc = r.pc /\ n.request = r.request /\ n.n = r.n + 1 /\ n.reply = None
      /\ n.id = r.id /\ n.action = r.action /\ n.loaded = r.loaded
      /\ n.result = r.result /\ n.exec = r.exec /\ n.outcome = r.outcome
  BY <1>2 DEF PaneRecords
<1>10. WaitingOK(owner, n)
  BY <1>2, <1>3, <1>5, <1>9, <1>1 DEF WaitingOK
<1>11. ASSUME NEW s \in Stages, s # r.pc, Unsent(r.action, s, wire)
       PROVE  Unsent(r.action, s, wire')
  <2>1. m.request.key # <<r.action, s>>
    BY <1>3, <1>11, KeysDiffer
  <2> QED  BY <1>1, <1>11, <2>1 DEF Unsent
<1>12. WorkOK(owner, n, wire')
  <2>1. Unstarted(r) => Unsent(r.action, "start", wire')
    <3>1. Unstarted(r) => r.pc # "start" /\ Unsent(r.action, "start", wire)
      BY <1>2 DEF WorkOK, Unstarted
    <3> QED  BY <3>1, <1>11 DEF Stages
  <2>2. r.pc \in {"workflow", "claim", "read", "start", "reread", "write"} =>
          Unsent(r.action, "applied", wire') /\ Unsent(r.action, "indeterminate", wire')
    BY <1>2, <1>11 DEF WorkOK, Stages
  <2>3. Unstarted(n) <=> Unstarted(r)
    BY <1>9 DEF Unstarted
  <2> QED  BY <1>2, <1>9, <2>1, <2>2, <2>3 DEF WorkOK
<1> QED  BY <1>1, <1>3, <1>6, <1>8, <1>9, <1>10, <1>12, Continues, QuietFacts

\* No other pane executes the edit that a pane is about to write.
LEMMA OneExecutes ==
  ASSUME Types, NEW owner, Holding(owner), NEW p \in Pane, NEW q \in Pane,
         pane[p].pc \in Executing, pane[q].pc \in Executing, pane[p].id = pane[q].id
  PROVE  p = q
<1>1. WorkOK(owner, pane[p], wire) /\ WorkOK(owner, pane[q], wire)
  BY PaneFacts DEF PaneOK
<1>2. /\ pane[p].action \in 1 .. actions /\ pane[p].exec = <<pane[p].action, "claim">>
      /\ pane[q].exec = <<pane[q].action, "claim">>
  BY <1>1 DEF WorkOK, Executing, Outcomes
<1>3. pane[p].exec = pane[q].exec
  BY KnownExecution
<1>4. pane[p].action = pane[q].action /\ pane[p].action # 0
  BY <1>2, <1>3, ActionFacts, KeysDiffer
<1> QED  BY <1>4 DEF Holding, Alone

\* The one write of an edit: its start is recorded, and no other pane is about to write
\* it.
LEMMA ApplyChangesStep ==
  ASSUME Types, NEW owner, Holding(owner), NEW p \in Pane, ApplyChanges(p)
  PROVE  Types' /\ Holding(owner)'
<1> DEFINE r == pane[p]
           i == r.id
<1>1. r.pc = "write" /\ UNCHANGED <<avars, saved, changes, wire, actions>>
  BY DEF ApplyChanges
<1>2. CASE Indeterminate(p) /\ UNCHANGED <<cells, written>>
  BY <1>1, <1>2, IndeterminateStep DEF live
<1>3. CASE /\ cells' = [cells EXCEPT ![BookOf(p)] = i]
           /\ written' = [written EXCEPT ![i] = @ + 1]
           /\ Goto(p, "readback") \/ Indeterminate(p)
  <2>1. r \in PaneRecords /\ PaneOK(owner, r, wire, InWork)
    BY PaneFacts
  <2>2. /\ i \in Edit /\ r.action \in 1 .. actions /\ owner[r.action] = i /\ r.result = None
        /\ r.exec = <<r.action, "claim">> /\ receipts[<<r.action, "claim">>] # None
        /\ receipts[<<r.action, "start">>] # None /\ written[i] = 0
        /\ Unsent(r.action, "applied", wire) /\ Unsent(r.action, "indeterminate", wire)
        /\ r.request = None /\ r.n = 0 /\ r.pc \in Executing
    BY <1>1, <2>1 DEF PaneOK, WorkOK, WaitingOK, Executing, CallPcs, Outcomes, PaneRecords
  <2>3. edit[i].state = "apply_started"
    BY <2>2, Begun
  <2>4. written' \in [Edit -> Nat] /\ written'[i] = 1 /\ \A j \in Edit \ {i} : written'[j] = written[j]
    BY <1>3, <2>2 DEF Types
  <2>5. cells' \in [Book -> Content]
    <3>1. BookOf(p) \in Book
      BY <2>2, BindingFacts DEF BookOf, Holding, EditOK, TheBook
    <3> QED  BY <1>3, <2>2, <3>1 DEF Types, Content
  <2>6. PICK n \in PaneRecords :
          /\ pane' = [pane EXCEPT ![p] = n]
          /\ n.pc = "readback" \/ (n.pc = "witness" /\ n.outcome = "indeterminate")
          /\ n.id = i /\ n.action = r.action /\ n.exec = r.exec /\ n.loaded = r.loaded
          /\ n.result = r.result /\ n.request = r.request /\ n.n = r.n
    <3>1. CASE Goto(p, "readback")
      <4> DEFINE m == [r EXCEPT !.pc = "readback"]
      <4>1. m \in PaneRecords
        BY <2>1 DEF PaneRecords, PaneStates
      <4>2. pane' = [pane EXCEPT ![p] = m]
        BY <3>1 DEF Goto
      <4>3. /\ m.pc = "readback" /\ m.id = i /\ m.action = r.action /\ m.exec = r.exec
            /\ m.loaded = r.loaded /\ m.result = r.result /\ m.request = r.request /\ m.n = r.n
        BY <2>1 DEF PaneRecords
      <4> QED  BY <4>1, <4>2, <4>3
    <3>2. CASE Indeterminate(p)
      <4> DEFINE m == [r EXCEPT !.pc = "witness", !.outcome = "indeterminate"]
      <4>1. m \in PaneRecords
        BY <2>1 DEF PaneRecords, PaneStates, Outcomes
      <4>2. pane' = [pane EXCEPT ![p] = m]
        BY <3>2 DEF Indeterminate, Types
      <4>3. /\ m.pc = "witness" /\ m.outcome = "indeterminate" /\ m.id = i
            /\ m.action = r.action /\ m.exec = r.exec
            /\ m.loaded = r.loaded /\ m.result = r.result /\ m.request = r.request /\ m.n = r.n
        BY <2>1 DEF PaneRecords
      <4> QED  BY <4>1, <4>2, <4>3
    <3> QED  BY <1>3, <3>1, <3>2
  <2>7. Moved(p) /\ pane'[p] = n
    BY <2>6, Moves
  <2>8. Types'
    BY <1>1, <2>4, <2>5, <2>7 DEF Types, Moved, avars
  <2>9. InWork' = InWork /\ Alone'
    <3>1. \A q \in Pane : pane'[q].action = pane[q].action
      BY <2>6, <2>7 DEF Moved
    <3> QED  BY <3>1 DEF InWork, Alone, Holding
  <2>10. ASSUME NEW j \in Edit
         PROVE  EditOK(owner, j)'
    <3>1. EditOK(owner, j)
      BY DEF Holding
    <3>2. CASE j = i
      BY <1>1, <2>3, <2>4, <3>1, <3>2 DEF EditOK, Executed, avars, Started
    <3>3. CASE j # i
      BY <1>1, <2>4, <3>1, <3>3 DEF EditOK, Executed, avars
    <3> QED  BY <3>2, <3>3
  <2>11. ASSUME NEW a \in Actions, NEW s \in Stages
         PROVE  ReceiptOK(owner, a, s)'
    <3>1. ReceiptOK(owner, a, s)
      BY DEF Holding
    <3> QED  BY <1>1, <3>1 DEF ReceiptOK, avars
  <2>12. ASSUME NEW c \in Commands, CallOK(owner, c)
         PROVE  CallOK(owner, c)'
    <3>1. c.id \in Edit
      BY DEF Commands
    <3>2. written[c.id] = 1 => written'[c.id] = 1
      BY <2>4, <3>1
    <3> QED  BY <1>1, <2>12, <3>2 DEF CallOK, avars
  <2>13. \A m \in wire' : CallOK(owner, m.request)'
    BY <1>1, <2>12 DEF Types, Calls, Holding
  <2>14. ASSUME NEW q \in Pane, q # p
         PROVE  PaneOK(owner, pane[q], wire, InWork)'
    <3>1. pane'[q] = pane[q] /\ pane[q] \in PaneRecords /\ PaneOK(owner, pane[q], wire, InWork)
      BY <2>7, <2>14, PaneFacts DEF Moved
    <3>2. ShownOK(pane[q])' /\ FailureOK(pane[q], wire, InWork)'
      BY <1>1, <2>9, <3>1 DEF PaneOK, ShownOK, FailureOK, Unsent, avars
    <3>3. WaitingOK(owner, pane[q])'
      <4>1. pane[q].request \in Commands \cup {None}
        BY <3>1 DEF PaneRecords
      <4> QED  BY <1>1, <2>12, <3>1, <4>1 DEF PaneOK, WaitingOK, avars
    <3>4. pane[q].pc \in {"read", "start", "reread", "write"} =>
            pane[q].id # i /\ pane[q].id \in Edit
      BY <2>2, <2>14, <3>1, OneExecutes DEF Executing, PaneOK, WorkOK
    <3>5. pane[q].pc \in {"readback", "witness"} => pane[q].id \in Edit
      BY <3>1 DEF PaneOK, WorkOK
    <3>6. WorkOK(owner, pane[q], wire)'
      BY <1>1, <2>4, <3>1, <3>4, <3>5 DEF PaneOK, WorkOK, Unstarted, Unsent, avars
    <3> QED  BY <3>2, <3>3, <3>6 DEF PaneOK
  <2>15. PaneOK(owner, pane[p], wire, InWork)'
    <3>1. ShownOK(n)'
      BY <1>1, <2>1, <2>6 DEF PaneOK, ShownOK, avars
    <3>2. FailureOK(n, wire, InWork)'
      BY <2>2, <2>6, NothingAssumption DEF FailureOK
    <3>3. WaitingOK(owner, n)'
      BY <2>2, <2>6 DEF WaitingOK, CallPcs, Outcomes
    <3>4. WorkOK(owner, n, wire)'
      BY <1>1, <2>2, <2>4, <2>6, NothingAssumption
         DEF WorkOK, Unstarted, Executing, Publishing, Outcomes, Stages, avars
    <3> QED  BY <2>7, <3>1, <3>2, <3>3, <3>4 DEF PaneOK
  <2> QED  BY <2>8, <2>9, <2>10, <2>11, <2>13, <2>14, <2>15 DEF Holding
<1> QED  BY <1>2, <1>3 DEF ApplyChanges

-----------------------------------------------------------------------------
(* The steps of the user and of coauthors.                                  *)

\* No call of the next action was ever made.
LEMMA NextActionIsNew ==
  ASSUME Types, NEW owner, Holding(owner), actions < MaxActions, NEW s \in Stages
  PROVE  Unsent(actions + 1, s, wire) /\ actions + 1 \notin InWork /\ actions + 1 \in Actions
<1> DEFINE k == actions + 1
<1>1. actions \in Nat /\ k \in Actions /\ k # 0 /\ k \notin 1 .. actions
  BY ActionFacts DEF Actions
<1>2. receipts[<<k, s>>] = None
  <2>1. ReceiptOK(owner, k, s)
    BY <1>1 DEF Holding
  <2> QED  BY <1>1, <2>1 DEF ReceiptOK
<1>3. ASSUME NEW m \in wire
      PROVE  m.request.key # <<k, s>>
  <2>1. PICK a \in 1 .. actions, t \in Stages : m.request.key = <<a, t>>
    BY DEF Holding, CallOK
  <2> QED  BY <1>1, <2>1, KeysDiffer
<1>4. ASSUME NEW q \in Pane
      PROVE  pane[q].action # k
  <2>1. WorkOK(owner, pane[q], wire)
    BY PaneFacts DEF PaneOK
  <2> QED  BY <1>1, <2>1 DEF WorkOK
<1> QED  BY <1>1, <1>2, <1>3, <1>4 DEF Unsent, InWork

\* The user starts an action, whose number is new.
LEMMA ExecuteEditStep ==
  ASSUME Types, NEW owner \in [Actions -> Edit], Holding(owner), NEW p \in Pane, ExecuteEdit(p)
  PROVE  Types' /\ \E o \in [Actions -> Edit] : Holding(o)'
<1>1. /\ pane[p].pc = "idle" /\ actions < MaxActions /\ pane[p].loaded \in EditStates
      /\ actions' = actions + 1 /\ UNCHANGED <<avars, live, wire>>
  BY DEF ExecuteEdit, EditStates
<1>2. pane[p] \in PaneRecords /\ PaneOK(owner, pane[p], wire, InWork)
  BY PaneFacts
<1>3. PICK i \in Edit :
        i = pane[p].id /\ (pane[p].loaded = "session_verified" => edit[i].state = "session_verified")
  BY <1>1, <1>2, NothingAssumption DEF PaneOK, ShownOK
<1>4. PICK k \in Actions :
        /\ k = actions + 1 /\ actions \in Nat /\ k \in 1 .. k /\ k # 0 /\ k \in 0 .. MaxActions
        /\ k \notin 1 .. actions /\ 1 .. actions \subseteq 1 .. k /\ 1 .. actions \subseteq Actions
  BY <1>1, ActionFacts DEF Actions
<1>5. PICK o \in [Actions -> Edit] : o[k] = i /\ \A a \in 1 .. actions : o[a] = owner[a]
  <2> DEFINE x == [owner EXCEPT ![k] = i]
  <2>1. x \in [Actions -> Edit] /\ x[k] = i /\ \A a \in 1 .. actions : x[a] = owner[a]
    BY <1>3, <1>4
  <2> QED  BY <2>1
<1>6. \A s \in Stages : Unsent(k, s, wire)
  BY <1>1, <1>4, NextActionIsNew
<1>7. k \notin InWork
  BY <1>1, <1>4, NextActionIsNew DEF Stages
<1>8. PICK n \in PaneRecords :
        /\ pane' = [pane EXCEPT ![p] = n]
        /\ \/ n.pc = "workflow" /\ n.exec = None
           \/ n.pc = "resume" /\ n.exec = edit[i].exec /\ edit[i].state = "session_verified"
        /\ n.id = i /\ n.action = k /\ n.loaded = None /\ n.request = None /\ n.n = 0
        /\ n.reply = None /\ n.outcome = None /\ n.result = None
  <2> DEFINE resumed == pane[p].loaded = "session_verified"
             x == [Idle EXCEPT !.pc = IF resumed THEN "resume" ELSE "workflow",
                               !.id = i, !.action = k,
                               !.exec = IF resumed THEN edit[i].exec ELSE None]
  <2>1. pane' = [pane EXCEPT ![p] = x]
    BY <1>3, <1>4 DEF ExecuteEdit
  <2>2. edit[i].exec \in Key \cup {None}
    BY OfficeAssumption DEF Types, Documents
  <2>3. /\ x.pc = IF resumed THEN "resume" ELSE "workflow"
        /\ x.exec = IF resumed THEN edit[i].exec ELSE None
        /\ x.id = i /\ x.action = k /\ x.loaded = None /\ x.request = None /\ x.n = 0
        /\ x.reply = None /\ x.outcome = None /\ x.result = None
    BY DEF Idle
  <2>4. x = IF resumed THEN [Idle EXCEPT !.pc = "resume", !.id = i, !.action = k, !.exec = edit[i].exec]
                       ELSE [Idle EXCEPT !.pc = "workflow", !.id = i, !.action = k, !.exec = None]
    OBVIOUS
  <2>5. /\ [Idle EXCEPT !.pc = "resume", !.id = i, !.action = k, !.exec = edit[i].exec] \in PaneRecords
        /\ [Idle EXCEPT !.pc = "workflow", !.id = i, !.action = k, !.exec = None] \in PaneRecords
    <3>1. \A pc \in {"resume", "workflow"}, exec \in Key \cup {None} :
            [Idle EXCEPT !.pc = pc, !.id = i, !.action = k, !.exec = exec] \in PaneRecords
      <4>1. 0 \in 0 .. MaxNetworkAttempts /\ i \in Edit \cup {None} /\ k \in 0 .. MaxActions
        BY <1>4, ActionFacts
      <4> QED  BY <4>1 DEF PaneRecords, PaneStates, Idle
    <3> QED  BY <2>2, <3>1
  <2> HIDE DEF x
  <2>6. x \in PaneRecords
    BY <2>4, <2>5
  <2> QED  BY <1>3, <2>1, <2>3, <2>6
<1>9. Moved(p) /\ pane'[p] = n
  BY <1>8, Moves
<1>10. Types'
  BY <1>1, <1>4, <1>9 DEF Types, Moved, avars, live
<1>11. \A a \in 1 .. actions : a \notin InWork => a \notin InWork'
  BY <1>4, <1>8, <1>9 DEF InWork, Moved
<1>12. ASSUME NEW j \in Edit
       PROVE  EditOK(o, j)'
  <2>1. EditOK(owner, j)
    BY DEF Holding
  <2>2. ASSUME NEW a \in 1 .. actions, Executed(owner, j, a)
        PROVE  a \in 1 .. k /\ Executed(o, j, a)
    BY <1>4, <1>5, <2>2 DEF Executed
  <2>3. edit[j].exec # None => \E a \in 1 .. k :
          /\ Executed(o, j, a)
          /\ edit[j].state \in Started => receipts[<<a, "start">>] # None
          /\ edit[j].state \in Reported => \/ receipts[<<a, "applied">>] # None
                                           \/ receipts[<<a, "indeterminate">>] # None
    BY <2>1, <2>2 DEF EditOK
  <2> QED  BY <1>1, <1>4, <2>1, <2>3 DEF EditOK, Executed, avars, live
<1>13. ASSUME NEW a \in Actions, NEW s \in Stages
       PROVE  ReceiptOK(o, a, s)'
  <2>1. ReceiptOK(owner, a, s)
    BY DEF Holding
  <2>2. receipts[<<a, s>>] # None => a \in 1 .. actions /\ a <= k /\ o[a] = owner[a]
    BY <1>4, <1>5, <2>1 DEF ReceiptOK, Actions
  <2> QED  BY <1>1, <1>4, <2>1, <2>2 DEF ReceiptOK, avars
<1>14. ASSUME NEW c, CallOK(owner, c)
       PROVE  CallOK(o, c)'
  <2>1. PICK a \in 1 .. actions, s \in Stages :
          /\ c.key = <<a, s>> /\ c.id = owner[a] /\ c.required = Required
          /\ c.op = "claim_execution" => s = "claim"
          /\ c.op = "mark_apply_started" => s = "start"
          /\ c.op = "abort_claim" => s = "abort"
          /\ c.op = "verify_execution" => s \in Outcomes /\ c.witness.outcome = s
          /\ c.op = "publish_verified_snapshot" => s = "publish"
          /\ s \notin {"claim", "publish"} => c.exec = <<a, "claim">>
          /\ s = "applied" => written[c.id] = 1
          /\ s = "publish" => edit[c.id].state = "session_verified" /\ edit[c.id].exec = c.exec
    BY <1>14 DEF CallOK
  <2>2. a \in 1 .. k /\ o[a] = owner[a]
    BY <1>4, <1>5
  <2> QED  BY <1>1, <1>4, <2>1, <2>2 DEF CallOK, avars, live
<1>15. \A m \in wire' : CallOK(o, m.request)'
  BY <1>1, <1>14 DEF Holding
<1>16. ASSUME NEW q \in Pane, q # p
       PROVE  PaneOK(o, pane[q], wire, InWork)'
  <2>1. pane'[q] = pane[q] /\ pane[q] \in PaneRecords /\ PaneOK(owner, pane[q], wire, InWork)
    BY <1>9, <1>16, PaneFacts DEF Moved
  <2>2. ShownOK(pane[q])'
    BY <1>1, <2>1 DEF PaneOK, ShownOK, avars
  <2>3. FailureOK(pane[q], wire, InWork)'
    BY <1>1, <1>4, <1>11, <2>1 DEF PaneOK, FailureOK, Unsent, avars
  <2>4. WaitingOK(o, pane[q])'
    BY <1>1, <1>14, <2>1 DEF PaneOK, WaitingOK, avars
  <2>5. WorkOK(o, pane[q], wire)'
    BY <1>1, <1>4, <1>5, <2>1 DEF PaneOK, WorkOK, Unstarted, Unsent, avars, live
  <2> QED  BY <2>2, <2>3, <2>4, <2>5 DEF PaneOK
<1>17. PaneOK(o, pane[p], wire, InWork)'
  <2>1. ShownOK(n)' /\ FailureOK(n, wire, InWork)' /\ WaitingOK(o, n)'
    BY <1>8, NothingAssumption DEF ShownOK, FailureOK, WaitingOK, CallPcs, Outcomes, EditStates
  <2>2. Unsent(k, "start", wire)' /\ Unsent(k, "applied", wire)' /\ Unsent(k, "indeterminate", wire)'
    BY <1>1, <1>6 DEF Unsent, avars, Stages
  <2>3. WorkOK(o, n, wire)'
    BY <1>1, <1>3, <1>4, <1>5, <1>8, <2>2
       DEF WorkOK, Unstarted, Executing, Publishing, Outcomes, avars
  <2> QED  BY <1>9, <2>1, <2>3 DEF PaneOK
<1>18. Alone'
  <2> SUFFICES ASSUME NEW x \in Pane, NEW y \in Pane,
                      pane'[x].action = pane'[y].action, pane'[x].action # 0
               PROVE  x = y
    BY DEF Alone
  <2> QED  BY <1>7, <1>8, <1>9 DEF Alone, Holding, Moved, InWork
<1>19. Holding(o)'
  BY <1>12, <1>13, <1>15, <1>16, <1>17, <1>18 DEF Holding
<1> QED  BY <1>5, <1>10, <1>19

\* A pane shows an edit.
LEMMA LoadWorkflowStep ==
  ASSUME Types, NEW owner, Holding(owner), NEW p \in Pane, NEW i \in Edit, LoadWorkflow(p, i)
  PROVE  Types' /\ Holding(owner)'
<1> DEFINE n == [Idle EXCEPT !.id = i, !.loaded = edit[i].state]
<1>1. pane' = [pane EXCEPT ![p] = n] /\ UNCHANGED <<avars, live, wire, actions>>
  BY DEF LoadWorkflow
<1>2. edit[i].state \in EditStates
  BY OfficeAssumption DEF Types, Documents, Holding, EditOK
<1>3. n \in PaneRecords
  BY <1>2, IdleType DEF PaneRecords
<1>4. Moved(p) /\ pane'[p] = n
  BY <1>1, <1>3, Moves
<1>5. /\ n.pc = "idle" /\ n.action = 0 /\ n.request = None /\ n.n = 0
      /\ n.id = i /\ n.loaded = edit[i].state /\ n.result = None
  BY DEF Idle
<1> HIDE DEF n
<1>6. ShownOK(n) /\ FailureOK(n, wire', InWork')
  BY <1>5, NothingAssumption DEF ShownOK, FailureOK
<1> QED  BY <1>1, <1>4, <1>5, <1>6, Ends, QuietFacts

\* A pane is closed at any step of its action.
LEMMA CloseStep ==
  ASSUME Types, NEW owner, Holding(owner), NEW p \in Pane, Close(p)
  PROVE  Types' /\ Holding(owner)'
<1>1. pane' = [pane EXCEPT ![p] = Idle] /\ UNCHANGED <<avars, live, wire, actions>>
  BY DEF Close
<1>2. Moved(p) /\ pane'[p] = Idle
  BY <1>1, IdleType, Moves
<1>3. /\ Idle.pc = "idle" /\ Idle.action = 0 /\ Idle.request = None /\ Idle.n = 0
      /\ Idle.loaded = None /\ Idle.result = None
  BY DEF Idle
<1>4. ShownOK(Idle) /\ FailureOK(Idle, wire', InWork')
  BY <1>3, NothingAssumption DEF ShownOK, FailureOK, EditStates
<1> QED  BY <1>1, <1>2, <1>3, <1>4, Ends, QuietFacts

\* Coauthors type and save; nothing the panes and the service know speaks of the cells.
LEMMA CoauthorStep ==
  ASSUME Types, NEW owner, Holding(owner), NEW b \in Book, Coauthor(b)
  PROVE  Types' /\ Holding(owner)'
<1>1. UNCHANGED <<avars, written, pane, wire, actions>>
  BY DEF Coauthor
<1>2. cells' \in [Book -> Content]
  BY DEF Coauthor, Types, Content
<1>3. SavedGrows
  <2>1. CASE saved' = [saved EXCEPT ![b] = Append(@, cells[b])]
    <3>1. cells[b] \in Content
      BY DEF Types
    <3> QED  BY <2>1, <3>1, SavedAppended
  <2>2. CASE UNCHANGED saved
    BY <2>2, SavedKept
  <2> QED  BY <2>1, <2>2 DEF Coauthor
<1>4. Types'
  BY <1>1, <1>2, <1>3 DEF Types, SavedGrows, avars
<1>5. ASSUME NEW i \in Edit
      PROVE  EditOK(owner, i)'
  <2>1. EditOK(owner, i)
    BY DEF Holding
  <2>2. Len(saved[TheBook]) >= 2 =>
          Len(saved'[TheBook]) >= 2 /\ saved'[TheBook][2] = saved[TheBook][2]
    BY <1>3, BindingFacts DEF SavedGrows
  <2> QED  BY <1>1, <2>1, <2>2 DEF EditOK, Executed, avars
<1>6. ASSUME NEW a \in Actions, NEW s \in Stages
      PROVE  ReceiptOK(owner, a, s)'
  <2>1. ReceiptOK(owner, a, s)
    BY DEF Holding
  <2> QED  BY <1>1, <2>1 DEF ReceiptOK, avars
<1>7. ASSUME NEW r
      PROVE  CallOK(owner, r) => CallOK(owner, r)'
  BY <1>1 DEF CallOK, avars
<1>8. \A m \in wire' : CallOK(owner, m.request)'
  BY <1>1, <1>7 DEF Holding
<1>9. ASSUME NEW q \in Pane
      PROVE  PaneOK(owner, pane[q], wire, InWork)'
  <2>1. PaneOK(owner, pane[q], wire, InWork) /\ pane'[q] = pane[q] /\ InWork' = InWork
    BY <1>1, PaneFacts DEF InWork
  <2>2. ShownOK(pane[q])' /\ FailureOK(pane[q], wire, InWork)'
    BY <1>1, <2>1 DEF PaneOK, ShownOK, FailureOK, Unsent, avars
  <2>3. WaitingOK(owner, pane[q])'
    BY <1>1, <1>7, <2>1 DEF PaneOK, WaitingOK, avars
  <2>4. WorkOK(owner, pane[q], wire)'
    BY <1>1, <2>1 DEF PaneOK, WorkOK, Unsent, Unstarted, avars
  <2> QED  BY <2>2, <2>3, <2>4 DEF PaneOK
<1>10. Alone'
  BY <1>1 DEF Alone, Holding
<1> QED  BY <1>4, <1>5, <1>6, <1>8, <1>9, <1>10 DEF Holding

-----------------------------------------------------------------------------
(* A copy of a call reaches the service.                                    *)

\* What the service does not take back: an execution that began, a verdict, a
\* receipt.  Only a start that was called for starts.
Kept(owner, key) ==
  /\ \A i \in Edit :
       /\ edit[i].exec # None => edit'[i].exec = edit[i].exec /\ edit'[i].required = edit[i].required
       /\ edit[i].state \in {"session_verified", "aborted_before_apply", "stale_precondition"} =>
            edit'[i].state = edit[i].state
       /\ edit[i].publication # 0 => edit'[i].publication # 0
       /\ edit[i].state = "claimed" =>
            \/ edit'[i].state \in {"claimed", "aborted_before_apply", "stale_precondition"}
            \/ edit'[i].state = "apply_started"
                 /\ \E a \in 1 .. actions : edit[i].exec = <<a, "claim">> /\ key = <<a, "start">>
  /\ \A k \in Key : \/ receipts'[k] = receipts[k]
                    \/ k = key /\ receipts[k] = None

\* The service is in order after it took a call, or refused it.
Served(owner, key) ==
  /\ edit' \in [Key -> Documents] /\ holder' \in [Book -> Key \cup {None}]
  /\ fence' \in [Book -> Nat] /\ head' \in [Book -> Nat]
  /\ receipts' \in [Key -> Receipts \cup {None}]
  /\ \A i \in Edit : EditOK(owner, i)'
  /\ \A a \in Actions, s \in Stages : ReceiptOK(owner, a, s)'
  /\ Kept(owner, key)

\* A call on the wire stays what it was when the service moves on.
LEMMA CallKept ==
  ASSUME Types, NEW owner, Holding(owner), NEW key, Kept(owner, key),
         UNCHANGED <<live, actions>>, NEW c \in Commands, CallOK(owner, c)
  PROVE  CallOK(owner, c)'
<1>1. c.id \in Edit
  BY DEF Commands
<1>2. edit[c.id].state = "session_verified" =>
        edit'[c.id].state = "session_verified" /\ edit'[c.id].exec = edit[c.id].exec
  <2>1. edit[c.id].state = "session_verified" => edit[c.id].exec # None
    BY <1>1 DEF Holding, EditOK
  <2> QED  BY <1>1, <2>1 DEF Kept
<1> QED  BY <1>2 DEF CallOK, live

\* A call that was never made has no receipt, whatever else is served.
LEMMA StillUnsent ==
  ASSUME Types, NEW owner, NEW m \in wire, Kept(owner, m.request.key), wire' \subseteq wire,
         NEW a \in Actions, NEW s \in Stages, Unsent(a, s, wire)
  PROVE  Unsent(a, s, wire)'
<1>1. <<a, s>> \in Key
  BY KeyFacts
<1>2. m.request.key # <<a, s>>
  BY DEF Unsent
<1>3. receipts'[<<a, s>>] = None
  BY <1>1, <1>2 DEF Kept, Unsent
<1> QED  BY <1>3 DEF Unsent

\* What a pane in state r knew it still knows.
LEMMA KnowledgeKept ==
  ASSUME Types, NEW owner, Holding(owner), NEW m \in wire, Kept(owner, m.request.key),
         UNCHANGED <<live, actions>>, wire' \subseteq wire, InWork' = InWork,
         NEW r \in PaneRecords, PaneOK(owner, r, wire, InWork)
  PROVE  PaneOK(owner, r, wire, InWork)'
<1>1. r.id \in Edit => EditOK(owner, r.id)
  BY DEF Holding
<1>2. ShownOK(r)'
  <2>1. r.loaded # None => r.id \in Edit
    BY DEF PaneOK, ShownOK
  <2>2. r.loaded = "session_verified" =>
          /\ r.id \in Edit /\ edit[r.id].state = "session_verified"
          /\ edit[r.id].exec # None
          /\ r.result = "done" /\ edit[r.id].required => edit[r.id].publication # 0
    BY <1>1, <2>1, NothingAssumption DEF PaneOK, ShownOK, EditOK, EditStates
  <2> QED  BY <2>1, <2>2 DEF ShownOK, Kept
<1>3. FailureOK(r, wire, InWork)'
  <2> SUFFICES ASSUME r.result = "failed", r.exec # None
               PROVE  /\ r.id \in Edit /\ edit'[r.id].exec = r.exec
                      /\ \/ edit'[r.id].state \in {"aborted_before_apply", "stale_precondition",
                                                  "session_verified"}
                         \/ /\ edit'[r.id].state = "claimed"
                            /\ \E a \in 1 .. actions :
                                 r.exec = <<a, "claim">> /\ Unsent(a, "start", wire)'
                                   /\ a \notin InWork'
    BY DEF FailureOK
  <2>1. r.id \in Edit /\ edit[r.id].exec = r.exec /\ edit'[r.id].exec = r.exec
    BY DEF PaneOK, FailureOK, Kept
  <2>2. CASE edit[r.id].state \in {"aborted_before_apply", "stale_precondition", "session_verified"}
    BY <2>1, <2>2 DEF Kept
  <2>3. CASE edit[r.id].state = "claimed"
    <3>1. PICK a \in 1 .. actions :
            r.exec = <<a, "claim">> /\ Unsent(a, "start", wire) /\ a \notin InWork
      BY <2>3 DEF PaneOK, FailureOK
    <3>2. Unsent(a, "start", wire)'
      BY <3>1, ActionFacts, StillUnsent DEF Stages
    <3>3. edit'[r.id].state # "apply_started"
      <4> SUFFICES ASSUME edit'[r.id].state = "apply_started"
                   PROVE  FALSE
        OBVIOUS
      <4>1. PICK b \in 1 .. actions : edit[r.id].exec = <<b, "claim">> /\ m.request.key = <<b, "start">>
        BY <2>1, <2>3 DEF Kept
      <4>2. b = a
        BY <2>1, <3>1, <4>1, KeysDiffer
      <4> QED  BY <3>1, <4>1, <4>2 DEF Unsent
    <3>4. edit'[r.id].state \in {"claimed", "aborted_before_apply", "stale_precondition"}
      BY <2>1, <2>3, <3>3 DEF Kept
    <3> QED  BY <2>1, <3>1, <3>2, <3>4
  <2> QED  BY <2>2, <2>3 DEF PaneOK, FailureOK
<1>4. r.pc # "idle" => r.action \in Actions /\ r.id \in Edit
  BY ActionFacts DEF PaneOK, WorkOK
<1>5. \A s \in Stages : r.pc # "idle" /\ receipts[<<r.action, s>>] # None =>
        receipts'[<<r.action, s>>] = receipts[<<r.action, s>>]
  BY <1>4, KeyFacts DEF Kept
<1>6. WaitingOK(owner, r)'
  <2>1. r.request # None => CallOK(owner, r.request)'
    BY CallKept DEF PaneRecords, PaneOK, WaitingOK
  <2>2. r.request # None => r.pc # "idle" /\ r.pc \in Stages
    BY DEF PaneOK, WaitingOK, CallPcs, Outcomes, Stages
  <2> QED  BY <1>5, <2>1, <2>2 DEF PaneOK, WaitingOK
<1>7. WorkOK(owner, r, wire)'
  <2>1. \A s \in Stages : r.pc # "idle" /\ Unsent(r.action, s, wire) => Unsent(r.action, s, wire)'
    BY <1>4, StillUnsent
  <2>2. r.pc \in Publishing => edit'[r.id].state = "session_verified" /\ edit'[r.id].exec = r.exec
    BY <1>1, <1>4 DEF PaneOK, WorkOK, Kept, EditOK, Publishing
  <2>3. Unstarted(r) => Unsent(r.action, "start", wire)'
    BY <2>1 DEF PaneOK, WorkOK, Unstarted, Stages
  <2>4. r.pc \in {"workflow", "claim", "read", "start", "reread", "write"} =>
          Unsent(r.action, "applied", wire)' /\ Unsent(r.action, "indeterminate", wire)'
    BY <2>1 DEF PaneOK, WorkOK, Stages
  <2>5. r.pc \in Executing => receipts'[<<r.action, "claim">>] # None
    BY <1>5 DEF PaneOK, WorkOK, Executing, Outcomes, Stages
  <2>6. r.pc \in {"reread", "write"} => receipts'[<<r.action, "start">>] # None
    BY <1>5 DEF PaneOK, WorkOK, Stages
  <2> QED  BY <2>2, <2>3, <2>4, <2>5, <2>6 DEF PaneOK, WorkOK, Unstarted, live
<1> QED  BY <1>2, <1>3, <1>6, <1>7 DEF PaneOK

\* The answer is delivered, or nobody waits for it.
LEMMA Delivered ==
  ASSUME Types, NEW owner, Holding(owner), NEW m \in wire, NEW reply \in Replies,
         Answer(m, reply), Served(owner, m.request.key),
         reply.ok => /\ receipts'[m.request.key] # None
                     /\ reply.state = receipts'[m.request.key].state
  PROVE  Types' /\ Holding(owner)'
<1> DEFINE p == m.to
<1>1. /\ wire' = wire \ {m} /\ wire' \subseteq wire /\ UNCHANGED <<live, actions>>
      /\ pane' = IF pane[p].request = m.request /\ pane[p].n = m.n
                 THEN [pane EXCEPT ![p].reply = reply] ELSE pane
  BY DEF Answer
<1>2. p \in Pane /\ m.request \in Commands
  BY DEF Types, Calls
<1>3. ASSUME NEW q \in Pane
      PROVE  pane'[q] \in PaneRecords /\ pane'[q].action = pane[q].action
  <2>1. pane[q] \in PaneRecords
    BY PaneFacts
  <2>2. pane'[q] = pane[q] \/ pane'[q] = [pane[q] EXCEPT !.reply = reply]
    BY <1>1, <1>2 DEF Types
  <2> QED  BY <2>1, <2>2 DEF PaneRecords
<1>4. pane' \in [Pane -> PaneRecords]
  BY <1>1, <1>3 DEF Types
<1>5. InWork' = InWork /\ Alone'
  BY <1>3 DEF InWork, Alone, Holding
<1>6. Types'
  BY <1>1, <1>4 DEF Types, Served, live
<1>7. \A x \in wire' : CallOK(owner, x.request)'
  BY <1>1, CallKept DEF Served, Holding, Types, Calls
<1>8. ASSUME NEW q \in Pane
      PROVE  PaneOK(owner, pane[q], wire, InWork)'
  <2>1. PICK r \in PaneRecords : r = pane[q] /\ PaneOK(owner, r, wire, InWork)
    BY PaneFacts
  <2>2. PaneOK(owner, r, wire, InWork)'
    BY <1>1, <1>5, <2>1, KnowledgeKept DEF Served
  <2>3. CASE pane'[q] = pane[q]
    BY <2>1, <2>2, <2>3
  <2>4. CASE pane'[q] # pane[q]
    <3>1. /\ q = p /\ r.request = m.request
          /\ pane'[q] = [r EXCEPT !.reply = reply]
      BY <1>1, <1>2, <2>1, <2>4 DEF Types
    <3>2. PICK n \in PaneRecords : n = [r EXCEPT !.reply = reply]
      BY DEF PaneRecords
    <3>3. /\ n.pc = r.pc /\ n.loaded = r.loaded /\ n.id = r.id /\ n.action = r.action
          /\ n.exec = r.exec /\ n.request = r.request /\ n.n = r.n /\ n.reply = reply
          /\ n.outcome = r.outcome /\ n.result = r.result
      BY <3>2 DEF PaneRecords
    <3>4. r.request # None
      BY <1>2, <3>1, NothingAssumption
    <3>5. m.request.key = <<r.action, r.pc>>
      BY <2>1, <3>1, <3>4 DEF PaneOK, WaitingOK
    <3>6. ShownOK(n)' /\ FailureOK(n, wire, InWork)'
      BY <2>2, <3>3 DEF PaneOK, ShownOK, FailureOK
    <3>7. WaitingOK(owner, n)'
      BY <2>2, <3>3, <3>5 DEF PaneOK, WaitingOK
    <3>8. WorkOK(owner, n, wire)'
      BY <2>2, <3>3 DEF PaneOK, WorkOK, Unstarted
    <3>9. pane'[q] = n
      BY <3>1, <3>2
    <3> QED  BY <3>6, <3>7, <3>8, <3>9 DEF PaneOK
  <2> QED  BY <2>3, <2>4
<1> QED  BY <1>5, <1>6, <1>7, <1>8 DEF Holding, Served

\* A replay and a refusal change nothing.
LEMMA NothingServed ==
  ASSUME Types, NEW owner, Holding(owner), NEW key, UNCHANGED <<avars, live, actions>>
  PROVE  Served(owner, key)
<1>1. ASSUME NEW i \in Edit
      PROVE  EditOK(owner, i)'
  BY DEF EditOK, Executed, Holding, avars, live
<1>2. ASSUME NEW a \in Actions, NEW s \in Stages
      PROVE  ReceiptOK(owner, a, s)'
  <2>1. ReceiptOK(owner, a, s)
    BY DEF Holding
  <2> QED  BY <2>1 DEF ReceiptOK, avars
<1>3. Kept(owner, key)
  BY DEF Kept, avars
<1> QED  BY <1>1, <1>2, <1>3 DEF Served, Types, avars

\* One edit took the effect of a call of action a.
LEMMA Effects ==
  ASSUME Types, NEW owner \in [Actions -> Edit], Holding(owner), NEW a \in 1 .. actions, NEW s \in Stages,
         NEW c \in Commands, c.key = <<a, s>>, c.id = owner[a],
         NEW e \in Documents, e.state \in EditStates, Effect(c, c.id, e),
         UNCHANGED <<live, actions>>,
         holder' \in [Book -> Key \cup {None}], fence' \in [Book -> Nat], head' \in [Book -> Nat],
         \A j \in Edit \ {c.id} : edit[j].state \in {"claimed", "apply_started"} =>
            holder'[TheBook] = edit[j].exec,
         EditOK(owner, c.id)',
         \A b \in Actions, t \in Stages : owner[b] = c.id => ReceiptOK(owner, b, t)',
         edit[c.id].exec # None => e.exec = edit[c.id].exec /\ e.required = edit[c.id].required,
         edit[c.id].state \in {"session_verified", "aborted_before_apply", "stale_precondition"} =>
            e.state = edit[c.id].state,
         edit[c.id].publication # 0 => e.publication # 0,
         edit[c.id].state = "claimed" =>
            \/ e.state \in {"claimed", "aborted_before_apply", "stale_precondition"}
            \/ e.state = "apply_started" /\ edit[c.id].exec = <<a, "claim">> /\ s = "start"
  PROVE  Served(owner, c.key)
<1>1. c.id \in Edit /\ c.id \in Key /\ c.key \in Key /\ receipts[c.key] = None
  BY OfficeAssumption DEF Commands, Effect
<1>2. /\ edit' \in [Key -> Documents] /\ edit'[c.id] = e
      /\ \A j \in Edit \ {c.id} : edit'[j] = edit[j]
  BY <1>1, OfficeAssumption DEF Effect, Types
<1>3. /\ receipts' \in [Key -> Receipts \cup {None}]
      /\ \A k \in Key \ {c.key} : receipts'[k] = receipts[k]
      /\ receipts'[c.key] # None
  <2>1. [id |-> c.id, state |-> e.state, fence |-> e.fence] \in Receipts
    BY <1>1 DEF Receipts, Documents
  <2> QED  BY <1>1, <2>1, NothingAssumption DEF Effect, Types
<1>4. ASSUME NEW j \in Edit
      PROVE  EditOK(owner, j)'
  <2>1. CASE j = c.id
    BY <2>1
  <2>2. CASE j # c.id
    <3>1. EditOK(owner, j) /\ edit'[j] = edit[j]
      BY <1>2, <2>2 DEF Holding
    <3>2. \A b \in 1 .. actions, t \in Stages :
            receipts[<<b, t>>] # None => receipts'[<<b, t>>] # None
      BY <1>1, <1>3, ActionFacts, KeyFacts
    <3>3. edit[j].exec # None => \E b \in 1 .. actions :
            /\ Executed(owner, j, b)
            /\ edit[j].state \in Started => receipts'[<<b, "start">>] # None
            /\ edit[j].state \in Reported => \/ receipts'[<<b, "applied">>] # None
                                             \/ receipts'[<<b, "indeterminate">>] # None
      BY <3>1, <3>2 DEF EditOK, Stages
    <3> QED  BY <2>2, <3>1, <3>3 DEF EditOK, Executed, live
  <2> QED  BY <2>1, <2>2
<1>5. ASSUME NEW b \in Actions, NEW t \in Stages
      PROVE  ReceiptOK(owner, b, t)'
  <2>1. CASE owner[b] = c.id
    BY <2>1
  <2>2. CASE owner[b] # c.id
    <3>1. ReceiptOK(owner, b, t)
      BY DEF Holding
    <3>2. <<b, t>> # c.key /\ <<b, t>> \in Key
      BY <2>2, KeyFacts, KeysDiffer
    <3>3. receipts'[<<b, t>>] = receipts[<<b, t>>]
      BY <1>3, <3>2
    <3>4. owner[b] \in Edit => edit'[owner[b]] = edit[owner[b]]
      BY <1>2, <2>2
    <3>5. edit'[owner[b]] = edit[owner[b]] /\ actions' = actions
      BY <3>4
    <3> QED  BY <3>1, <3>3, <3>5 DEF ReceiptOK
  <2> QED  BY <2>1, <2>2
<1>6. Kept(owner, c.key)
  <2>1. ASSUME NEW i \in Edit
        PROVE  /\ edit[i].exec # None => edit'[i].exec = edit[i].exec /\ edit'[i].required = edit[i].required
               /\ edit[i].state \in {"session_verified", "aborted_before_apply", "stale_precondition"} =>
                    edit'[i].state = edit[i].state
               /\ edit[i].publication # 0 => edit'[i].publication # 0
               /\ edit[i].state = "claimed" =>
                    \/ edit'[i].state \in {"claimed", "aborted_before_apply", "stale_precondition"}
                    \/ edit'[i].state = "apply_started"
                         /\ \E x \in 1 .. actions : edit[i].exec = <<x, "claim">> /\ c.key = <<x, "start">>
    BY <1>2
  <2>2. \A k \in Key : receipts'[k] = receipts[k] \/ (k = c.key /\ receipts[k] = None)
    BY <1>1, <1>3
  <2> QED  BY <2>1, <2>2 DEF Kept
<1> QED  BY <1>2, <1>3, <1>4, <1>5, <1>6 DEF Served

\* The edit and the receipt of a command that took effect.
LEMMA EffectFacts ==
  ASSUME Types, NEW c \in Commands, NEW e \in Documents, e.state \in EditStates, Effect(c, c.id, e)
  PROVE  /\ edit'[c.id] = e /\ receipts[c.key] = None
         /\ receipts'[c.key] = [id |-> c.id, state |-> e.state, fence |-> e.fence]
         /\ receipts'[c.key] # None
         /\ \A k \in Key \ {c.key} : receipts'[k] = receipts[k]
<1>1. c.id \in Edit /\ c.id \in Key /\ c.key \in Key
  BY OfficeAssumption DEF Commands
<1>2. [id |-> c.id, state |-> e.state, fence |-> e.fence] \in Receipts
  BY <1>1 DEF Receipts, Documents
<1>3. edit'[c.id] = e
  BY <1>1 DEF Effect, Types
<1>4. /\ receipts'[c.key] = [id |-> c.id, state |-> e.state, fence |-> e.fence]
      /\ \A k \in Key \ {c.key} : receipts'[k] = receipts[k]
  BY <1>1 DEF Effect, Types
<1>5. receipts'[c.key] # None
  BY <1>4, <1>2, NothingAssumption DEF Documents
<1> QED  BY <1>3, <1>4, <1>5 DEF Effect

\* The edit a call is about.
LEMMA CallFacts ==
  ASSUME Types, NEW owner, Holding(owner), NEW c \in Commands
  PROVE  /\ c.id \in Edit /\ c.key \in Key /\ EditOK(owner, c.id)
         /\ edit[c.id] \in Documents /\ edit[c.id].state \in EditStates
         /\ edit[c.id].binding = Binding /\ edit[c.id].binding.book = TheBook
<1>1. c.id \in Edit /\ c.id \in Key /\ c.key \in Key
  BY OfficeAssumption DEF Commands
<1>2. EditOK(owner, c.id) /\ edit[c.id] \in Documents
  BY <1>1 DEF Holding, Types
<1> QED  BY <1>1, <1>2 DEF EditOK, Documents, TheBook

\* Only the action that executes an edit has receipts about it, as long as there
\* is no verdict.
LEMMA OneAction ==
  ASSUME Types, NEW owner, Holding(owner), NEW a \in Actions, NEW b \in Actions,
         owner[a] = owner[b], edit[owner[a]].exec = <<a, "claim">>,
         edit[owner[a]].state # "session_verified",
         NEW t \in Stages, receipts[<<b, t>>] # None
  PROVE  a = b /\ t # "publish"
<1>1. ReceiptOK(owner, b, t)
  BY DEF Holding
<1>2. t # "publish" /\ edit[owner[b]].exec = <<b, "claim">>
  BY <1>1 DEF ReceiptOK
<1> QED  BY <1>2, KeysDiffer

\* Two edits are never in one execution.
LEMMA OneExecution ==
  ASSUME Types, NEW owner, Holding(owner), NEW i \in Edit, NEW j \in Edit, i # j,
         edit[i].exec # None
  PROVE  edit[i].exec # edit[j].exec
<1> SUFFICES ASSUME edit[i].exec = edit[j].exec
             PROVE  FALSE
  OBVIOUS
<1>1. EditOK(owner, i) /\ EditOK(owner, j)
  BY DEF Holding
<1>2. PICK a \in 1 .. actions : Executed(owner, i, a)
  BY <1>1 DEF EditOK
<1>3. PICK b \in 1 .. actions : Executed(owner, j, b)
  BY <1>1 DEF EditOK
<1>4. <<a, "claim">> = <<b, "claim">>
  BY <1>2, <1>3 DEF Executed
<1>5. a = b
  BY <1>4, KeysDiffer
<1> QED  BY <1>2, <1>3, <1>5 DEF Executed

\* While edit i holds the workbook no other one does.
LEMMA OneHolder ==
  ASSUME Types, NEW owner, Holding(owner), NEW i \in Edit,
         edit[i].exec # None, holder[TheBook] = edit[i].exec
  PROVE  \A j \in Edit \ {i} : edit[j].state \notin {"claimed", "apply_started"}
<1> SUFFICES ASSUME NEW j \in Edit, j # i, edit[j].state \in {"claimed", "apply_started"}
             PROVE  FALSE
  OBVIOUS
<1>1. EditOK(owner, j)
  BY DEF Holding
<1>2. holder[TheBook] = edit[j].exec
  BY <1>1 DEF EditOK
<1> QED  BY <1>2, OneExecution

\* claim_execution takes effect.
LEMMA HoldServed ==
  ASSUME Types, NEW owner \in [Actions -> Edit], Holding(owner),
         NEW c \in Commands, CallOK(owner, c), Hold(c), UNCHANGED <<live, actions>>
  PROVE  Served(owner, c.key)
<1>1. PICK a \in 1 .. actions :
        c.key = <<a, "claim">> /\ c.id = owner[a] /\ c.required = Required /\ a \in Actions
  BY ActionFacts DEF CallOK, Hold
<1> DEFINE i == c.id
<1>2. /\ i \in Edit /\ EditOK(owner, i) /\ c.key \in Key
      /\ edit[i] \in Documents /\ edit[i].binding = Binding /\ edit[i].binding.book = TheBook
      /\ edit[i].state = "approved" /\ edit[i].exec = None /\ written[i] \in Nat
  BY CallFacts DEF Hold, EditOK, Types
<1>3. TheBook \in Book /\ fence[TheBook] \in Nat /\ c.required \in BOOLEAN
  BY BindingFacts DEF Types, Commands
<1>4. PICK e \in Documents :
        /\ Effect(c, c.id, e) /\ e.state = "claimed" /\ e.exec = c.key /\ e.required = Required
        /\ e.binding = Binding /\ e.publication = edit[i].publication
  <2> DEFINE x == [edit[i] EXCEPT !.state = "claimed", !.exec = c.key,
                                  !.fence = fence[TheBook] + 1, !.required = c.required]
  <2>1. x \in Documents
    <3>1. fence[TheBook] + 1 \in Nat /\ edit[i] \in Documents
      BY <1>2, <1>3
    <3> QED  BY <1>2, <1>3, <3>1 DEF Documents, EditStates
  <2>2. /\ x.state = "claimed" /\ x.exec = c.key /\ x.required = c.required
        /\ x.binding = edit[i].binding /\ x.publication = edit[i].publication
    BY <1>2 DEF Documents
  <2>3. Effect(c, c.id, x)
    BY <1>2 DEF Hold
  <2> QED  BY <1>1, <1>2, <2>1, <2>2, <2>3
<1>5. /\ holder[TheBook] = None /\ holder' = [holder EXCEPT ![TheBook] = c.key]
      /\ fence' = [fence EXCEPT ![TheBook] = @ + 1] /\ head' = head
  BY <1>2 DEF Hold
<1>6. /\ holder' \in [Book -> Key \cup {None}] /\ holder'[TheBook] = c.key
      /\ fence' \in [Book -> Nat] /\ head' \in [Book -> Nat]
  BY <1>2, <1>3, <1>5 DEF Types
<1>7. /\ edit'[i] = e /\ receipts[c.key] = None /\ receipts'[c.key] # None
      /\ \A k \in Key \ {c.key} : receipts'[k] = receipts[k]
  BY <1>2, <1>4, EffectFacts DEF EditStates
<1>8. \A j \in Edit \ {i} : edit[j].state \notin {"claimed", "apply_started"}
  <2> SUFFICES ASSUME NEW j \in Edit, edit[j].state \in {"claimed", "apply_started"}
               PROVE  FALSE
    OBVIOUS
  <2>1. EditOK(owner, j)
    BY DEF Holding
  <2> QED  BY <1>5, <2>1 DEF EditOK
<1>9. e.exec # None /\ e.publication = 0
  <2>1. edit[i].publication = 0
    BY <1>2 DEF EditOK
  <2> QED  BY <1>2, <1>4, <2>1, NothingAssumption
<1>10. EditOK(owner, i)'
  <2>1. Executed(owner, i, a)'
    BY <1>1, <1>2, <1>4, <1>7 DEF Executed
  <2>2. written'[i] = 0
    BY <1>2 DEF EditOK, Started, live
  <2>3. /\ e.state # "approved" /\ e.state # "absent" /\ e.state # "session_verified"
        /\ e.state \notin Started /\ e.state \notin Reported
    BY <1>4 DEF Started, Reported
  <2>4. \E x \in 1 .. actions' : Executed(owner, i, x)'
    BY <2>1
  <2> QED  BY <1>4, <1>6, <1>7, <1>9, <2>2, <2>3, <2>4 DEF EditOK
<1>11. ASSUME NEW b \in Actions, NEW t \in Stages, owner[b] = i
       PROVE  ReceiptOK(owner, b, t)'
  <2>1. ReceiptOK(owner, b, t)
    BY DEF Holding
  <2>2. receipts[<<b, t>>] = None
    <3>1. <<b, "claim">> # None
      BY KeyFacts, NothingAssumption DEF Stages
    <3> QED  BY <1>2, <1>11, <2>1, <3>1 DEF ReceiptOK
  <2>3. CASE <<b, t>> = c.key
    <3>1. b = a /\ t = "claim"
      BY <1>1, <2>3, KeysDiffer
    <3> QED  BY <1>1, <1>2, <1>4, <1>7, <3>1 DEF ReceiptOK, Outcomes
  <2>4. CASE <<b, t>> # c.key
    <3>1. receipts'[<<b, t>>] = None
      BY <1>7, <2>2, <2>4, KeyFacts
    <3> QED  BY <3>1 DEF ReceiptOK
  <2> QED  BY <2>3, <2>4
<1> QED
  BY <1>1, <1>2, <1>4, <1>6, <1>8, <1>9, <1>10, <1>11, Effects, ActionFacts DEF Stages, EditStates

\* The execution that holds the workbook goes on by a call of its own.
LEMMA Judged ==
  ASSUME Types, NEW owner \in [Actions -> Edit], Holding(owner),
         NEW a \in 1 .. actions, NEW s \in Stages, NEW c \in Commands,
         c.key = <<a, s>>, c.id = owner[a],
         NEW state \in EditStates, Effect(c, c.id, [edit[c.id] EXCEPT !.state = state]),
         UNCHANGED <<live, actions, fence, head>>,
         edit[c.id].exec = <<a, "claim">>, holder[TheBook] = edit[c.id].exec,
         \/ holder' = holder
         \/ holder' = [holder EXCEPT ![TheBook] = None] /\ state \notin {"claimed", "apply_started"},
         \/ edit[c.id].state = "claimed" /\ state = "apply_started" /\ s = "start"
         \/ edit[c.id].state = "claimed" /\ state = "aborted_before_apply" /\ s = "abort"
         \/ edit[c.id].state = "claimed" /\ state = "stale_precondition" /\ s = "stale_precondition"
         \/ /\ edit[c.id].state = "apply_started" /\ state \in Reported
            /\ s \in {"applied", "indeterminate"}
            /\ state = "session_verified" => written[c.id] = 1
  PROVE  Served(owner, c.key)
<1> DEFINE i == c.id
<1>1. /\ i \in Edit /\ c.key \in Key /\ EditOK(owner, i)
      /\ edit[i] \in Documents /\ edit[i].binding = Binding /\ written[i] \in Nat
  BY CallFacts DEF Types
<1>2. PICK e \in Documents :
        /\ Effect(c, i, e) /\ e.state = state /\ e.exec = edit[i].exec
        /\ e.required = edit[i].required /\ e.binding = Binding
        /\ e.publication = edit[i].publication
  <2> DEFINE x == [edit[i] EXCEPT !.state = state]
  <2>1. x \in Documents
    BY <1>1 DEF Documents
  <2>2. /\ x.state = state /\ x.exec = edit[i].exec /\ x.required = edit[i].required
        /\ x.binding = edit[i].binding /\ x.publication = edit[i].publication
    BY <1>1 DEF Documents
  <2> QED  BY <1>1, <2>1, <2>2
<1>3. a \in Actions /\ edit[i].exec # None /\ owner[a] = i
  <2>1. a \in Actions
    BY ActionFacts
  <2> QED  BY <2>1, KeyFacts, NothingAssumption DEF Stages
<1>4. edit[i].required = Required /\ edit[i].publication = 0
  BY <1>1, <1>3 DEF EditOK
<1>5. /\ edit'[i] = e /\ receipts[c.key] = None
      /\ receipts'[c.key] = [id |-> i, state |-> state, fence |-> e.fence]
      /\ receipts'[c.key] # None
      /\ \A k \in Key \ {c.key} : receipts'[k] = receipts[k]
  BY <1>2, EffectFacts
<1>6. /\ holder' \in [Book -> Key \cup {None}] /\ fence' \in [Book -> Nat] /\ head' \in [Book -> Nat]
  BY BindingFacts DEF Types
<1>7. \A j \in Edit \ {i} : edit[j].state \notin {"claimed", "apply_started"}
  BY <1>1, <1>3, OneHolder
<1>8. \A t \in Stages : receipts[<<a, t>>] # None => receipts'[<<a, t>>] # None
  BY <1>3, <1>5, KeyFacts
<1>9. EditOK(owner, i)'
  <2>1. Executed(owner, i, a)'
    BY <1>2, <1>3, <1>5 DEF Executed
  <2>2. state \in Started => receipts'[<<a, "start">>] # None
    <3>1. CASE s = "start"
      BY <1>5, <3>1
    <3>2. CASE state \in Reported
      <4>1. edit[i].state = "apply_started"
        BY <3>2 DEF Reported
      <4>2. PICK b \in 1 .. actions :
              Executed(owner, i, b) /\ (edit[i].state \in Started => receipts[<<b, "start">>] # None)
        BY <1>1, <1>3 DEF EditOK
      <4>3. b = a
        BY <4>2, KeysDiffer DEF Executed
      <4> QED  BY <1>8, <4>1, <4>2, <4>3 DEF Started, Stages
    <3> QED  BY <3>1, <3>2 DEF Started, Reported
  <2>3. state \in Reported =>
          receipts'[<<a, "applied">>] # None \/ receipts'[<<a, "indeterminate">>] # None
    BY <1>5 DEF Reported
  <2>4. state \in {"claimed", "apply_started"} => holder'[TheBook] = e.exec
    BY <1>2
  <2>5. /\ written'[i] <= IF state \in Started THEN 1 ELSE 0
        /\ state = "session_verified" => written'[i] = 1
    <3>1. written' = written
      BY DEF live
    <3>2. CASE edit[i].state = "claimed"
      <4>1. written[i] = 0
        BY <1>1, <3>2 DEF EditOK, Started
      <4> QED  BY <3>1, <3>2, <4>1 DEF Reported
    <3>3. CASE edit[i].state = "apply_started"
      <4>1. written[i] <= 1 /\ state \in Started
        BY <1>1, <3>3 DEF EditOK, Started, Reported
      <4> QED  BY <3>1, <3>3, <4>1
    <3> QED  BY <3>2, <3>3
  <2>6. \E x \in 1 .. actions' :
          /\ Executed(owner, i, x)'
          /\ state \in Started => receipts'[<<x, "start">>] # None
          /\ state \in Reported => \/ receipts'[<<x, "applied">>] # None
                                   \/ receipts'[<<x, "indeterminate">>] # None
    BY <2>1, <2>2, <2>3
  <2>7. state # "approved" /\ state # "absent"
    BY DEF Reported
  <2> QED  BY <1>2, <1>3, <1>4, <1>5, <2>4, <2>5, <2>6, <2>7 DEF EditOK
<1>10. ASSUME NEW b \in Actions, NEW t \in Stages, owner[b] = i
       PROVE  ReceiptOK(owner, b, t)'
  <2>1. CASE <<b, t>> = c.key
    <3>1. b = a /\ t = s
      BY <2>1, KeysDiffer
    <3> QED  BY <1>2, <1>3, <1>5, <3>1 DEF ReceiptOK, Outcomes, Started
  <2>2. CASE <<b, t>> # c.key /\ receipts[<<b, t>>] # None
    <3>1. ReceiptOK(owner, b, t)
      BY DEF Holding
    <3>2. a = b /\ t # "publish"
      BY <1>3, <1>10, <2>2, OneAction DEF Reported
    <3>3. t \notin Outcomes /\ t # "abort"
      BY <1>3, <2>2, <3>1, <3>2 DEF ReceiptOK, Reported
    <3>4. t = "start" => state \in Started
      BY <1>3, <2>2, <3>1, <3>2 DEF ReceiptOK, Started, Reported
    <3> QED  BY <1>2, <1>3, <1>5, <3>2, <3>3, <3>4 DEF ReceiptOK
  <2>3. CASE <<b, t>> # c.key /\ receipts[<<b, t>>] = None
    <3>1. receipts'[<<b, t>>] = None
      BY <1>5, <2>3, KeyFacts
    <3> QED  BY <3>1 DEF ReceiptOK
  <2> QED  BY <2>1, <2>2, <2>3
<1> QED
  BY <1>2, <1>3, <1>4, <1>6, <1>7, <1>9, <1>10, Effects

\* mark_apply_started takes effect.
LEMMA StartServed ==
  ASSUME Types, NEW owner \in [Actions -> Edit], Holding(owner),
         NEW c \in Commands, CallOK(owner, c), Start(c), UNCHANGED <<live, actions>>
  PROVE  Served(owner, c.key)
<1>1. PICK a \in 1 .. actions :
        c.key = <<a, "start">> /\ c.id = owner[a] /\ c.exec = <<a, "claim">>
  BY DEF CallOK, Start
<1>2. /\ edit[c.id].state = "claimed" /\ Effect(c, c.id, [edit[c.id] EXCEPT !.state = "apply_started"])
      /\ edit[c.id].exec = c.exec /\ holder[TheBook] = c.exec /\ UNCHANGED <<holder, fence, head>>
  BY CallFacts DEF Start, Holds, KeepsBooks
<1> QED  BY <1>1, <1>2, Judged DEF Stages, EditStates

\* abort_claim, or a report of cells that differ, takes effect.
LEMMA GiveUpServed ==
  ASSUME Types, NEW owner \in [Actions -> Edit], Holding(owner),
         NEW c \in Commands, CallOK(owner, c), GiveUp(c), UNCHANGED <<live, actions>>
  PROVE  Served(owner, c.key)
<1>1. PICK a \in 1 .. actions, s \in {"abort", "stale_precondition"} :
        /\ c.key = <<a, s>> /\ c.id = owner[a] /\ c.exec = <<a, "claim">>
        /\ s = "abort" <=> c.op = "abort_claim"
  BY DEF CallOK, GiveUp
<1>2. PICK state \in {"aborted_before_apply", "stale_precondition"} :
        /\ Effect(c, c.id, [edit[c.id] EXCEPT !.state = state])
        /\ state = "aborted_before_apply" <=> c.op = "abort_claim"
  BY DEF GiveUp
<1>3. /\ edit[c.id].state = "claimed" /\ edit[c.id].exec = c.exec /\ holder[TheBook] = c.exec
      /\ holder' = [holder EXCEPT ![TheBook] = None] /\ UNCHANGED <<fence, head>>
  BY CallFacts DEF GiveUp, Holds
<1>4. \/ s = "abort" /\ state = "aborted_before_apply"
      \/ s = "stale_precondition" /\ state = "stale_precondition"
  BY <1>1, <1>2
<1>5. s \in Stages /\ state \in EditStates
  BY DEF Stages, EditStates
<1> QED  BY <1>1, <1>2, <1>3, <1>4, <1>5, Judged

\* verify_execution takes effect: a good verdict tells of a write that was made.
LEMMA ReportServed ==
  ASSUME Types, NEW owner \in [Actions -> Edit], Holding(owner),
         NEW c \in Commands, CallOK(owner, c), Report(c), UNCHANGED <<live, actions>>
  PROVE  Served(owner, c.key)
<1>1. PICK a \in 1 .. actions, s \in {"applied", "indeterminate"} :
        /\ c.key = <<a, s>> /\ c.id = owner[a] /\ c.exec = <<a, "claim">>
        /\ c.witness.outcome = s /\ (s = "applied" => written[c.id] = 1)
  BY DEF CallOK, Report, Outcomes
<1>2. PICK state \in Reported :
        /\ Effect(c, c.id, [edit[c.id] EXCEPT !.state = state])
        /\ state = "session_verified" => c.witness.outcome = "applied"
  BY DEF Report, Reported
<1>3. /\ edit[c.id].state = "apply_started" /\ edit[c.id].exec = c.exec
      /\ holder[TheBook] = c.exec
      /\ holder' = holder \/ holder' = [holder EXCEPT ![TheBook] = None]
      /\ UNCHANGED <<fence, head>>
  BY CallFacts DEF Report, Holds
<1>4. s \in Stages /\ state \in EditStates /\ state \notin {"claimed", "apply_started"}
  BY DEF Stages, EditStates, Reported
<1>5. state = "session_verified" => written[c.id] = 1
  BY <1>1, <1>2
<1> QED  BY <1>1, <1>2, <1>3, <1>4, <1>5, Judged

\* publish_verified_snapshot takes effect: what was saved holds the edit.
LEMMA AdvanceServed ==
  ASSUME Types, NEW owner \in [Actions -> Edit], Holding(owner),
         NEW c \in Commands, CallOK(owner, c), SaveFits(c.id), Advance(c),
         UNCHANGED <<live, actions>>
  PROVE  Served(owner, c.key)
<1> DEFINE i == c.id
<1>1. PICK a \in 1 .. actions : c.key = <<a, "publish">> /\ i = owner[a]
  BY DEF CallOK, Advance
<1>2. /\ i \in Edit /\ c.key \in Key /\ EditOK(owner, i) /\ edit[i] \in Documents
      /\ edit[i].binding = Binding /\ edit[i].binding.book = TheBook
      /\ TheBook \in Book /\ Binding.rev = 1
  BY CallFacts, BindingFacts
<1>3. /\ edit[i].state = "session_verified" /\ edit[i].publication = 0
      /\ edit[i].exec = c.exec /\ holder[TheBook] = c.exec
      /\ holder' = [holder EXCEPT ![TheBook] = None] /\ fence' = fence
      /\ head' = [head EXCEPT ![TheBook] = 2]
  BY <1>2 DEF Advance, Holds
<1>4. PICK e \in Documents :
        /\ Effect(c, i, e) /\ e.state = "session_verified" /\ e.exec = edit[i].exec
        /\ e.required = edit[i].required /\ e.binding = Binding /\ e.publication = 2
  <2> DEFINE x == [edit[i] EXCEPT !.publication = 2]
  <2>1. x \in Documents
    BY <1>2 DEF Documents
  <2>2. /\ x.state = edit[i].state /\ x.exec = edit[i].exec /\ x.required = edit[i].required
        /\ x.binding = edit[i].binding /\ x.publication = 2
    BY <1>2 DEF Documents
  <2>3. Effect(c, i, x)
    BY <1>2 DEF Advance
  <2> QED  BY <1>2, <1>3, <2>1, <2>2, <2>3
<1>5. Len(saved[TheBook]) >= 2 /\ saved[TheBook][2] = i
  <2>1. Len(saved[TheBook]) \in Nat
    BY <1>2, LenProperties DEF Types
  <2> QED  BY <1>2, <2>1 DEF SaveFits
<1>6. /\ edit'[i] = e /\ receipts[c.key] = None /\ receipts'[c.key] # None
      /\ \A k \in Key \ {c.key} : receipts'[k] = receipts[k]
  BY <1>4, EffectFacts DEF EditStates
<1>7. /\ holder' \in [Book -> Key \cup {None}] /\ fence' \in [Book -> Nat] /\ head' \in [Book -> Nat]
  BY <1>2, <1>3 DEF Types
<1>8. edit[i].exec # None
  BY <1>2, <1>3 DEF EditOK
<1>9. \A j \in Edit \ {i} : edit[j].state \notin {"claimed", "apply_started"}
  BY <1>2, <1>3, <1>8, OneHolder
<1>10. \A b \in 1 .. actions, t \in Stages :
         receipts[<<b, t>>] # None => receipts'[<<b, t>>] # None
  BY <1>6, ActionFacts, KeyFacts
<1>11. EditOK(owner, i)'
  <2>1. \E b \in 1 .. actions' :
          /\ Executed(owner, i, b)'
          /\ e.state \in Started => receipts'[<<b, "start">>] # None
          /\ e.state \in Reported => \/ receipts'[<<b, "applied">>] # None
                                     \/ receipts'[<<b, "indeterminate">>] # None
    <3>1. PICK b \in 1 .. actions :
            /\ Executed(owner, i, b)
            /\ edit[i].state \in Started => receipts[<<b, "start">>] # None
            /\ edit[i].state \in Reported => \/ receipts[<<b, "applied">>] # None
                                             \/ receipts[<<b, "indeterminate">>] # None
      BY <1>2, <1>8 DEF EditOK
    <3> QED  BY <1>3, <1>4, <1>6, <1>10, <3>1 DEF Executed, Stages
  <2>2. e.required = Required /\ written'[i] = 1 /\ e.state \in Started /\ saved' = saved
    BY <1>2, <1>3, <1>4, <1>8 DEF EditOK, Started, live
  <2> QED  BY <1>4, <1>5, <1>6, <1>8, <2>1, <2>2 DEF EditOK
<1>12. ASSUME NEW b \in Actions, NEW t \in Stages, owner[b] = i
       PROVE  ReceiptOK(owner, b, t)'
  <2>1. CASE <<b, t>> = c.key
    <3>1. b = a /\ t = "publish"
      BY <1>1, <2>1, KeysDiffer
    <3> QED  BY <1>1, <1>4, <1>6, <3>1 DEF ReceiptOK, Outcomes
  <2>2. CASE <<b, t>> # c.key
    <3>1. receipts'[<<b, t>>] = receipts[<<b, t>>]
      BY <1>6, <2>2, KeyFacts
    <3>2. ReceiptOK(owner, b, t)
      BY DEF Holding
    <3> QED  BY <1>3, <1>4, <1>6, <1>12, <3>1, <3>2 DEF ReceiptOK
  <2> QED  BY <2>1, <2>2
<1> QED
  BY <1>1, <1>3, <1>4, <1>7, <1>9, <1>11, <1>12, Effects DEF Stages, EditStates

\* The answer to a command that took effect.
LEMMA OkFacts ==
  ASSUME NEW state \in EditStates
  PROVE  \E reply \in Replies : reply = Ok(state) /\ reply.state = state
<1>1. Ok(state) \in Replies /\ Ok(state).state = state
  BY DEF Ok, Replies
<1> QED  BY <1>1

\* A copy of a call is served at any time, first or again.
LEMMA ServeStep ==
  ASSUME Types, NEW owner \in [Actions -> Edit], Holding(owner), NEW m \in wire, Serve(m)
  PROVE  Types' /\ Holding(owner)'
<1> DEFINE c == m.request
<1>1. c \in Commands /\ CallOK(owner, c) /\ c.key \in Key
  BY DEF Types, Calls, Holding, Commands
<1>2. UNCHANGED <<live, actions>>
  BY DEF Serve, Answer
<1>3. CASE Perform(c) /\ Answer(m, Ok(edit'[c.id].state))
  <2>1. Served(owner, c.key)
    BY <1>1, <1>2, <1>3, HoldServed, StartServed, GiveUpServed, ReportServed, AdvanceServed
       DEF Perform
  <2>2. c.id \in Edit /\ edit'[c.id].state \in EditStates
    <3>1. c.id \in Edit /\ c.id \in Key
      BY <1>1, OfficeAssumption DEF Commands
    <3> QED  BY <2>1, <3>1 DEF Served, EditOK, Documents
  <2>3. receipts'[c.key] # None /\ receipts'[c.key].state = edit'[c.id].state
    <3>1. PICK e : Effect(c, c.id, e)
      BY <1>3 DEF Perform, Hold, Start, GiveUp, Report, Advance
    <3>2. edit'[c.id] = e /\ receipts'[c.key] = [id |-> c.id, state |-> e.state, fence |-> e.fence]
      BY <1>1, <2>2, <3>1, OfficeAssumption DEF Effect, Types
    <3>3. receipts'[c.key] \in Receipts \/ receipts'[c.key] = None
      BY <1>1, <2>1 DEF Served
    <3>4. e \in Documents
      BY <2>1, <2>2, <3>2, OfficeAssumption DEF Served
    <3>5. receipts'[c.key] \in Receipts
      BY <2>2, <3>2, <3>4 DEF Receipts, Documents
    <3> QED  BY <3>2, <3>5, NothingAssumption
  <2>4. PICK reply \in Replies :
          reply = Ok(edit'[c.id].state) /\ reply.state = edit'[c.id].state
    BY <2>2, OkFacts
  <2> QED  BY <1>3, <2>1, <2>3, <2>4, Delivered
<1>4. CASE /\ receipts[c.key] # None /\ Answer(m, Ok(receipts[c.key].state))
           /\ UNCHANGED avars
  <2>1. Served(owner, c.key)
    BY <1>2, <1>4, NothingServed
  <2>2. receipts[c.key].state \in EditStates /\ receipts' = receipts
    BY <1>1, <1>4 DEF Types, Receipts, avars
  <2>3. PICK reply \in Replies :
          reply = Ok(receipts[c.key].state) /\ reply.state = receipts'[c.key].state
    BY <2>2, OkFacts
  <2> QED  BY <1>4, <2>1, <2>2, <2>3, Delivered
<1>5. ASSUME NEW code \in Refusals(c), Answer(m, Refused(code)), UNCHANGED avars
      PROVE  Types' /\ Holding(owner)'
  <2>1. Served(owner, c.key)
    BY <1>2, <1>5, NothingServed
  <2>2. code \in Codes
    BY <1>5 DEF Refusals, Codes
  <2>3. Refused(code) \in Replies /\ ~ Refused(code).ok
    BY <2>2 DEF Refused, Replies
  <2> QED  BY <1>5, <2>1, <2>3, Delivered
<1> QED  BY <1>3, <1>4, <1>5 DEF Serve

-----------------------------------------------------------------------------
(* The invariant and what follows from it.                                  *)

\* The invariant holds before the first action.
LEMMA InitInv ==
  ASSUME Init
  PROVE  Inv
<1>1. TheBook \in Book /\ Binding.session \in Session /\ Binding.rev = 1
  BY BindingFacts
<1>2. ASSUME NEW k \in Key
      PROVE  /\ edit[k] \in Documents /\ edit[k].exec = None /\ edit[k].publication = 0
             /\ k \in Edit => edit[k].state = "approved" /\ edit[k].binding = Binding
  <2>1. NoEdit \in Documents /\ NoEdit.exec = None /\ NoEdit.publication = 0
    BY DEF NoEdit, Documents
  <2> DEFINE x == [NoEdit EXCEPT !.state = "approved", !.binding = Binding]
  <2>2. /\ x \in Documents /\ x.exec = None /\ x.publication = 0
        /\ x.state = "approved" /\ x.binding = Binding
    BY DEF NoEdit, Documents, EditStates
  <2>3. edit[k] = IF k \in Edit THEN x ELSE NoEdit
    BY DEF Init
  <2> HIDE DEF x
  <2> QED  BY <2>1, <2>2, <2>3
<1>3. Types
  <2>1. edit \in [Key -> Documents]
    BY <1>2 DEF Init
  <2>2. cells \in [Book -> Content] /\ saved \in [Book -> Seq(Content)] /\ written \in [Edit -> Nat]
    BY DEF Init, Content
  <2>3. pane \in [Pane -> PaneRecords]
    BY IdleType DEF Init
  <2>4. actions \in 0 .. MaxActions
    BY OfficeAssumption DEF Init
  <2> QED  BY <2>1, <2>2, <2>3, <2>4 DEF Types, Init
<1>4. PICK owner \in [Actions -> Edit] : TRUE
  <2>1. PICK i : i \in Edit
    BY OfficeAssumption
  <2>2. [a \in Actions |-> i] \in [Actions -> Edit]
    BY <2>1
  <2> QED  BY <2>2
<1>5. ASSUME NEW i \in Edit
      PROVE  EditOK(owner, i)
  <2>1. i \in Key /\ written[i] = 0
    BY OfficeAssumption DEF Init
  <2>2. /\ edit[i].exec = None /\ edit[i].publication = 0
        /\ edit[i].state = "approved" /\ edit[i].binding = Binding
    BY <1>2, <2>1
  <2> QED  BY <2>1, <2>2 DEF EditOK, Started
<1>6. ASSUME NEW a \in Actions, NEW s \in Stages
      PROVE  ReceiptOK(owner, a, s)
  BY KeyFacts DEF ReceiptOK, Init
<1>7. ASSUME NEW p \in Pane
      PROVE  PaneOK(owner, pane[p], wire, InWork)
  <2>1. pane[p] = Idle
    BY DEF Init
  <2>2. /\ Idle.pc = "idle" /\ Idle.action = 0 /\ Idle.request = None /\ Idle.n = 0
        /\ Idle.loaded = None /\ Idle.result = None
    BY DEF Idle
  <2>3. ShownOK(Idle) /\ FailureOK(Idle, wire, InWork)
    BY <2>2, NothingAssumption DEF ShownOK, FailureOK, EditStates
  <2>4. WaitingOK(owner, Idle)
    BY <2>2 DEF WaitingOK, CallPcs, Outcomes
  <2>5. WorkOK(owner, Idle, wire)
    BY <2>2 DEF WorkOK, Unstarted, Executing, Publishing, Outcomes
  <2> QED  BY <2>1, <2>3, <2>4, <2>5 DEF PaneOK
<1>8. Alone /\ wire = {}
  BY DEF Init, Alone, Idle
<1>9. Holding(owner)
  BY <1>5, <1>6, <1>7, <1>8 DEF Holding
<1> QED  BY <1>3, <1>9 DEF Inv

\* A step of nobody.
LEMMA StutterStep ==
  ASSUME Types, NEW owner, Holding(owner), UNCHANGED officeVars
  PROVE  Types' /\ Holding(owner)'
<1>1. UNCHANGED <<avars, cells, saved, written, pane, wire, actions>>
  BY DEF officeVars, live
<1>2. Types'
  BY <1>1 DEF Types, avars
<1>3. ASSUME NEW i \in Edit
      PROVE  EditOK(owner, i)'
  BY <1>1 DEF EditOK, Executed, Holding, avars
<1>4. ASSUME NEW a \in Actions, NEW s \in Stages
      PROVE  ReceiptOK(owner, a, s)'
  <2>1. ReceiptOK(owner, a, s)
    BY DEF Holding
  <2> QED  BY <1>1, <2>1 DEF ReceiptOK, avars
<1>5. ASSUME NEW r
      PROVE  CallOK(owner, r) => CallOK(owner, r)'
  BY <1>1 DEF CallOK, avars
<1>6. \A m \in wire' : CallOK(owner, m.request)'
  BY <1>1, <1>5 DEF Holding
<1>7. ASSUME NEW q \in Pane
      PROVE  PaneOK(owner, pane[q], wire, InWork)'
  <2>1. PaneOK(owner, pane[q], wire, InWork) /\ pane'[q] = pane[q] /\ InWork' = InWork
    BY <1>1, PaneFacts DEF InWork
  <2>2. ShownOK(pane[q])' /\ FailureOK(pane[q], wire, InWork)'
    BY <1>1, <2>1 DEF PaneOK, ShownOK, FailureOK, Unsent, avars
  <2>3. WaitingOK(owner, pane[q])'
    BY <1>1, <1>5, <2>1 DEF PaneOK, WaitingOK, avars
  <2>4. WorkOK(owner, pane[q], wire)'
    BY <1>1, <2>1 DEF PaneOK, WorkOK, Unsent, Unstarted, avars
  <2> QED  BY <2>2, <2>3, <2>4 DEF PaneOK
<1>8. Alone'
  BY <1>1 DEF Alone, Holding
<1> QED  BY <1>2, <1>3, <1>4, <1>6, <1>7, <1>8 DEF Holding

\* The steps of an action keep the invariant, for the same owners.
LEMMA PaneStepHolds ==
  ASSUME Types, NEW owner, Holding(owner), NEW p \in Pane, PaneStep(p)
  PROVE  Types' /\ Holding(owner)'
BY ClaimStep, WorkflowUnavailableStep, ClaimedStep, ReadBeforeStep, BeforeWriteErrorStep,
   StartConfirmedStep, StartRejectedStep, StartConfirmationErrorStep, ReadAgainStep,
   ApplyChangesStep, ReadAfterStep, ReportWitnessStep, WitnessTooLargeStep, VerifiedStep,
   LeaseExpiredStep, VerificationFailsStep, AbortedStep, SaveStep, PublicationAnsweredStep,
   LookupStep, ResumeStep, NetworkRetryStep
   DEF PaneStep

\* Every step keeps the invariant.
LEMMA NextInv ==
  ASSUME Inv, [Next]_officeVars
  PROVE  Inv'
<1>1. Types
  BY DEF Inv
<1>2. PICK owner \in [Actions -> Edit] : Holding(owner)
  BY DEF Inv
<1>3. ASSUME NEW p \in Pane, PaneStep(p)
      PROVE  Inv'
  BY <1>1, <1>2, <1>3, PaneStepHolds DEF Inv
<1>4. ASSUME NEW p \in Pane, ExecuteEdit(p)
      PROVE  Inv'
  BY <1>1, <1>2, <1>4, ExecuteEditStep DEF Inv
<1>5. ASSUME NEW p \in Pane, Close(p)
      PROVE  Inv'
  BY <1>1, <1>2, <1>5, CloseStep DEF Inv
<1>6. ASSUME NEW p \in Pane, NEW i \in Edit, LoadWorkflow(p, i)
      PROVE  Inv'
  BY <1>1, <1>2, <1>6, LoadWorkflowStep DEF Inv
<1>7. ASSUME NEW m \in wire, Serve(m)
      PROVE  Inv'
  BY <1>1, <1>2, <1>7, ServeStep DEF Inv
<1>8. ASSUME NEW b \in Book, Coauthor(b)
      PROVE  Inv'
  BY <1>1, <1>2, <1>8, CoauthorStep DEF Inv
<1>9. CASE UNCHANGED officeVars
  BY <1>1, <1>2, <1>9, StutterStep DEF Inv
<1> QED  BY <1>3, <1>4, <1>5, <1>6, <1>7, <1>8, <1>9 DEF Next

\* The inductive invariant of executions (who owns an action, what its receipts and the
\* calls under way say, what each pane knows at its step) holds of every reachable
\* state of executeEdit, saveAndPublish and the service behind them.
THEOREM AddinInvariance == Spec => []Inv
<1>1. Init => Inv
  BY InitInv
<1>2. Inv /\ [Next]_officeVars => Inv'
  BY NextInv
<1> QED  BY <1>1, <1>2, PTL DEF Spec

\* The invariant gives each part of ExecutionIsTrue, and the published head.
LEMMA InvIsTrue ==
  ASSUME Inv
  PROVE  ExecutionIsTrue /\ HeadHasTheEdit
<1>1. Types
  BY DEF Inv
<1>2. PICK owner \in [Actions -> Edit] : Holding(owner)
  BY DEF Inv
<1>3. ASSUME NEW p \in Pane
      PROVE  pane[p] \in PaneRecords /\ PaneOK(owner, pane[p], wire, InWork)
  BY <1>1, <1>2, PaneFacts
<1>4. ASSUME NEW i \in Edit
      PROVE  /\ EditOK(owner, i) /\ edit[i] \in Documents /\ written[i] \in Nat
             /\ edit[i].state \in EditStates /\ edit[i].publication \in {0, 2}
  BY <1>1, <1>2, OfficeAssumption DEF Holding, Types, Documents, EditOK
<1>5. TypeOK
  <2>1. ASSUME NEW p \in Pane
        PROVE  /\ pane[p].pc \in PaneStates
               /\ pane[p].n \in 0..MaxNetworkAttempts
               /\ pane[p].request # None <=> pane[p].n > 0
               /\ pane[p].n > 0 <=> pane[p].pc \in {"claim", "start", "applied", "indeterminate",
                                                   "stale_precondition", "abort", "publish"}
    BY <1>3 DEF PaneRecords, PaneOK, WaitingOK, CallPcs, Outcomes
  <2>2. \A m \in wire : m.to \in Pane /\ m.n \in 1..MaxNetworkAttempts
    BY <1>1 DEF Types, Calls
  <2> QED  BY <1>1, <2>1, <2>2 DEF TypeOK, Types
<1>6. UnappliedIsUntouched
  <2> SUFFICES ASSUME NEW i \in Edit
               PROVE  written[i] <= IF edit[i].state \in {"approved", "claimed",
                                      "aborted_before_apply", "stale_precondition"} THEN 0 ELSE 1
    BY DEF UnappliedIsUntouched
  <2> QED  BY <1>4 DEF EditOK, Started, EditStates
<1>7. VerifiedIsWritten
  BY <1>4 DEF VerifiedIsWritten, EditOK
<1>8. OrdinaryFailureIsClean
  BY <1>3 DEF OrdinaryFailureIsClean, PaneOK, FailureOK
<1>9. DoneIsTrue
  <2> SUFFICES ASSUME NEW p \in Pane, pane[p].result = "done", pane[p].loaded = "session_verified"
               PROVE  /\ edit[pane[p].id].state = "session_verified"
                      /\ edit[pane[p].id].required => edit[pane[p].id].publication > 0
    BY DEF DoneIsTrue
  <2>1. pane[p].loaded # None
    BY NothingAssumption DEF EditStates
  <2>2. pane[p].id \in Edit
    BY <1>3, <2>1 DEF PaneOK, ShownOK
  <2> QED  BY <1>3, <1>4, <2>2 DEF PaneOK, ShownOK
<1>10. HeadHasTheEdit
  <2> SUFFICES ASSUME NEW i \in Edit, edit[i].publication > 0
               PROVE  saved[edit[i].binding.book][edit[i].publication] = i /\ written[i] = 1
    BY DEF HeadHasTheEdit
  <2>1. edit[i].publication = 2
    BY <1>4
  <2> QED  BY <1>4, <2>1 DEF EditOK, TheBook
<1> QED  BY <1>5, <1>6, <1>7, <1>8, <1>9, <1>10 DEF ExecutionIsTrue

\* A pane that stands before its write has its start recorded and nothing reported, so
\* the service has it as started and the workbook as held by it.
LEMMA WritesAreStarted ==
  ASSUME Inv
  PROVE  WritesUnderItsStart
<1>1. Types
  BY DEF Inv
<1>2. PICK owner \in [Actions -> Edit] : Holding(owner)
  BY DEF Inv
<1> SUFFICES ASSUME NEW p \in Pane, pane[p].pc = "write"
             PROVE  /\ edit[pane[p].id].state = "apply_started"
                    /\ edit[pane[p].id].exec = pane[p].exec
                    /\ holder[edit[pane[p].id].binding.book] = pane[p].exec
  BY DEF WritesUnderItsStart
<1>3. WorkOK(owner, pane[p], wire)
  BY <1>1, <1>2, PaneFacts DEF PaneOK
<1>4. /\ pane[p].id \in Edit /\ pane[p].pc \in Executing
      /\ receipts[<<pane[p].action, "start">>] # None
      /\ Unsent(pane[p].action, "applied", wire) /\ Unsent(pane[p].action, "indeterminate", wire)
  BY <1>3 DEF WorkOK, Executing
<1>5. edit[pane[p].id].binding.book = TheBook
  BY <1>2, <1>4 DEF Holding, EditOK, TheBook
<1> QED  BY <1>1, <1>2, <1>4, <1>5, Begun

\* executeEdit and saveAndPublish tell the truth about every workbook, and write only
\* under a start the service has recorded for the holder, for any number of panes,
\* edits, attempts, actions and changes of coauthors, whatever calls are lost, repeated
\* or late.
THEOREM CarriedOut == Spec => EditIsCarriedOut
<1>1. Inv => ExecutionIsTrue /\ HeadHasTheEdit
  BY InvIsTrue
<1>2. Inv /\ [Next]_officeVars => [WritesUnderItsStart]_officeVars
  BY WritesAreStarted
<1> QED  BY <1>1, <1>2, AddinInvariance, PTL DEF Spec, EditIsCarriedOut

-----------------------------------------------------------------------------
(* The host sessions.                                                       *)
(*                                                                          *)
(* What a request has read lasts or is seen to have moved: a session that   *)
(* is dead stays dead (ThroughOK), a move of the registry is counted        *)
(* (ReadOK), a publication stays, and stays that of its execution (Grown).  *)

\* The steps of a request that issues a session, and those of an admitted one.
Issuing == {"current", "workflow", "head", "published", "create"}
Authorised == {"service", "effect", "create"}
Operations == Door!Issues \cup Door!StoredReads \cup Door!Recoverable \cup Door!Commands

RequestsServed ==
  [pc : Door!Places, op : Operations \cup {None}, request : Request \cup {None},
   id : Routed \cup {None}, host : Host \cup {None}, policy : Door!Policy \cup {None},
   current : Door!OpenWorkbooks \cup {None},
   code : {None, "session", "binding", "route", "service", "fault"}, fallback : BOOLEAN,
   alive : BOOLEAN, moved : Nat, settled : BOOLEAN]

DoorTypes ==
  /\ edit \in [Key -> Door!Documents] /\ fence \in [Book -> Nat]
  /\ sessions \in [Host -> Door!HostSessions \cup {None}]
  /\ registry \in [Session -> Door!OpenWorkbooks \cup {None}]
  /\ \A s \in Session : registry[s] # None => registry[s].session = s
  /\ moves \in 0 .. MaxMoves /\ clock \in 0 .. MaxClock
  /\ worker \in [Worker -> RequestsServed]

\* A request w for an edit.  What settles is for good: a publication, and the
\* execution it is of.
AskedOK(w) ==
  /\ w.op \in Operations /\ w.id \in Routed /\ w.host \in Host
  /\ edit[w.id].state # "absent"
  /\ w.op \in Door!Commands => w.request \in Request /\ w.request.op = w.op /\ w.request.id = w.id
  /\ w.settled => edit[w.id].publication # 0
  /\ w.op \in Door!Recoverable /\ w.settled /\ w.code = "binding" =>
       w.op = "publish_verified_snapshot" /\ edit[w.id].exec # w.request.exec

\* Its session: it is not there while it is issued, and a request that has passed
\* the record came while it was alive.
ThroughOK(w) ==
  IF w.op \in Door!Issues
  THEN /\ w.policy \in Door!Policy
       /\ w.pc \in Issuing \cup {"answered", "refused"}
       /\ w.pc \in Issuing => sessions[w.host] = None
  ELSE /\ sessions[w.host] # None
       /\ w.alive \/ ~ Door!Alive(w.host)
       /\ w.pc \notin {"record", "refused"} => w.alive
       /\ w.pc # "create"

\* What has been read of the binding, if nothing moved since.
ReadOK(w) ==
  /\ w.pc = "effect" => w.op \in Door!Commands
  /\ w.pc = "stored" => w.op \in Door!Recoverable
  /\ w.pc = "published" => w.op \in Door!Recoverable \cup {"issue_published"}
  /\ w.fallback =>
       /\ w.op \in Door!Recoverable \cup {"issue_published"}
       /\ w.pc \in Authorised \cup {"answered", "refused"}
       /\ w.pc \in Authorised => edit[w.id].publication # 0
  /\ w.moved <= moves
  /\ w.moved = moves /\ w.pc \in {"head"} \cup Authorised /\ w.op \notin Door!StoredReads =>
       \/ registry[Door!BindingOf(w.id).session] = Door!BindingOf(w.id)
       \/ /\ w.pc # "head" /\ w.op \in Door!Recoverable \cup {"issue_published"}
          /\ edit[w.id].publication # 0

ServedOK(w) == w = Door!Idle \/ (w.pc # "idle" /\ AskedOK(w) /\ ThroughOK(w) /\ ReadOK(w))

\* No two requests issue one session.
IssuesApart ==
  \A p, q \in Worker :
    /\ {worker[p].pc, worker[q].pc} \subseteq Issuing
    /\ {worker[p].op, worker[q].op} \subseteq Door!Issues
    /\ worker[p].host = worker[q].host
    => p = q

DoorInv ==
  /\ DoorTypes /\ \A i \in Routed : Door!EditOK(i)
  /\ \A p \in Worker : ServedOK(worker[p])
  /\ IssuesApart

-----------------------------------------------------------------------------
(* The steps of the service keep what the adapter relies on.                *)

\* What the service does to the edits leaves their bindings, and what is published.
Grown(i) ==
  /\ edit'[i].binding = edit[i].binding
  /\ edit[i].state # "absent" => edit'[i].state # "absent"
  /\ edit[i].publication # 0 => edit'[i].publication # 0 /\ edit'[i].exec = edit[i].exec

\* Edit i becomes e.
LEMMA Becomes ==
  ASSUME DoorTypes, \A i \in Routed : Door!EditOK(i),
         NEW i \in Routed, NEW e \in Door!Documents,
         edit' = [edit EXCEPT ![i] = e],
         e.binding = edit[i].binding,
         edit[i].state # "absent" /\ e.state # "absent",
         e.state \in {"claimed", "apply_started", "session_verified"} => e.exec # None,
         e.publication # 0 => e.state = "session_verified",
         edit[i].publication # 0 => e.publication # 0 /\ e.exec = edit[i].exec
  PROVE  /\ edit' \in [Key -> Door!Documents]
         /\ \A j \in Routed : Door!EditOK(j)' /\ Grown(j)
<1>1. Routed \subseteq Key
  BY DoorAssumption DEF Door!HostAssumption
<1>2. \A j \in Routed : edit'[j] = IF j = i THEN e ELSE edit[j]
  BY <1>1 DEF DoorTypes
<1>3. edit' \in [Key -> Door!Documents]
  BY <1>1 DEF DoorTypes
<1>4. ASSUME NEW j \in Routed
      PROVE  Door!EditOK(j)' /\ Grown(j)
  BY <1>2, <1>4 DEF Door!EditOK, Door!BindingOf, Grown
<1> QED  BY <1>3, <1>4

\* A command that takes effect.
LEMMA Performed ==
  ASSUME DoorTypes, \A i \in Routed : Door!EditOK(i),
         NEW r, r.id \in Routed, r.key \in Key, r.required \in BOOLEAN, Door!Perform(r)
  PROVE  /\ edit' \in [Key -> Door!Documents] /\ fence' \in [Book -> Nat]
         /\ \A j \in Routed : Door!EditOK(j)' /\ Grown(j)
         /\ r.op = "publish_verified_snapshot" => edit[r.id].publication = 0
<1> DEFINE doc == edit[r.id]
<1>1. /\ Routed \subseteq Key /\ None \notin Key
      /\ doc \in Door!Documents /\ Door!EditOK(r.id)
  BY DoorAssumption DEF Door!HostAssumption, DoorTypes
<1>2. ASSUME NEW op, NEW from \in Door!States \ {"absent", "session_verified"},
             NEW to \in {"previewed", "approved", "rejected"}, Door!Move(r, op, from, to),
             op # "publish_verified_snapshot"
      PROVE  /\ edit' \in [Key -> Door!Documents] /\ fence' \in [Book -> Nat]
             /\ \A j \in Routed : Door!EditOK(j)' /\ Grown(j)
             /\ r.op # "publish_verified_snapshot"
  <2> DEFINE e == [doc EXCEPT !.state = to]
  <2>1. e \in Door!Documents /\ e.binding = doc.binding /\ e.state = to /\ e.exec = doc.exec
          /\ e.publication = doc.publication
    BY <1>1 DEF Door!Documents, Door!States
  <2>2. doc.state = from /\ edit' = [edit EXCEPT ![r.id] = e] /\ fence' = fence /\ r.op = op
    BY <1>2 DEF Door!Move, Door!Effect, Door!KeepsBooks
  <2>3. doc.publication = 0
    BY <1>1, <2>2 DEF Door!EditOK
  <2> HIDE DEF e, doc
  <2>4. /\ edit' \in [Key -> Door!Documents]
        /\ \A j \in Routed : Door!EditOK(j)' /\ Grown(j)
    <3>1. e.state # "absent" /\ doc.state # "absent"
      BY <2>1, <2>2
    <3> QED  BY <2>1, <2>2, <2>3, <3>1, Becomes DEF doc
  <2> QED  BY <1>2, <2>2, <2>4 DEF DoorTypes
<1>3. CASE \/ Door!Move(r, "preview", "proposed", "previewed")
           \/ Door!Move(r, "approve", "previewed", "approved")
           \/ Door!Move(r, "reject", "previewed", "rejected")
  BY <1>2, <1>3 DEF Door!States
<1>4. CASE Door!Hold(r)
  <2> DEFINE b == doc.binding.book
             n == fence[b] + 1
             e == [doc EXCEPT !.state = "claimed", !.exec = r.key, !.fence = n,
                              !.required = r.required]
  <2>1. /\ doc.state = "approved" /\ r.op = "claim_execution"
        /\ edit' = [edit EXCEPT ![r.id] = e] /\ fence' = [fence EXCEPT ![b] = @ + 1]
    BY <1>4 DEF Door!Hold, Door!Effect
  <2>2. b \in Book /\ fence[b] \in Nat
    BY <1>1, <2>1 DEF Door!EditOK, Door!BindingOf, Door!OpenWorkbooks, DoorTypes
  <2>3. e \in Door!Documents /\ e.binding = doc.binding /\ e.state = "claimed" /\ e.exec = r.key
          /\ e.publication = doc.publication
    <3>1. n \in Nat
      BY <2>2
    <3> HIDE DEF n, b
    <3> QED  BY <1>1, <3>1 DEF Door!Documents, Door!States
  <2>4. doc.publication = 0
    BY <1>1, <2>1 DEF Door!EditOK
  <2>5. fence' \in [Book -> Nat]
    BY <2>1, <2>2 DEF DoorTypes
  <2> HIDE DEF e, n, b, doc
  <2>6. /\ edit' \in [Key -> Door!Documents]
        /\ \A j \in Routed : Door!EditOK(j)' /\ Grown(j)
    BY <1>1, <2>1, <2>3, <2>4, Becomes DEF doc
  <2> QED  BY <2>1, <2>5, <2>6
<1>5. ASSUME NEW from \in {"claimed", "apply_started"},
             NEW to \in Door!States \ {"absent", "approved", "claimed"},
             doc.state = from, edit' = [edit EXCEPT ![r.id] = [doc EXCEPT !.state = to]],
             fence' = fence, r.op # "publish_verified_snapshot"
      PROVE  /\ edit' \in [Key -> Door!Documents] /\ fence' \in [Book -> Nat]
             /\ \A j \in Routed : Door!EditOK(j)' /\ Grown(j)
             /\ r.op # "publish_verified_snapshot"
  <2> DEFINE e == [doc EXCEPT !.state = to]
  <2>1. e \in Door!Documents /\ e.binding = doc.binding /\ e.state = to /\ e.exec = doc.exec
          /\ e.publication = doc.publication
    BY <1>1, <1>5 DEF Door!Documents
  <2>2. doc.publication = 0 /\ doc.exec # None
    BY <1>1, <1>5 DEF Door!EditOK
  <2>3. edit' = [edit EXCEPT ![r.id] = e]
    BY <1>5
  <2> HIDE DEF e
  <2>4. /\ edit' \in [Key -> Door!Documents]
        /\ \A j \in Routed : Door!EditOK(j)' /\ Grown(j)
    <3>1. e.state # "absent" /\ doc.state # "absent"
      BY <2>1, <1>5
    <3> HIDE DEF doc
    <3> QED  BY <2>1, <2>2, <2>3, <3>1, Becomes DEF doc
  <2> QED  BY <1>5, <2>4 DEF DoorTypes
<1>6. CASE Door!Start(r)
  <2>1. /\ doc.state = "claimed" /\ fence' = fence /\ r.op = "mark_apply_started"
        /\ edit' = [edit EXCEPT ![r.id] = [doc EXCEPT !.state = "apply_started"]]
    BY <1>6 DEF Door!Start, Door!Effect, Door!KeepsBooks
  <2> QED  BY <1>5, <2>1 DEF Door!States
<1>7. CASE Door!GiveUp(r)
  <2>1. /\ doc.state = "claimed" /\ fence' = fence /\ r.op \in {"abort_claim", "verify_execution"}
        /\ \E to \in {"aborted_before_apply", "stale_precondition"} :
             edit' = [edit EXCEPT ![r.id] = [doc EXCEPT !.state = to]]
    BY <1>7 DEF Door!GiveUp, Door!Effect
  <2> QED  BY <1>5, <2>1 DEF Door!States
<1>8. CASE Door!Report(r)
  <2>1. /\ doc.state = "apply_started" /\ fence' = fence /\ r.op = "verify_execution"
        /\ \E to \in {"session_verified", "indeterminate", "verification_failed"} :
             edit' = [edit EXCEPT ![r.id] = [doc EXCEPT !.state = to]]
    BY <1>8 DEF Door!Report, Door!Effect
  <2> QED  BY <1>5, <2>1 DEF Door!States
<1>9. CASE Door!Advance(r)
  <2> DEFINE n == doc.binding.rev + 1
             e == [doc EXCEPT !.publication = n]
  <2>1. /\ doc.state = "session_verified" /\ doc.publication = 0 /\ fence' = fence
        /\ edit' = [edit EXCEPT ![r.id] = e]
    BY <1>9 DEF Door!Advance, Door!Effect
  <2>2. n \in Nat
    BY <1>1, <2>1, DoorAssumption
    DEF Door!EditOK, Door!BindingOf, Door!OpenWorkbooks, Door!HostAssumption
  <2>3. e \in Door!Documents /\ e.binding = doc.binding /\ e.state = doc.state
          /\ e.exec = doc.exec
    BY <1>1, <2>2 DEF Door!Documents
  <2>4. doc.exec # None
    BY <1>1, <2>1 DEF Door!EditOK
  <2> HIDE DEF e, n, doc
  <2>5. /\ edit' \in [Key -> Door!Documents]
        /\ \A j \in Routed : Door!EditOK(j)' /\ Grown(j)
    BY <2>1, <2>3, <2>4, Becomes DEF doc
  <2> QED  BY <2>1, <2>5 DEF DoorTypes, doc
<1> QED  BY <1>3, <1>4, <1>6, <1>7, <1>8, <1>9 DEF Door!Perform

-----------------------------------------------------------------------------
(* The steps of a request.                                                  *)

\* A step of the request p alone, which becomes m.
LEMMA RequestStep ==
  ASSUME DoorInv, NEW p \in Worker, NEW m \in RequestsServed,
         worker' = [worker EXCEPT ![p] = m], Door!Keeps, ServedOK(m),
         m.pc \in Issuing /\ m.op \in Door!Issues =>
           \A q \in Worker \ {p} : worker[q].pc \in Issuing /\ worker[q].op \in Door!Issues =>
                                     worker[q].host # m.host
  PROVE  DoorInv'
<1>1. \A q \in Worker : worker'[q] = IF q = p THEN m ELSE worker[q]
  BY DEF DoorInv, DoorTypes
<1>2. UNCHANGED <<edit, fence, sessions, registry, moves, clock>>
  BY DEF Door!Keeps, Door!avars
<1>3. DoorTypes'
  BY <1>2 DEF DoorInv, DoorTypes
<1>4. ASSUME NEW i \in Routed
      PROVE  Door!EditOK(i)'
  BY <1>2, <1>4 DEF DoorInv, Door!EditOK, Door!BindingOf
<1>5. ASSUME NEW q \in Worker
      PROVE  ServedOK(worker[q])'
  <2>1. ServedOK(worker'[q])
    BY <1>1, <1>5 DEF DoorInv
  <2> QED
    BY <1>2, <2>1 DEF ServedOK, AskedOK, ThroughOK, ReadOK, Door!BindingOf, Door!Alive
<1>6. IssuesApart'
  BY <1>1 DEF DoorInv, IssuesApart
<1> QED  BY <1>3, <1>4, <1>5, <1>6 DEF DoorInv

\* What is known of a request at work.
LEMMA RequestFacts ==
  ASSUME DoorInv, NEW p \in Worker, worker[p].pc # "idle"
  PROVE  /\ worker[p] \in RequestsServed
         /\ AskedOK(worker[p]) /\ ThroughOK(worker[p]) /\ ReadOK(worker[p])
         /\ edit[worker[p].id] \in Door!Documents /\ Door!EditOK(worker[p].id)
         /\ Door!BindingOf(worker[p].id) \in Door!OpenWorkbooks
<1>1. worker[p] \in RequestsServed
  BY DEF DoorInv, DoorTypes
<1>2. AskedOK(worker[p]) /\ ThroughOK(worker[p]) /\ ReadOK(worker[p])
  BY DEF DoorInv, ServedOK, Door!Idle
<1>3. edit[worker[p].id] \in Door!Documents /\ Door!EditOK(worker[p].id)
  BY <1>2, DoorAssumption DEF Door!HostAssumption, DoorInv, DoorTypes, AskedOK
<1> QED  BY <1>1, <1>2, <1>3 DEF Door!EditOK, AskedOK

\* It goes on: same operation, same session.
LEMMA MovesOn ==
  ASSUME DoorInv, NEW p \in Worker, worker[p].pc # "idle", NEW m \in RequestsServed,
         worker' = [worker EXCEPT ![p] = m], Door!Keeps,
         m.op = worker[p].op, m.host = worker[p].host, ServedOK(m),
         m.pc \in Issuing /\ m.op \in Door!Issues => worker[p].pc \in Issuing
  PROVE  DoorInv'
<1>1. ASSUME m.pc \in Issuing /\ m.op \in Door!Issues,
             NEW q \in Worker \ {p}, worker[q].pc \in Issuing, worker[q].op \in Door!Issues
      PROVE  worker[q].host # m.host
  <2>1. /\ {worker[p].pc, worker[q].pc} \subseteq Issuing
        /\ {worker[p].op, worker[q].op} \subseteq Door!Issues
    BY <1>1
  <2> QED  BY <1>1, <2>1 DEF DoorInv, IssuesApart
<1> QED  BY <1>1, RequestStep

\* A request is refused, for a moved binding only where no publication answers it.
LEMMA TurnedAway ==
  ASSUME DoorInv, NEW p \in Worker, worker[p].pc # "idle",
         NEW code \in {"session", "binding", "route", "service", "fault"},
         Door!Refuse(p, code), Door!Keeps,
         code = "binding" =>
           \/ worker[p].op \notin Door!Recoverable \/ ~ worker[p].settled
           \/ worker[p].op = "publish_verified_snapshot"
                /\ edit[worker[p].id].exec # worker[p].request.exec
  PROVE  DoorInv'
<1> DEFINE w == worker[p]
           m == [w EXCEPT !.pc = "refused", !.code = code]
<1>1. w \in RequestsServed /\ AskedOK(w) /\ ThroughOK(w) /\ ReadOK(w)
  BY RequestFacts
<1>2. "refused" \in Door!Places
  BY DEF Door!Places
<1>3. code \in {None, "session", "binding", "route", "service", "fault"}
  OBVIOUS
<1>4. /\ m \in RequestsServed
      /\ m.pc = "refused" /\ m.code = code /\ m.op = w.op /\ m.host = w.host /\ m.id = w.id
      /\ m.request = w.request /\ m.policy = w.policy /\ m.alive = w.alive /\ m.moved = w.moved
      /\ m.settled = w.settled /\ m.fallback = w.fallback
  BY <1>1, <1>2, <1>3 DEF RequestsServed
<1>5. worker' = [worker EXCEPT ![p] = m]
  BY DEF Door!Refuse
<1> HIDE DEF m
<1>6. AskedOK(m)
  BY <1>1, <1>4 DEF AskedOK
<1>7. ThroughOK(m)
  BY <1>1, <1>4 DEF ThroughOK, Issuing
<1>8. ReadOK(m)
  BY <1>1, <1>4 DEF ReadOK, Authorised
<1> QED  BY <1>4, <1>5, <1>6, <1>7, <1>8, MovesOn DEF ServedOK, Issuing

\* It goes to its next step.
LEMMA GoesTo ==
  ASSUME DoorInv, NEW p \in Worker, worker[p].pc # "idle",
         NEW pc \in Door!Places \ {"idle"}, Door!Goes(p, pc), Door!Keeps,
         ThroughOK([worker[p] EXCEPT !.pc = pc]), ReadOK([worker[p] EXCEPT !.pc = pc]),
         pc \in Issuing /\ worker[p].op \in Door!Issues => worker[p].pc \in Issuing
  PROVE  DoorInv'
<1> DEFINE w == worker[p]
           m == [w EXCEPT !.pc = pc]
<1>1. w \in RequestsServed /\ AskedOK(w)
  BY RequestFacts
<1>2. /\ m \in RequestsServed
      /\ m.pc = pc /\ m.code = w.code /\ m.op = w.op /\ m.host = w.host /\ m.id = w.id
      /\ m.request = w.request /\ m.settled = w.settled
  BY <1>1 DEF RequestsServed
<1>3. worker' = [worker EXCEPT ![p] = m] /\ ThroughOK(m) /\ ReadOK(m)
  BY DEF Door!Goes
<1> HIDE DEF m
<1>4. AskedOK(m)
  BY <1>1, <1>2 DEF AskedOK
<1> QED  BY <1>2, <1>3, <1>4, MovesOn DEF ServedOK

\* The record comes first: who passes it came through a session that was alive.
LEMMA RecordInv ==
  ASSUME DoorInv, NEW p \in Worker, Door!Record(p)
  PROVE  DoorInv'
<1> DEFINE w == worker[p]
<1>1. w.pc = "record" /\ Door!Keeps
  BY DEF Door!Record
<1>2. w \in RequestsServed /\ AskedOK(w) /\ ThroughOK(w) /\ ReadOK(w)
  BY <1>1, RequestFacts
<1>3. w.op \notin Door!Issues
  BY <1>1, <1>2 DEF ThroughOK, Issuing
<1>4. ASSUME NEW pc \in {"current", "service"}, Door!Lives(sessions[w.host]), Door!Goes(p, pc),
             pc = "service" => w.op \in Door!StoredReads
      PROVE  DoorInv'
  <2> DEFINE m == [w EXCEPT !.pc = pc]
  <2>1. /\ m.pc = pc /\ m.op = w.op /\ m.host = w.host /\ m.id = w.id /\ m.alive = w.alive
        /\ m.moved = w.moved /\ m.fallback = w.fallback
    BY <1>2 DEF RequestsServed
  <2>2. w.alive
    BY <1>2, <1>3, <1>4 DEF ThroughOK, Door!Alive, Door!Lives
  <2> HIDE DEF m
  <2>3. ThroughOK(m)
    BY <1>2, <1>3, <2>1, <2>2 DEF ThroughOK
  <2>4. ReadOK(m)
    BY <1>1, <1>2, <1>4, <2>1
    DEF ReadOK, Authorised, Door!StoredReads, Door!Recoverable
  <2> QED  BY <1>1, <1>3, <1>4, <2>3, <2>4, GoesTo DEF m, Door!Places
<1> QED  BY <1>1, <1>4, TurnedAway DEF Door!Record

\* The binding moved or is gone.
LEMMA UnboundInv ==
  ASSUME DoorInv, NEW p \in Worker, worker[p].pc \in {"current", "workflow", "head"},
         Door!Unbound(p), Door!Keeps
  PROVE  DoorInv'
<1> DEFINE w == worker[p]
           m == [w EXCEPT !.pc = "stored"]
<1>1. w \in RequestsServed /\ AskedOK(w) /\ ThroughOK(w) /\ ReadOK(w)
  BY RequestFacts
<1>2. CASE w.op \in Door!Recoverable
  <2>1. /\ m.pc = "stored" /\ m.op = w.op /\ m.host = w.host /\ m.id = w.id
        /\ m.alive = w.alive /\ m.moved = w.moved /\ m.fallback = w.fallback
    BY <1>1 DEF RequestsServed
  <2>2. w.op \notin Door!Issues
    BY <1>2 DEF Door!Recoverable, Door!Issues
  <2>3. Door!Goes(p, "stored")
    BY <1>2 DEF Door!Unbound
  <2> HIDE DEF m
  <2>4. ThroughOK(m)
    BY <1>1, <2>1, <2>2 DEF ThroughOK
  <2>5. ReadOK(m)
    BY <1>1, <1>2, <2>1 DEF ReadOK, Authorised
  <2> QED  BY <2>2, <2>3, <2>4, <2>5, GoesTo DEF m, Door!Places
<1>3. CASE w.op \notin Door!Recoverable
  BY <1>3, TurnedAway DEF Door!Unbound
<1> QED  BY <1>2, <1>3

\* The registry is read, and the resolver's binding kept beside the session's.
LEMMA CurrentInv ==
  ASSUME DoorInv, NEW p \in Worker, Door!Current(p)
  PROVE  DoorInv'
<1> DEFINE w == worker[p]
           b == registry[Door!BindingOf(w.id).session]
           m == [w EXCEPT !.pc = "workflow", !.current = b]
<1>1. w.pc = "current" /\ Door!Keeps
  BY DEF Door!Current
<1>2. w \in RequestsServed /\ AskedOK(w) /\ ThroughOK(w) /\ ReadOK(w)
        /\ Door!BindingOf(w.id) \in Door!OpenWorkbooks
  BY <1>1, RequestFacts
<1>3. CASE b = None
  BY <1>1, <1>3, UnboundInv DEF Door!Current
<1>4. CASE b # None
  <2>1. b \in Door!OpenWorkbooks
    BY <1>2, <1>4 DEF DoorInv, DoorTypes, Door!OpenWorkbooks
  <2>2. worker' = [worker EXCEPT ![p] = m]
    BY <1>4 DEF Door!Current
  <2> HIDE DEF b
  <2>3. /\ m \in RequestsServed
        /\ m.pc = "workflow" /\ m.code = w.code /\ m.op = w.op /\ m.host = w.host
        /\ m.id = w.id /\ m.policy = w.policy
        /\ m.request = w.request /\ m.settled = w.settled /\ m.alive = w.alive
        /\ m.moved = w.moved /\ m.fallback = w.fallback
    BY <1>2, <2>1 DEF RequestsServed, Door!Places
  <2> HIDE DEF m
  <2>4. AskedOK(m)
    BY <1>2, <2>3 DEF AskedOK
  <2>5. ThroughOK(m)
    BY <1>1, <1>2, <2>3 DEF ThroughOK, Issuing
  <2>6. ReadOK(m)
    BY <1>1, <1>2, <2>3 DEF ReadOK, Authorised
  <2> QED  BY <1>1, <2>2, <2>3, <2>4, <2>5, <2>6, MovesOn DEF ServedOK, Issuing
<1> QED  BY <1>3, <1>4

\* From here on the registry is known to agree, unless it moves.
LEMMA WorkflowInv ==
  ASSUME DoorInv, NEW p \in Worker, Door!Workflow(p)
  PROVE  DoorInv'
<1> DEFINE w == worker[p]
           b == Door!BindingOf(w.id)
           m == [w EXCEPT !.pc = "head"]
<1>1. w.pc = "workflow" /\ Door!Keeps
  BY DEF Door!Workflow
<1>2. w \in RequestsServed /\ AskedOK(w) /\ ThroughOK(w) /\ ReadOK(w)
  BY <1>1, RequestFacts
<1>3. CASE registry[b.session] # b
  BY <1>1, <1>3, UnboundInv DEF Door!Workflow
<1>4. CASE registry[b.session] = b
  <2>1. /\ m.pc = "head" /\ m.op = w.op /\ m.host = w.host /\ m.id = w.id
        /\ m.policy = w.policy
        /\ m.alive = w.alive /\ m.moved = w.moved /\ m.fallback = w.fallback
    BY <1>2 DEF RequestsServed
  <2>2. Door!Goes(p, "head")
    BY <1>4 DEF Door!Workflow
  <2> HIDE DEF m
  <2>3. ThroughOK(m)
    BY <1>1, <1>2, <2>1 DEF ThroughOK, Issuing
  <2>4. ReadOK(m)
    BY <1>1, <1>2, <1>4, <2>1 DEF ReadOK, Authorised
  <2> QED  BY <1>1, <2>2, <2>3, <2>4, GoesTo DEF m, Door!Places, Issuing
<1> QED  BY <1>3, <1>4

\* The three bindings are compared, and whoever agrees is admitted.
LEMMA CompareBindingsInv ==
  ASSUME DoorInv, NEW p \in Worker, Door!CompareBindings(p)
  PROVE  DoorInv'
<1> DEFINE w == worker[p]
<1>1. w.pc = "head" /\ Door!Keeps
  BY DEF Door!CompareBindings
<1>2. w \in RequestsServed /\ AskedOK(w) /\ ThroughOK(w) /\ ReadOK(w)
  BY <1>1, RequestFacts
<1>3. ASSUME NEW pc \in {"create", "service"}, Door!Goes(p, pc),
             pc = "create" <=> w.op \in Door!Issues
      PROVE  DoorInv'
  <2> DEFINE m == [w EXCEPT !.pc = pc]
  <2>1. /\ m.pc = pc /\ m.op = w.op /\ m.host = w.host /\ m.id = w.id
        /\ m.policy = w.policy
        /\ m.alive = w.alive /\ m.moved = w.moved /\ m.fallback = w.fallback
    BY <1>2 DEF RequestsServed
  <2> HIDE DEF m
  <2>2. ThroughOK(m)
    BY <1>1, <1>2, <1>3, <2>1 DEF ThroughOK, Issuing
  <2>3. w.moved = moves /\ m.op \notin Door!StoredReads =>
          registry[Door!BindingOf(w.id).session] = Door!BindingOf(w.id)
    BY <1>1, <1>2, <2>1 DEF ReadOK
  <2>4. w.fallback => edit[w.id].publication # 0
    BY <1>1, <1>2 DEF ReadOK, Authorised
  <2>5. ReadOK(m)
    BY <1>1, <1>2, <1>3, <2>1, <2>3, <2>4 DEF ReadOK, Authorised
  <2> QED  BY <1>1, <1>3, <2>2, <2>5, GoesTo DEF m, Door!Places, Issuing
<1> QED  BY <1>1, <1>3, TurnedAway, UnboundInv DEF Door!CompareBindings

\* The record again, on the way to a publication.
LEMMA StoredInv ==
  ASSUME DoorInv, NEW p \in Worker, Door!Stored(p)
  PROVE  DoorInv'
<1> DEFINE w == worker[p]
           m == [w EXCEPT !.pc = "published"]
<1>1. w.pc = "stored" /\ Door!Keeps
  BY DEF Door!Stored
<1>2. w \in RequestsServed /\ AskedOK(w) /\ ThroughOK(w) /\ ReadOK(w)
  BY <1>1, RequestFacts
<1>3. w.op \in Door!Recoverable /\ w.op \notin Door!Issues
  BY <1>1, <1>2 DEF ReadOK, ThroughOK, Issuing
<1>4. CASE Door!Goes(p, "published")
  <2>1. /\ m.pc = "published" /\ m.op = w.op /\ m.host = w.host /\ m.id = w.id
        /\ m.alive = w.alive /\ m.moved = w.moved /\ m.fallback = w.fallback
    BY <1>2 DEF RequestsServed
  <2> HIDE DEF m
  <2>2. ThroughOK(m)
    BY <1>1, <1>2, <1>3, <2>1 DEF ThroughOK
  <2>3. ReadOK(m)
    BY <1>1, <1>2, <1>3, <2>1 DEF ReadOK, Authorised
  <2> QED  BY <1>1, <1>3, <1>4, <2>2, <2>3, GoesTo DEF m, Door!Places
<1> QED  BY <1>1, <1>4, TurnedAway DEF Door!Stored

\* Whoever is admitted for a publication finds it committed, and whoever came after
\* it was committed is only refused for an execution that is not the published one.
LEMMA PublishedInv ==
  ASSUME DoorInv, NEW p \in Worker, Door!Published(p)
  PROVE  DoorInv'
<1> DEFINE w == worker[p]
           pc == IF ~ Door!PublicationOf(w) THEN "refused"
                 ELSE IF w.op \in Door!Issues THEN "create" ELSE "service"
           code == IF Door!PublicationOf(w) THEN None ELSE "binding"
           m == [w EXCEPT !.fallback = TRUE, !.pc = pc, !.code = code]
<1>1. w.pc = "published" /\ Door!Keeps /\ worker' = [worker EXCEPT ![p] = m]
  BY DEF Door!Published
<1>2. /\ w \in RequestsServed /\ AskedOK(w) /\ ThroughOK(w) /\ ReadOK(w)
      /\ Door!EditOK(w.id)
  BY <1>1, RequestFacts
<1>3. pc \in Door!Places /\ pc # "idle" /\ code \in {None, "binding"}
  BY DEF Door!Places
<1>4. /\ pc = "refused" => ~ Door!PublicationOf(w)
      /\ pc # "refused" => edit[w.id].publication # 0 /\ code = None
      /\ pc \in {"refused", "create", "service"}
      /\ pc = "create" => w.op \in Door!Issues
      /\ pc = "service" => w.op \notin Door!Issues
  BY DEF Door!PublicationOf
<1>5. w.op \in Door!Recoverable \cup {"issue_published"}
  BY <1>1, <1>2 DEF ReadOK
<1>6. pc = "refused" /\ w.op \in Door!Recoverable /\ w.settled =>
        w.op = "publish_verified_snapshot" /\ edit[w.id].exec # w.request.exec
  <2> SUFFICES ASSUME pc = "refused", w.op \in Door!Recoverable, w.settled
               PROVE  w.op = "publish_verified_snapshot" /\ edit[w.id].exec # w.request.exec
    OBVIOUS
  <2>1. edit[w.id].publication # 0
    BY <1>2 DEF AskedOK
  <2>2. edit[w.id].exec # None
    BY <1>2, <2>1 DEF Door!EditOK
  <2>3. ~ Door!ExecFits(w)
    BY <1>4, <2>1 DEF Door!PublicationOf
  <2> QED  BY <2>2, <2>3 DEF Door!ExecFits
<1> HIDE DEF pc, code
<1>7. /\ m \in RequestsServed
      /\ m.pc = pc /\ m.code = code /\ m.op = w.op /\ m.host = w.host /\ m.id = w.id
      /\ m.request = w.request /\ m.settled = w.settled /\ m.policy = w.policy
      /\ m.alive = w.alive /\ m.moved = w.moved /\ m.fallback
  BY <1>2, <1>3 DEF RequestsServed
<1> HIDE DEF m
<1>8. AskedOK(m)
  <2>1. m.code = "binding" => pc = "refused"
    BY <1>4, <1>7, DoorAssumption DEF Door!HostAssumption
  <2> QED  BY <1>2, <1>6, <1>7, <2>1 DEF AskedOK
<1>9. ThroughOK(m)
  BY <1>1, <1>2, <1>4, <1>7 DEF ThroughOK, Issuing
<1>10. ReadOK(m)
  BY <1>1, <1>2, <1>4, <1>5, <1>7 DEF ReadOK, Authorised
<1> QED  BY <1>1, <1>3, <1>7, <1>8, <1>9, <1>10, MovesOn DEF ServedOK, Issuing

\* A request arrives.
LEMMA ArrivesInv ==
  ASSUME DoorInv, NEW p \in Worker, NEW op \in Operations, NEW r \in Request \cup {None},
         NEW i \in Routed, NEW h \in Host, NEW policy \in Door!Policy \cup {None},
         Door!Arrives(p, op, r, i, h, policy),
         op \in Door!Commands => r \in Request /\ r.op = op /\ r.id = i,
         IF op \in Door!Issues
         THEN /\ policy \in Door!Policy /\ sessions[h] = None
              /\ \A q \in Worker : worker[q].op \in Door!Issues => worker[q].host # h
         ELSE sessions[h] # None
  PROVE  DoorInv'
<1> DEFINE pc == CASE op = "issue" -> "current"
                   [] op = "issue_published" -> "published"
                   [] OTHER -> "record"
           alive == Door!Alive(h)
           settled == edit[i].publication # 0
           m == [Door!Idle EXCEPT !.op = op, !.request = r, !.id = i, !.host = h,
                                  !.policy = policy, !.pc = pc, !.alive = alive,
                                  !.moved = moves, !.settled = settled]
<1>1. /\ edit[i].state # "absent" /\ Door!Keeps
      /\ worker' = [worker EXCEPT ![p] = m]
  BY DEF Door!Arrives
<1>2. /\ pc \in Door!Places \ {"idle"} /\ pc \in {"current", "published", "record"}
      /\ op \in Door!Issues <=> pc # "record"
      /\ pc = "published" => op = "issue_published"
  BY DEF Door!Places, Door!Issues
<1>3. moves \in Nat /\ alive \in BOOLEAN /\ settled \in BOOLEAN
  BY DoorAssumption DEF DoorInv, DoorTypes, Door!Alive, Door!HostAssumption
<1>4. settled => edit[i].publication # 0
  OBVIOUS
<1>5. alive => Door!Alive(h)
  OBVIOUS
<1>6. ~ alive => ~ Door!Alive(h)
  OBVIOUS
<1> HIDE DEF pc, alive, settled
<1>7. /\ m.op = op /\ m.request = r /\ m.id = i /\ m.host = h /\ m.policy = policy
      /\ m.pc = pc /\ m.alive = alive /\ m.moved = moves /\ m.settled = settled
      /\ m.current = None /\ m.code = None /\ m.fallback = FALSE
  BY DEF Door!Idle
<1>8. m \in RequestsServed
  BY <1>2, <1>3 DEF RequestsServed, Door!Idle
<1> HIDE DEF m
<1>9. AskedOK(m)
  BY <1>1, <1>4, <1>7, DoorAssumption DEF AskedOK, Door!HostAssumption
<1>10. ThroughOK(m)
  BY <1>2, <1>6, <1>7 DEF ThroughOK, Issuing
<1>11. ReadOK(m)
  BY <1>2, <1>3, <1>7 DEF ReadOK, Authorised
<1> QED  BY <1>1, <1>2, <1>7, <1>8, <1>9, <1>10, <1>11, RequestStep DEF ServedOK

\* The service answers from a receipt, or reads the binding again.
LEMMA ServeInv ==
  ASSUME DoorInv, NEW p \in Worker, Door!Serve(p)
  PROVE  DoorInv'
<1> DEFINE w == worker[p]
<1>1. w.pc = "service" /\ Door!Keeps
  BY DEF Door!Serve
<1>2. w \in RequestsServed /\ AskedOK(w) /\ ThroughOK(w) /\ ReadOK(w)
  BY <1>1, RequestFacts
<1>3. w.op \notin Door!Issues
  BY <1>1, <1>2 DEF ThroughOK, Issuing
<1>4. ASSUME NEW pc \in {"answered", "effect"}, Door!Goes(p, pc),
             pc = "effect" => w.op \in Door!Commands
      PROVE  DoorInv'
  <2> DEFINE m == [w EXCEPT !.pc = pc]
  <2>1. /\ m.pc = pc /\ m.op = w.op /\ m.host = w.host /\ m.id = w.id
        /\ m.alive = w.alive /\ m.moved = w.moved /\ m.fallback = w.fallback
    BY <1>2 DEF RequestsServed
  <2> HIDE DEF m
  <2>2. ThroughOK(m)
    BY <1>1, <1>2, <1>3, <2>1 DEF ThroughOK
  <2>3. ReadOK(m)
    BY <1>1, <1>2, <1>4, <2>1 DEF ReadOK, Authorised
  <2> QED  BY <1>1, <1>3, <1>4, <2>2, <2>3, GoesTo DEF m, Door!Places
<1> QED  BY <1>1, <1>4, TurnedAway DEF Door!Serve

\* A request that stands still while the edits, the sessions and the registry move.
LEMMA StandsStill ==
  ASSUME DoorInv, NEW q \in Worker, worker'[q] = worker[q],
         \A i \in Routed : Grown(i),
         \A h \in Host : sessions[h] # None =>
           sessions'[h] # None /\ (~ Door!Alive(h) => ~ Door!Alive(h)'),
         worker[q].op \in Door!Issues /\ worker[q].pc \in Issuing =>
           sessions'[worker[q].host] = None,
         moves' \in Nat, moves <= moves', moves' = moves => registry' = registry
  PROVE  ServedOK(worker[q])'
<1> DEFINE w == worker[q]
<1>1. CASE w = Door!Idle
  BY <1>1 DEF ServedOK
<1>2. CASE w # Door!Idle
  <2>1. /\ w.pc # "idle" /\ w \in RequestsServed
        /\ AskedOK(w) /\ ThroughOK(w) /\ ReadOK(w)
    BY <1>2 DEF DoorInv, ServedOK, DoorTypes
  <2>2. Grown(w.id) /\ w.moved \in Nat /\ moves \in Nat
    BY <2>1, DoorAssumption
    DEF AskedOK, RequestsServed, DoorInv, DoorTypes, Door!HostAssumption
  <2>3. AskedOK(w)'
    <3>1. w.op \in Door!Recoverable /\ w.settled /\ w.code = "binding" =>
            w.op = "publish_verified_snapshot" /\ edit'[w.id].exec # w.request.exec
      BY <2>1, <2>2 DEF AskedOK, Grown
    <3> QED  BY <2>1, <2>2, <3>1 DEF AskedOK, Grown
  <2>4. ThroughOK(w)'
    <3>1. w.host \in Host
      BY <2>1 DEF AskedOK
    <3>2. w.op \in Door!Issues => ThroughOK(w)'
      BY <2>1 DEF ThroughOK
    <3>3. w.op \notin Door!Issues => ThroughOK(w)'
      <4> SUFFICES ASSUME w.op \notin Door!Issues PROVE ThroughOK(w)'
        OBVIOUS
      <4>1. sessions[w.host] # None /\ (w.alive \/ ~ Door!Alive(w.host))
              /\ (w.pc \notin {"record", "refused"} => w.alive) /\ w.pc # "create"
        BY <2>1 DEF ThroughOK
      <4>2. sessions'[w.host] # None /\ (~ Door!Alive(w.host) => ~ Door!Alive(w.host)')
        BY <3>1, <4>1
      <4> QED  BY <4>1, <4>2 DEF ThroughOK, Door!Alive
    <3> QED  BY <3>2, <3>3
  <2>5. ReadOK(w)'
    <3>1. w.moved <= moves'
      BY <2>1, <2>2 DEF ReadOK
    <3>2. w.moved = moves' => w.moved = moves
      BY <2>1, <2>2 DEF ReadOK
    <3>3. edit[w.id].publication # 0 => edit'[w.id].publication # 0
      BY <2>2 DEF Grown
    <3>4. w.moved = moves' /\ w.pc \in {"head"} \cup Authorised /\ w.op \notin Door!StoredReads =>
            \/ registry'[Door!BindingOf(w.id)'.session] = Door!BindingOf(w.id)'
            \/ /\ w.pc # "head" /\ w.op \in Door!Recoverable \cup {"issue_published"}
               /\ edit'[w.id].publication # 0
      <4>1. Door!BindingOf(w.id)' = Door!BindingOf(w.id)
        BY <2>2 DEF Grown, Door!BindingOf
      <4> QED  BY <2>1, <3>2, <3>3, <4>1 DEF ReadOK
    <3> QED  BY <2>1, <3>1, <3>3, <3>4 DEF ReadOK
  <2> QED  BY <2>1, <2>3, <2>4, <2>5 DEF ServedOK
<1> QED  BY <1>1, <1>2

\* The surroundings move, and no request.
LEMMA Surroundings ==
  ASSUME DoorInv, UNCHANGED <<avars, worker>>, DoorTypes',
         \A h \in Host :
           /\ sessions[h] = None => sessions'[h] = None
           /\ sessions[h] # None =>
                sessions'[h] # None /\ (~ Door!Alive(h) => ~ Door!Alive(h)'),
         moves <= moves', moves' = moves => registry' = registry
  PROVE  DoorInv'
<1>1. edit' = edit /\ fence' = fence /\ worker' = worker
  BY DEF avars
<1>2. \A i \in Routed : Grown(i) /\ Door!EditOK(i)'
  BY <1>1 DEF Grown, DoorInv, Door!EditOK, Door!BindingOf
<1>3. moves' \in Nat
  BY DoorAssumption DEF DoorTypes, Door!HostAssumption
<1>4. ASSUME NEW q \in Worker
      PROVE  ServedOK(worker[q])'
  <2>1. worker[q].op \in Door!Issues /\ worker[q].pc \in Issuing =>
          sessions'[worker[q].host] = None
    <3> SUFFICES ASSUME worker[q].op \in Door!Issues, worker[q].pc \in Issuing
                 PROVE  sessions'[worker[q].host] = None
      OBVIOUS
    <3>1. worker[q].pc # "idle"
      BY DEF Issuing
    <3>2. worker[q].host \in Host /\ sessions[worker[q].host] = None
      BY <3>1, RequestFacts DEF AskedOK, ThroughOK
    <3> QED  BY <3>2
  <2> QED  BY <1>1, <1>2, <1>3, <2>1, StandsStill
<1>5. IssuesApart'
  BY <1>1 DEF DoorInv, IssuesApart
<1> QED  BY <1>2, <1>4, <1>5 DEF DoorInv

\* A revoked session is never alive again.
LEMMA RevokeInv ==
  ASSUME DoorInv, NEW h \in Host, Door!Revoke(h)
  PROVE  DoorInv'
<1>1. /\ sessions[h] # None /\ UNCHANGED <<avars, registry, moves, clock, worker>>
      /\ sessions' = [sessions EXCEPT ![h] = [@ EXCEPT !.revoked = TRUE]]
  BY DEF Door!Revoke, Door!avars, avars
<1>2. sessions[h] \in Door!HostSessions
  BY <1>1 DEF DoorInv, DoorTypes
<1> DEFINE s == [sessions[h] EXCEPT !.revoked = TRUE]
<1>3. s \in Door!HostSessions /\ s.revoked
  BY <1>2 DEF Door!HostSessions
<1>4. s # None /\ \A k \in Host : sessions'[k] = IF k = h THEN s ELSE sessions[k]
  BY <1>1, <1>3, DoorAssumption DEF DoorInv, DoorTypes, Door!HostAssumption
<1>5. sessions' \in [Host -> Door!HostSessions \cup {None}]
  BY <1>1, <1>3 DEF DoorInv, DoorTypes
<1> HIDE DEF s
<1>6. DoorTypes'
  BY <1>1, <1>5 DEF DoorInv, DoorTypes, avars
<1>7. moves \in Nat
  BY DoorAssumption DEF DoorInv, DoorTypes, Door!HostAssumption
<1>8. ASSUME NEW k \in Host
      PROVE  /\ sessions[k] = None => sessions'[k] = None
             /\ sessions[k] # None =>
                  sessions'[k] # None /\ (~ Door!Alive(k) => ~ Door!Alive(k)')
  BY <1>1, <1>3, <1>4, <1>8 DEF Door!Alive
<1> QED  BY <1>1, <1>6, <1>7, <1>8, Surroundings

\* A move of the registry is counted: who read before it knows less.
LEMMA RegisterInv ==
  ASSUME DoorInv, NEW s \in Session, NEW b \in Door!Bindings(s), Door!Register(s, b)
  PROVE  DoorInv'
<1>1. /\ UNCHANGED <<avars, sessions, clock, worker>> /\ moves < MaxMoves /\ moves' = moves + 1
      /\ registry' = [registry EXCEPT ![s] = b]
  BY DEF Door!Register, Door!avars, avars
<1>2. b \in Door!OpenWorkbooks \cup {None} /\ (b # None => b.session = s)
  BY DEF Door!Bindings, Door!OpenWorkbooks
<1>3. moves \in Nat /\ MaxMoves \in Nat
  BY DoorAssumption DEF DoorInv, DoorTypes, Door!HostAssumption
<1>4. DoorTypes'
  BY <1>1, <1>2, <1>3 DEF DoorInv, DoorTypes, avars
<1>5. ASSUME NEW k \in Host
      PROVE  /\ sessions[k] = None => sessions'[k] = None
             /\ sessions[k] # None =>
                  sessions'[k] # None /\ (~ Door!Alive(k) => ~ Door!Alive(k)')
  BY <1>1, <1>5 DEF Door!Alive
<1>6. moves <= moves' /\ moves' # moves
  BY <1>1, <1>3
<1> QED  BY <1>1, <1>4, <1>5, <1>6, Surroundings

\* An expired session is never alive again.
LEMMA TickInv ==
  ASSUME DoorInv, Door!Tick
  PROVE  DoorInv'
<1>1. /\ UNCHANGED <<avars, sessions, registry, moves, worker>>
      /\ clock < MaxClock /\ clock' = clock + 1
  BY DEF Door!Tick, Door!avars, avars
<1>2. moves \in Nat /\ clock \in Nat /\ MaxClock \in Nat
  BY DoorAssumption DEF DoorInv, DoorTypes, Door!HostAssumption
<1>3. DoorTypes'
  BY <1>1, <1>2 DEF DoorInv, DoorTypes, avars
<1>4. ASSUME NEW k \in Host
      PROVE  /\ sessions[k] = None => sessions'[k] = None
             /\ sessions[k] # None =>
                  sessions'[k] # None /\ (~ Door!Alive(k) => ~ Door!Alive(k)')
  <2>1. sessions[k] # None => sessions[k].expires \in Nat
    BY <1>4 DEF DoorInv, DoorTypes, Door!HostSessions
  <2> QED  BY <1>1, <1>2, <2>1 DEF Door!Alive
<1>5. moves <= moves'
  BY <1>1, <1>2
<1> QED  BY <1>1, <1>3, <1>4, <1>5, Surroundings

\* A session is issued to the one request that issues it.
LEMMA CreateInv ==
  ASSUME DoorInv, NEW p \in Worker, Door!Create(p)
  PROVE  DoorInv'
<1> DEFINE w == worker[p]
           s == [id |-> w.id, binding |-> Door!BindingOf(w.id), policy |-> w.policy,
                 expires |-> clock + SessionTtl, revoked |-> FALSE]
           m == [w EXCEPT !.pc = "answered"]
<1>1. /\ w.pc = "create" /\ UNCHANGED <<avars, registry, moves, clock>>
      /\ sessions' = [sessions EXCEPT ![w.host] = s]
      /\ worker' = [worker EXCEPT ![p] = m]
  BY DEF Door!Create, Door!Goes, Door!avars, avars
<1>2. /\ w \in RequestsServed /\ AskedOK(w) /\ ThroughOK(w) /\ ReadOK(w)
      /\ Door!BindingOf(w.id) \in Door!OpenWorkbooks
  BY <1>1, RequestFacts
<1>3. w.op \in Door!Issues /\ sessions[w.host] = None /\ w.host \in Host /\ w.policy \in Door!Policy
  BY <1>1, <1>2 DEF ThroughOK, Issuing, AskedOK
<1>4. s \in Door!HostSessions /\ s # None
  <2>1. clock + SessionTtl \in Nat
    BY DoorAssumption DEF DoorInv, DoorTypes, Door!HostAssumption
  <2>2. s \in Door!HostSessions
    BY <1>2, <1>3, <2>1 DEF Door!HostSessions, AskedOK
  <2> HIDE DEF s
  <2> QED  BY <2>2, DoorAssumption DEF Door!HostAssumption
<1>5. /\ m \in RequestsServed
      /\ m.pc = "answered" /\ m.code = w.code /\ m.op = w.op /\ m.host = w.host /\ m.id = w.id
      /\ m.request = w.request /\ m.settled = w.settled /\ m.policy = w.policy
      /\ m.alive = w.alive /\ m.moved = w.moved /\ m.fallback = w.fallback
  BY <1>2 DEF RequestsServed, Door!Places
<1> HIDE DEF s, m
<1>6. DoorTypes'
  <2>1. sessions' \in [Host -> Door!HostSessions \cup {None}]
    BY <1>1, <1>4 DEF DoorInv, DoorTypes
  <2>2. worker' \in [Worker -> RequestsServed]
    BY <1>1, <1>5 DEF DoorInv, DoorTypes
  <2> QED  BY <1>1, <2>1, <2>2 DEF DoorInv, DoorTypes, avars
<1>7. \A q \in Worker : worker'[q] = IF q = p THEN m ELSE worker[q]
  BY <1>1 DEF DoorInv, DoorTypes
<1>8. \A i \in Routed : Grown(i) /\ Door!EditOK(i)'
  BY <1>1 DEF Grown, DoorInv, Door!EditOK, Door!BindingOf, avars
<1>9. ASSUME NEW q \in Worker, q # p
      PROVE  ServedOK(worker[q])'
  <2>1. \A h \in Host : sessions[h] # None =>
          sessions'[h] # None /\ (~ Door!Alive(h) => ~ Door!Alive(h)')
    BY <1>1, <1>3 DEF DoorInv, DoorTypes, Door!Alive
  <2>2. worker[q].op \in Door!Issues /\ worker[q].pc \in Issuing =>
          sessions'[worker[q].host] = None
    <3> SUFFICES ASSUME worker[q].op \in Door!Issues, worker[q].pc \in Issuing
                 PROVE  sessions'[worker[q].host] = None
      OBVIOUS
    <3>1. worker[q].pc # "idle"
      BY DEF Issuing
    <3>2. sessions[worker[q].host] = None /\ worker[q].host \in Host
      BY <3>1, RequestFacts DEF AskedOK, ThroughOK
    <3>3. /\ {worker[p].pc, worker[q].pc} \subseteq Issuing
          /\ {worker[p].op, worker[q].op} \subseteq Door!Issues
      BY <1>1, <1>3 DEF Issuing
    <3>4. worker[q].host # w.host
      BY <1>9, <3>3 DEF DoorInv, IssuesApart
    <3> QED  BY <1>1, <3>2, <3>4 DEF DoorInv, DoorTypes
  <2>3. moves' \in Nat /\ moves <= moves'
    BY <1>1, DoorAssumption DEF DoorInv, DoorTypes, Door!HostAssumption
  <2> QED  BY <1>1, <1>7, <1>8, <1>9, <2>1, <2>2, <2>3, StandsStill
<1>10. ServedOK(worker[p])'
  <2>1. edit' = edit /\ registry' = registry /\ moves' = moves
    BY <1>1 DEF avars
  <2>2. worker'[p] = m
    BY <1>7
  <2>3. AskedOK(worker[p])'
    BY <1>2, <1>5, <2>1, <2>2 DEF AskedOK
  <2>4. ThroughOK(worker[p])'
    BY <1>3, <1>5, <2>2 DEF ThroughOK, Issuing
  <2>5. ReadOK(worker[p])'
    BY <1>1, <1>2, <1>5, <2>1, <2>2 DEF ReadOK, Authorised, Door!BindingOf
  <2> QED  BY <1>5, <2>2, <2>3, <2>4, <2>5 DEF ServedOK
<1>11. IssuesApart'
  BY <1>5, <1>7 DEF DoorInv, IssuesApart, Issuing
<1> QED  BY <1>6, <1>8, <1>9, <1>10, <1>11 DEF DoorInv

\* The command of a request takes effect, or the service refuses it.
LEMMA TakeInv ==
  ASSUME DoorInv, NEW p \in Worker, Door!Take(p)
  PROVE  DoorInv'
<1> DEFINE w == worker[p]
           m == [w EXCEPT !.pc = "answered"]
           r == Door!Effective(p)
<1>1. w.pc = "effect" /\ UNCHANGED <<sessions, registry, moves, clock>>
  BY DEF Door!Take
<1>2. w \in RequestsServed /\ AskedOK(w) /\ ThroughOK(w) /\ ReadOK(w)
  BY <1>1, RequestFacts
<1>3. w.op \in Door!Commands /\ w.op \notin Door!Issues
  BY <1>1, <1>2 DEF ReadOK, ThroughOK, Issuing
<1>4. CASE UNCHANGED Door!avars /\ Door!Refuse(p, "service")
  BY <1>1, <1>4, TurnedAway DEF Door!Keeps
<1>5. CASE Door!Perform(r) /\ Door!Goes(p, "answered")
  <2>1. w.request \in Door!Requests /\ w.request.id = w.id /\ w.request.op = w.op
    BY <1>2, <1>3, DoorAssumption DEF AskedOK, Door!HostAssumption
  <2>2. r.id = w.id /\ r.op = w.op /\ r.key \in Key /\ r.required \in BOOLEAN
    <3>1. (sessions[w.host].policy = "required") \in BOOLEAN
      OBVIOUS
    <3> QED  BY <2>1, <3>1 DEF Door!Effective, Door!Requests
  <2> HIDE DEF r
  <2>3. /\ edit' \in [Key -> Door!Documents] /\ fence' \in [Book -> Nat]
        /\ \A j \in Routed : Door!EditOK(j)' /\ Grown(j)
    BY <1>2, <1>5, <2>2, Performed DEF DoorInv, AskedOK
  <2>4. worker' = [worker EXCEPT ![p] = m]
    BY <1>5 DEF Door!Goes
  <2>5. /\ m \in RequestsServed
        /\ m.pc = "answered" /\ m.code = w.code /\ m.op = w.op /\ m.host = w.host
        /\ m.id = w.id /\ m.request = w.request /\ m.settled = w.settled
        /\ m.policy = w.policy
        /\ m.alive = w.alive /\ m.moved = w.moved /\ m.fallback = w.fallback
    BY <1>2 DEF RequestsServed, Door!Places
  <2> HIDE DEF m
  <2>6. \A q \in Worker : worker'[q] = IF q = p THEN m ELSE worker[q]
    BY <2>4 DEF DoorInv, DoorTypes
  <2>7. DoorTypes'
    BY <1>1, <2>3, <2>4, <2>5 DEF DoorInv, DoorTypes
  <2>8. ASSUME NEW q \in Worker, q # p
        PROVE  ServedOK(worker[q])'
    <3>1. \A h \in Host : sessions[h] # None =>
            sessions'[h] # None /\ (~ Door!Alive(h) => ~ Door!Alive(h)')
      BY <1>1 DEF Door!Alive
    <3>2. worker[q].op \in Door!Issues /\ worker[q].pc \in Issuing =>
            sessions'[worker[q].host] = None
      <4> SUFFICES ASSUME worker[q].op \in Door!Issues, worker[q].pc \in Issuing
                   PROVE  sessions[worker[q].host] = None
        BY <1>1
      <4>1. worker[q].pc # "idle"
        BY DEF Issuing
      <4> QED  BY <4>1, RequestFacts DEF ThroughOK
    <3>3. moves' \in Nat /\ moves <= moves'
      BY <1>1, DoorAssumption DEF DoorInv, DoorTypes, Door!HostAssumption
    <3> QED  BY <1>1, <2>3, <2>6, <2>8, <3>1, <3>2, <3>3, StandsStill
  <2>9. ServedOK(worker[p])'
    <3>1. worker'[p] = m /\ Grown(w.id)
      BY <1>2, <2>3, <2>6 DEF AskedOK
    <3>2. AskedOK(worker[p])'
      <4>1. w.op \in Door!Recoverable /\ w.settled /\ w.code = "binding" =>
              w.op = "publish_verified_snapshot" /\ edit'[w.id].exec # w.request.exec
        BY <1>2, <3>1 DEF AskedOK, Grown
      <4> QED  BY <1>2, <2>5, <3>1, <4>1 DEF AskedOK, Grown
    <3>3. ThroughOK(worker[p])'
      BY <1>1, <1>2, <1>3, <2>5, <3>1 DEF ThroughOK, Door!Alive
    <3>4. ReadOK(worker[p])'
      BY <1>1, <1>2, <2>5, <3>1 DEF ReadOK, Authorised
    <3> QED  BY <2>5, <3>1, <3>2, <3>3, <3>4 DEF ServedOK
  <2>10. IssuesApart'
    BY <1>3, <2>5, <2>6 DEF DoorInv, IssuesApart, Issuing
  <2> QED  BY <2>3, <2>7, <2>8, <2>9, <2>10 DEF DoorInv
<1> QED  BY <1>4, <1>5 DEF Door!Take

\* A resolver that fails refuses the request.
LEMMA FaultInv ==
  ASSUME DoorInv, NEW p \in Worker, Door!Fault(p)
  PROVE  DoorInv'
BY TurnedAway DEF Door!Fault

\* A worker is free again.
LEMMA ReturnInv ==
  ASSUME DoorInv, NEW p \in Worker, Door!Return(p)
  PROVE  DoorInv'
<1>1. Door!Idle \in RequestsServed
  BY DEF Door!Idle, RequestsServed, Door!Places
<1>2. Door!Idle.pc \notin Issuing
  BY DEF Door!Idle, Issuing
<1> QED  BY <1>1, <1>2, RequestStep DEF Door!Return, ServedOK

\* No request is at work, and no session is issued, in the beginning.
LEMMA DoorInit ==
  ASSUME Door!HostInit
  PROVE  DoorInv
<1>1. Door!Idle \in RequestsServed /\ Door!Idle.pc \notin Issuing
  BY DEF Door!Idle, RequestsServed, Door!Places, Issuing
<1>2. DoorTypes
  <2>1. \A s \in Session : registry[s] # None => registry[s].session = s
    BY DEF Door!HostInit, Door!Bindings
  <2>2. 0 \in 0 .. MaxMoves /\ 0 \in 0 .. MaxClock
    BY DoorAssumption DEF Door!HostAssumption
  <2> QED  BY <1>1, <2>1, <2>2 DEF Door!HostInit, Door!EditsStored, DoorTypes
<1> QED
  BY <1>1, <1>2 DEF DoorInv, Door!HostInit, Door!EditsStored, ServedOK, IssuesApart

\* Every step of the adapter, the product host and the service keeps the invariant.
LEMMA DoorNext ==
  ASSUME DoorInv, [Door!Next]_(Door!vars)
  PROVE  DoorInv'
<1>1. CASE UNCHANGED Door!vars
  BY <1>1
  DEF Door!vars, Door!avars, Door!hostVars, DoorInv, DoorTypes, Door!EditOK, Door!BindingOf,
      ServedOK, AskedOK, ThroughOK, ReadOK, Door!Alive, IssuesApart
<1>2. ASSUME NEW p \in Worker, NEW r \in Request, NEW h \in Host, Door!Command(p, r, h)
      PROVE  DoorInv'
  <2>1. r.id \in Routed
    BY DoorAssumption DEF Door!HostAssumption, Door!Requests
  <2>2. r.op \in Operations /\ r.op \notin Door!Issues
    BY <1>2 DEF Door!Command, Operations, Door!Commands, Door!Issues
  <2> QED  BY <1>2, <2>1, <2>2, ArrivesInv DEF Door!Command
<1>3. ASSUME NEW p \in Worker, NEW op \in Door!StoredReads \cup {"get_host_bootstrap"},
             NEW i \in Routed, NEW h \in Host, Door!Read(p, op, i, h)
      PROVE  DoorInv'
  <2>1. op \in Operations /\ op \notin Door!Issues /\ op \notin Door!Commands
    BY DEF Operations, Door!StoredReads, Door!Recoverable, Door!Issues, Door!Commands
  <2> QED  BY <1>3, <2>1, ArrivesInv DEF Door!Read
<1>4. ASSUME NEW p \in Worker, NEW op \in Door!Issues, NEW i \in Routed, NEW h \in Host,
             NEW policy \in Door!Policy, Door!Issue(p, op, i, h, policy)
      PROVE  DoorInv'
  <2>1. op \in Operations /\ op \notin Door!Commands
    BY DEF Operations, Door!Issues, Door!Commands
  <2> QED  BY <1>4, <2>1, ArrivesInv DEF Door!Issue
<1>5. ASSUME NEW p \in Worker,
             \/ Door!Record(p) \/ Door!Current(p) \/ Door!Workflow(p) \/ Door!CompareBindings(p)
             \/ Door!Stored(p) \/ Door!Published(p)
             \/ Door!Create(p) \/ Door!Serve(p) \/ Door!Take(p) \/ Door!Fault(p) \/ Door!Return(p)
      PROVE  DoorInv'
  BY <1>5, RecordInv, CurrentInv, WorkflowInv, CompareBindingsInv, StoredInv, PublishedInv,
     CreateInv, ServeInv, TakeInv, FaultInv, ReturnInv
<1>6. ASSUME \/ \E h \in Host : Door!Revoke(h)
             \/ \E s \in Session : \E b \in Door!Bindings(s) : Door!Register(s, b)
             \/ Door!Tick
      PROVE  DoorInv'
  BY <1>6, RevokeInv, RegisterInv, TickInv
<1> QED  BY <1>1, <1>2, <1>3, <1>4, <1>5, <1>6 DEF Door!Next

\* The adapter, its host sessions and the registry keep their invariant, for any
\* requests and moves between their reads (_authorize_host, resolve).
THEOREM DoorInvariance == Door!HostSpec => []DoorInv
<1>1. Door!HostInit => DoorInv
  BY DoorInit
<1>2. DoorInv /\ [Door!Next]_(Door!vars) => DoorInv'
  BY DoorNext
<1> QED  BY <1>1, <1>2, PTL DEF Door!HostSpec

\* The invariant gives what is admitted, and what is answered.
LEMMA DoorIsTrue ==
  ASSUME DoorInv
  PROVE  Door!AuthorityIsTrue /\ Door!RecoveryIsAnswered
<1>1. Door!TypeOK
  <2>1. \A h \in Host : sessions[h] # None => sessions[h] \in Door!HostSessions
    BY DEF DoorInv, DoorTypes
  <2>2. \A s \in Session : registry[s] # None =>
          registry[s] \in Door!OpenWorkbooks /\ registry[s].session = s
    BY DEF DoorInv, DoorTypes
  <2>3. ASSUME NEW p \in Worker, worker[p] # Door!Idle
        PROVE  /\ worker[p].pc \in Door!Places
               /\ worker[p].op \in Door!Issues \cup Door!StoredReads \cup Door!Recoverable
                                    \cup Door!Commands \cup {None}
               /\ worker[p].code \in {None, "session", "binding", "route", "service", "fault"}
               /\ worker[p].pc = "effect" => worker[p].op \in Door!Commands
    BY <2>3 DEF DoorInv, DoorTypes, RequestsServed, ServedOK, AskedOK, ReadOK, Operations
  <2> QED  BY <2>1, <2>2, <2>3 DEF Door!TypeOK, DoorInv, DoorTypes
<1>2. ASSUME NEW p \in Worker, worker[p] # Door!Idle
      PROVE  /\ worker[p] \in RequestsServed
             /\ AskedOK(worker[p]) /\ ThroughOK(worker[p]) /\ ReadOK(worker[p])
  BY <1>2 DEF DoorInv, DoorTypes, ServedOK
<1>3. Door!Idle.pc = "idle" /\ Door!Idle.code = None /\ None # "binding"
  BY DoorAssumption DEF Door!Idle, Door!HostAssumption
<1>4. Door!DeadSessionsStayOut
  BY <1>2, <1>3 DEF Door!DeadSessionsStayOut, Door!Admitted, ThroughOK
<1>5. Door!AuthorityIsCurrent
  BY <1>2, <1>3 DEF Door!AuthorityIsCurrent, ReadOK, Authorised
<1>6. Door!RecoveryIsAnswered
  BY <1>2, <1>3 DEF Door!RecoveryIsAnswered, AskedOK, Door!ExecFits
<1> QED  BY <1>1, <1>4, <1>5, <1>6 DEF Door!AuthorityIsTrue

\* A request admitted for its publication changes nothing: a publication is made
\* once.
LEMMA FallbackReplays ==
  ASSUME DoorInv, [Door!Next]_(Door!vars)
  PROVE  [Door!FallbackOnlyReplays]_(Door!vars)
<1> SUFFICES ASSUME NEW p \in Worker, worker[p].fallback, worker[p].pc = "effect",
                    worker'[p].pc # "effect"
             PROVE  UNCHANGED Door!avars
  BY DEF Door!FallbackOnlyReplays
<1> DEFINE w == worker[p]
<1>1. w \in RequestsServed /\ AskedOK(w) /\ ReadOK(w)
  BY RequestFacts
<1>2. w.op = "publish_verified_snapshot" /\ edit[w.id].publication # 0
  BY <1>1 DEF ReadOK, Authorised, Door!Recoverable, Door!Commands
<1>3. CASE UNCHANGED Door!vars
  BY <1>3 DEF Door!vars
<1>4. ASSUME NEW q \in Worker, Door!Take(q)
      PROVE  UNCHANGED Door!avars
  <2>1. q = p
    BY <1>4 DEF Door!Take, Door!Goes, Door!Refuse, DoorInv, DoorTypes
  <2>2. CASE Door!Perform(Door!Effective(p))
    <3>1. w.request \in Door!Requests /\ w.request.id = w.id /\ w.request.op = w.op
      BY <1>1, <1>2, DoorAssumption DEF AskedOK, Door!HostAssumption, Door!Commands
    <3>2. Door!Effective(p) = w.request
      BY <1>2 DEF Door!Effective
    <3> QED
      BY <1>1, <1>2, <2>2, <3>1, <3>2, Performed DEF DoorInv, AskedOK, Door!Requests
  <2> QED  BY <1>4, <2>1, <2>2 DEF Door!Take
<1>5. ASSUME Door!Keeps
      PROVE  UNCHANGED Door!avars
  BY <1>5 DEF Door!Keeps, Door!avars
<1>6. ASSUME NEW q \in Worker,
             \/ \E r \in Request, h \in Host : Door!Command(q, r, h)
             \/ \E op \in Door!StoredReads \cup {"get_host_bootstrap"}, i \in Routed, h \in Host :
                  Door!Read(q, op, i, h)
             \/ \E op \in Door!Issues, i \in Routed, h \in Host, policy \in Door!Policy :
                  Door!Issue(q, op, i, h, policy)
      PROVE  UNCHANGED Door!avars
  BY <1>5, <1>6 DEF Door!Command, Door!Read, Door!Issue, Door!Arrives
<1>7. ASSUME NEW q \in Worker,
             \/ Door!Record(q) \/ Door!Current(q) \/ Door!Workflow(q) \/ Door!CompareBindings(q)
             \/ Door!Stored(q) \/ Door!Published(q) \/ Door!Serve(q) \/ Door!Fault(q)
             \/ Door!Return(q)
      PROVE  UNCHANGED Door!avars
  BY <1>5, <1>7
  DEF Door!Record, Door!Current, Door!Workflow, Door!CompareBindings, Door!Stored,
      Door!Published, Door!Serve, Door!Fault, Door!Return
<1>8. ASSUME \/ \E q \in Worker : Door!Create(q)
             \/ \E h \in Host : Door!Revoke(h)
             \/ \E s \in Session : \E b \in Door!Bindings(s) : Door!Register(s, b)
             \/ Door!Tick
      PROVE  UNCHANGED Door!avars
  BY <1>8 DEF Door!Create, Door!Revoke, Door!Register, Door!Tick, Door!avars
<1> QED  BY <1>3, <1>4, <1>6, <1>7, <1>8 DEF Door!Next

\* A host session admits nobody for less than the binding of its edit, except to
\* answer what was published already, and that changes nothing (_authorize_host,
\* _authorize_published_host).
THEOREM SessionsHold == Door!HostSpec => SessionsAreGoodFor
<1>1. DoorInv => Door!AuthorityIsTrue /\ Door!RecoveryIsAnswered
  BY DoorIsTrue
<1>2. DoorInv /\ [Door!Next]_(Door!vars) => [Door!FallbackOnlyReplays]_(Door!vars)
  BY FallbackReplays
<1> QED  BY <1>1, <1>2, DoorInvariance, PTL DEF Door!HostSpec, SessionsAreGoodFor
=============================================================================
