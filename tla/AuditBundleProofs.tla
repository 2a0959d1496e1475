-------------------------- MODULE AuditBundleProofs --------------------------
(***************************************************************************)
(* Machine-checked proofs about the prepared audit bundles, for any sheets,*)
(* processes, models and retrievers, and any number of commands, faults,   *)
(* deaths and conversions.                                                 *)
(*                                                                         *)
(* The argument.  Only the holder of the lock changes the files, the index *)
(* and the package, so what it established at the lock is true until it    *)
(* lets go.  The index is right about the documents it names, whatever the *)
(* files are (RowOK): what is reused because the index vouches for it is   *)
(* what the command asked for.  A marker, wherever it is, was committed    *)
(* (Vouched): who reads files that fit a marker reads a committed bundle.  *)
(***************************************************************************)
EXTENDS AuditBundleProperties, AuditAggregateProperties, TLAPS

Files == [facts : FactsDoc \cup {None}, context : ContextDoc \cup {None},
          brief : BriefDoc \cup {None}, skill : BriefDoc \cup {None},
          marker : Marker \cup {None}]

Row == [facts : FactsDoc, context : ContextDoc, brief : BriefDoc,
        factsRecipe : (Model \X Nat) \cup {None},
        standardsRecipe : (FactsDoc \X Retriever) \cup {None},
        briefRecipe : (FactsDoc \X ContextDoc \X Model) \cup {None}]

\* Where a command is while it holds the lock, and where it is not.
Inside == {"prepare", "review", "convert", "hit", "make", "publish", "restore", "mirror"}
Outside == {"idle", "probe", "connect", "lock", "read", "validate", "loaded"}

OpState ==
  [kind : {"prepare", "review", "load", "convert", None}, pc : Inside \cup Outside,
   scope : Scope \cup {None}, model : Model \cup {None},
   retriever : Retriever \cup {None}, live : BOOLEAN, force : BOOLEAN,
   verdict : {"approved", "rejected", None}, id : Nat, at : 1 .. 6,
   new : Files, old : Files]

Types ==
  /\ files \in [Scope -> Files]
  /\ input \in 0 .. MaxInputs
  /\ index \in [Scope -> Row \cup {None}]
  /\ op \in [Process -> OpState]
  /\ ops \in Nat /\ crashes \in Nat

\* A recipe of the index made the document that the index names.
RowOK(r) ==
  /\ r.factsRecipe \in {None, <<r.facts.model, r.facts.input>>}
  /\ r.standardsRecipe \in {None, <<r.context.of, r.context.retriever>>}
  /\ r.briefRecipe \in {None, <<r.brief.of, r.brief.with, r.brief.model>>}

Rows == \A s \in Scope : index[s] # None => RowOK(index[s])

\* What a marker names was committed.
Vouched(m) ==
  m # None => \E b \in committed : /\ b.facts = m.facts /\ b.context = m.context
                                   /\ b.brief = m.brief

\* Facts are of this conversion of the package or of an earlier one.
Past(b) == b.facts # None => b.facts.input <= input

FilesOK == \A s \in Scope : Vouched(files[s].marker) /\ Past(files[s])

\* The stages of a command, by the point it has reached.
KindOK(o) ==
  /\ o.pc \in {"prepare", "make", "hit", "probe", "connect"} => o.kind = "prepare"
  /\ o.pc = "review" => o.kind = "review"
  /\ o.pc = "convert" => o.kind = "convert"
  /\ o.pc \in {"read", "validate", "loaded"} => o.kind = "load"
  /\ o.pc \in {"publish", "restore", "mirror"} => o.kind \in {"prepare", "review"}
  /\ o.pc = "lock" => o.kind \in {"prepare", "review", "convert"}
  /\ o.pc # "idle" /\ o.kind # "convert" => o.scope \in Scope
  /\ o.pc # "idle" /\ o.kind = "prepare" => o.model \in Model
  /\ o.pc \in Inside \cup {"lock"} /\ o.kind = "prepare" => o.retriever \in Retriever
  /\ o.pc # "idle" /\ o.kind = "review" => o.verdict \in {"approved", "rejected"}
  /\ o.pc \in {"publish", "restore"} => o.at \in 1 .. 5
  /\ o.pc = "read" => o.at \in 1 .. 4

\* A bundle is what command o asked for, of the package as it is.
Fits(o, b) ==
  /\ b.facts.model = o.model /\ b.facts.input = input
  /\ b.context.retriever = o.retriever
  /\ b.brief.model = o.model

\* A verdict on the brief is one on the facts.
Together(b) == b.brief.review.status # "draft" => b.facts.review = b.brief.review

\* What a writer is about to put in place.
NewOK(o) ==
  /\ Loadable(o.scope, o.new) /\ Together(o.new) /\ Past(o.new)
  /\ o.kind = "prepare" => Fits(o, o.new)
  /\ o.kind = "review" =>
       /\ o.old.facts # None
       /\ o.new.facts.model = o.old.facts.model /\ o.new.facts.input = o.old.facts.input

Gone(s, b) == b = NoFiles \/ Loadable(s, b)

OldOK(o) ==
  /\ Vouched(o.old.marker) /\ Past(o.old)
  /\ crashes = 0 => Gone(o.scope, o.old)

Name == {"facts", "context", "brief", "skill", "marker"}

\* The files before the one it is at are those of bundle b.
Done(o, b) == \A i \in 1 .. 5 : i < o.at => files[o.scope][Order[i]] = b[Order[i]]

CommandOK(o) ==
  /\ KindOK(o)
  /\ o.pc \in {"publish", "mirror"} => NewOK(o) /\ OldOK(o) /\ Done(o, o.new)
  /\ o.pc = "mirror" => o.at = 6
  /\ o.pc = "restore" => OldOK(o) /\ Done(o, o.old)
  /\ o.pc = "hit" => Whole(o.scope) /\ Fits(o, files[o.scope])
  /\ o.pc \in {"read", "validate"} => Vouched(o.new.marker)
  /\ o.pc = "loaded" => \E b \in committed : \A name \in {"facts", "context", "brief"} :
                                               b[name] = o.new[name]

Locking == \A p \in Process : lock = p <=> op[p].pc \in Inside
Commands == \A p \in Process : CommandOK(op[p])

\* Without deaths, a scope is whole or somebody is at work on it.
AtWork(s) == \E p \in Process : op[p].pc \in {"publish", "restore"} /\ op[p].scope = s
Tidy == crashes = 0 => \A s \in Scope : Gone(s, files[s]) \/ AtWork(s)

\* The invariant.
Inv ==
  /\ Types /\ Rows /\ FilesOK /\ Locking /\ Commands /\ Tidy
  /\ \A b \in committed : Together(b)

-----------------------------------------------------------------------------
(* Records.                                                                 *)

LEMMA NoFilesType == NoFiles \in Files
BY DEF NoFiles, Files

LEMMA NoOpType ==
  /\ NoOp \in OpState /\ NoOp.pc = "idle" /\ CommandOK(NoOp)
<1>1. NoOp \in OpState /\ NoOp.pc = "idle"
  BY NoFilesType DEF NoOp, OpState, Inside, Outside
<1>2. CommandOK(NoOp)
  BY <1>1 DEF CommandOK, KindOK, Inside
<1> QED
  BY <1>1, <1>2

\* A command that goes to another point keeps everything else.
LEMMA GoFacts ==
  ASSUME Types, NEW p \in Process, NEW pc \in Inside \cup Outside, Go(p, pc)
  PROVE  /\ op' \in [Process -> OpState]
         /\ op'[p] = [op[p] EXCEPT !.pc = pc]
         /\ op'[p] \in OpState
         /\ op'[p].pc = pc /\ op'[p].kind = op[p].kind /\ op'[p].scope = op[p].scope
         /\ op'[p].model = op[p].model /\ op'[p].retriever = op[p].retriever
         /\ op'[p].verdict = op[p].verdict /\ op'[p].at = op[p].at
         /\ op'[p].new = op[p].new /\ op'[p].old = op[p].old
         /\ \A q \in Process : q # p => op'[q] = op[q]
<1>1. op' = [op EXCEPT ![p] = [op[p] EXCEPT !.pc = pc]] /\ op \in [Process -> OpState]
  BY DEF Go, Types
<1>2. PICK x : x = [op[p] EXCEPT !.pc = pc]
  OBVIOUS
<1>3. op[p] \in OpState
  BY <1>1
<1>4. /\ x \in OpState
      /\ x.pc = pc /\ x.kind = op[p].kind /\ x.scope = op[p].scope
      /\ x.model = op[p].model /\ x.retriever = op[p].retriever
      /\ x.verdict = op[p].verdict /\ x.at = op[p].at
      /\ x.new = op[p].new /\ x.old = op[p].old
  BY <1>2, <1>3 DEF OpState
<1>5. op' = [op EXCEPT ![p] = x]
  BY <1>1, <1>2
<1> QED
  BY <1>1, <1>2, <1>4, <1>5

\* The five files of a bundle, one by one.
With(c, n, b) == [c EXCEPT ![n] = b[n]]

LEMMA PutOne ==
  ASSUME NEW c \in Files, NEW b \in Files, NEW n \in Name
  PROVE  /\ With(c, n, b) \in Files
         /\ With(c, n, b)[n] = b[n]
         /\ \A m \in Name : m # n => With(c, n, b)[m] = c[m]
<1>1. CASE n = "facts"
  BY <1>1 DEF With, Files, Name
<1>2. CASE n = "context"
  BY <1>2 DEF With, Files, Name
<1>3. CASE n = "brief"
  BY <1>3 DEF With, Files, Name
<1>4. CASE n = "skill"
  BY <1>4 DEF With, Files, Name
<1>5. CASE n = "marker"
  BY <1>5 DEF With, Files, Name
<1> QED
  BY <1>1, <1>2, <1>3, <1>4, <1>5 DEF Name

LEMMA Put ==
  ASSUME NEW f \in [Scope -> Files], NEW s \in Scope, NEW b \in Files, NEW n \in Name,
         NEW g, g = [f EXCEPT ![s][n] = b[n]]
  PROVE  /\ g \in [Scope -> Files]
         /\ g[s][n] = b[n]
         /\ \A m \in Name : m # n => g[s][m] = f[s][m]
         /\ \A t \in Scope : t # s => g[t] = f[t]
<1>1. PICK x : x = [f[s] EXCEPT ![n] = b[n]]
  OBVIOUS
<1>2. PICK c \in Files : c = f[s]
  OBVIOUS
<1>3. x \in Files /\ x[n] = b[n] /\ \A m \in Name : m # n => x[m] = c[m]
  <2>1. x = With(c, n, b)
    BY <1>1, <1>2 DEF With
  <2> QED
    BY <2>1, PutOne
<1>4. g = [f EXCEPT ![s] = x]
  BY <1>1
<1> QED
  BY <1>2, <1>3, <1>4

\* Two bundles with the same five files are the same.
LEMMA SameFiles ==
  ASSUME NEW a \in Files, NEW b \in Files, \A n \in Name : a[n] = b[n]
  PROVE  a = b
BY DEF Files, Name

LEMMA OrderFacts ==
  /\ \A i \in 1 .. 5 : Order[i] \in Name
  /\ \A n \in Name : \E i \in 1 .. 5 : Order[i] = n
  /\ \A i, j \in 1 .. 5 : Order[i] = Order[j] => i = j
  /\ \A i \in 1 .. 5 : Order[i] = "marker" <=> i = 5
  /\ Len(Order) = 5
BY DEF Order, Name
-----------------------------------------------------------------------------
(* What a step may leave alone.                                             *)

\* What is about to be put in place, and what was there before, do not depend on
\* the files.
LEMMA NewStays ==
  ASSUME NEW o, NewOK(o), UNCHANGED input
  PROVE  NewOK(o)'
BY DEF NewOK, Loadable, MarkerOf, Inputs, Past, Fits

LEMMA VouchedStays ==
  ASSUME NEW m, Vouched(m), committed \subseteq committed'
  PROVE  Vouched(m)'
BY DEF Vouched

LEMMA OldStays ==
  ASSUME NEW o, OldOK(o), UNCHANGED input, committed \subseteq committed',
         crashes' = 0 => crashes = 0
  PROVE  OldOK(o)'
<1>1. Vouched(o.old.marker)'
  BY VouchedStays DEF OldOK
<1>2. Past(o.old)'
  BY DEF OldOK, Past
<1>3. crashes' = 0 => Gone(o.scope, o.old)'
  BY DEF OldOK, Gone, Loadable, MarkerOf, Inputs
<1> QED
  BY <1>1, <1>2, <1>3 DEF OldOK

\* The facts about a command stay true when others commit and die, and nothing
\* is changed behind the back of who holds the lock.
LEMMA StillOK ==
  ASSUME NEW o \in OpState, CommandOK(o), committed \subseteq committed',
         crashes \in Nat, crashes' \in Nat, crashes <= crashes',
         o.pc \in Inside => UNCHANGED <<files, input>>
  PROVE  CommandOK(o)'
<1>1. o.pc \in {"publish", "mirror", "restore", "hit"} => UNCHANGED <<files, input>>
  BY DEF Inside
<1>2. crashes' = 0 => crashes = 0
  OBVIOUS
<1>3. ASSUME UNCHANGED <<files, input>>, NEW b, Done(o, b) PROVE Done(o, b)'
  BY <1>3 DEF Done
<1>4. ASSUME UNCHANGED <<files, input>>, Whole(o.scope), Fits(o, files[o.scope])
      PROVE  Whole(o.scope)' /\ Fits(o, files[o.scope])'
  BY <1>4 DEF Whole, Loadable, MarkerOf, Inputs, Fits
<1>5. o.pc \in {"publish", "mirror"} => NewOK(o)' /\ OldOK(o)' /\ Done(o, o.new)'
  BY <1>1, <1>2, <1>3, NewStays, OldStays DEF CommandOK
<1>6. o.pc = "restore" => OldOK(o)' /\ Done(o, o.old)'
  BY <1>1, <1>2, <1>3, OldStays DEF CommandOK
<1>7. o.pc = "hit" => Whole(o.scope)' /\ Fits(o, files[o.scope])'
  BY <1>1, <1>4 DEF CommandOK
<1>8. o.pc \in {"read", "validate"} => Vouched(o.new.marker)'
  BY VouchedStays DEF CommandOK
<1>9. /\ KindOK(o) /\ (o.pc = "mirror" => o.at = 6)
       /\ o.pc = "loaded" => \E b \in committed' : \A name \in {"facts", "context", "brief"} :
                                                    b[name] = o.new[name]
  BY DEF CommandOK
<1> QED
  BY <1>5, <1>6, <1>7, <1>8, <1>9 DEF CommandOK, KindOK

LEMMA CommandAt ==
  ASSUME NEW o, NEW q, op'[q] = o, CommandOK(o)'
  PROVE  CommandOK(op[q])'
BY DEF CommandOK, KindOK, NewOK, OldOK, Done, Fits, Whole, Loadable, MarkerOf, Inputs, Past,
       Vouched, Gone

LEMMA Numbers == MaxInputs \in Nat /\ MaxCrashes \in Nat
BY BundleAssumption

\* One step of one command: what is left to show of it.
LEMMA Assemble ==
  ASSUME Inv, NEW p \in Process, NEW o \in OpState, op' = [op EXCEPT ![p] = o], CommandOK(o)',
         committed \subseteq committed', crashes' \in Nat, crashes <= crashes', ops' \in Nat,
         op[p].pc \in Inside \/ UNCHANGED <<files, input>>,
         lock' = lock \/ (lock \in {None, p} /\ lock' \in {None, p}),
         lock' = p <=> o.pc \in Inside,
         files' \in [Scope -> Files], input' \in 0 .. MaxInputs, index' \in [Scope -> Row \cup {None}],
         Rows', FilesOK', Tidy', \A b \in committed' : Together(b)
  PROVE  Inv'
<1>1. op \in [Process -> OpState] /\ crashes \in Nat
  BY DEF Inv, Types
<1>2. /\ op' \in [Process -> OpState] /\ op'[p] = o
      /\ \A q \in Process : q # p => op'[q] = op[q]
  BY <1>1
<1>3. Types'
  BY <1>1, <1>2 DEF Inv, Types
<1>4. Locking'
  <2>1. ASSUME NEW q \in Process PROVE lock' = q <=> op'[q].pc \in Inside
    <3>1. CASE q = p
      BY <1>2, <3>1
    <3>2. CASE q # p
      <4>1. lock = q <=> op[q].pc \in Inside
        BY DEF Inv, Locking
      <4>2. lock' = q <=> lock = q
        BY <3>2, NoneAssumption
      <4> QED
        BY <1>2, <3>2, <4>1, <4>2
    <3> QED
      BY <3>1, <3>2
  <2> QED
    BY <2>1 DEF Locking
<1>5. Commands'
  <2>1. ASSUME NEW q \in Process PROVE CommandOK(op[q])'
    <3>1. CASE q = p
      BY <1>2, <3>1, CommandAt
    <3>2. CASE q # p
      <4>1. PICK x \in OpState : x = op[q]
        BY <1>1
      <4>2. CommandOK(x)
        BY <4>1 DEF Inv, Commands
      <4>3. x.pc \in Inside => op[p].pc \notin Inside
        BY <3>2, <4>1 DEF Inv, Locking
      <4>4. CommandOK(x)'
        BY <1>1, <4>2, <4>3, StillOK
      <4>5. op'[q] = x
        BY <1>2, <3>2, <4>1
      <4> QED
        BY <4>4, <4>5, CommandAt
    <3> QED
      BY <3>1, <3>2
  <2> QED
    BY <2>1 DEF Commands
<1>6. \A b \in committed' : Together(b)'
  BY DEF Together
<1> QED
  BY <1>3, <1>4, <1>5, <1>6 DEF Inv

\* A step that leaves the files, the index and the package alone.
LEMMA Quiet ==
  ASSUME Inv, NEW p \in Process, NEW o \in OpState, op' = [op EXCEPT ![p] = o], CommandOK(o),
         UNCHANGED <<files, input, index, committed>>, crashes' \in Nat, crashes <= crashes',
         ops' \in Nat,
         crashes' = 0 /\ op[p].pc \in {"publish", "restore"} =>
           o.pc \in {"publish", "restore"} /\ o.scope = op[p].scope,
         lock' = lock \/ (lock \in {None, p} /\ lock' \in {None, p}),
         lock' = p <=> o.pc \in Inside
  PROVE  Inv'
<1>1. /\ files' \in [Scope -> Files] /\ input' \in 0 .. MaxInputs
      /\ index' \in [Scope -> Row \cup {None}] /\ crashes \in Nat
      /\ op \in [Process -> OpState]
  BY DEF Inv, Types
<1>2. Rows' /\ FilesOK' /\ \A b \in committed' : Together(b)
  BY DEF Inv, Rows, RowOK, FilesOK, Vouched, Past
<1>3. Tidy'
  <2> SUFFICES ASSUME crashes' = 0, NEW s \in Scope PROVE (Gone(s, files[s]) \/ AtWork(s))'
    BY DEF Tidy
  <2>1. crashes = 0
    BY <1>1
  <2>2. Gone(s, files[s]) => Gone(s, files[s])'
    BY DEF Gone, Loadable, MarkerOf, Inputs
  <2>3. ASSUME AtWork(s) PROVE AtWork(s)'
    <3>1. PICK q \in Process : op[q].pc \in {"publish", "restore"} /\ op[q].scope = s
      BY <2>3 DEF AtWork
    <3>2. op'[q].pc \in {"publish", "restore"} /\ op'[q].scope = s
      <4>1. CASE q = p
        BY <1>1, <3>1, <4>1
      <4>2. CASE q # p
        BY <1>1, <3>1, <4>2
      <4> QED
        BY <4>1, <4>2
    <3> QED
      BY <3>2 DEF AtWork
  <2> QED
    BY <2>1, <2>2, <2>3 DEF Inv, Tidy
<1>4. CommandOK(o)'
  BY <1>1, StillOK
<1> QED
  BY <1>1, <1>2, <1>3, <1>4, Assemble

LEMMA LeaveFacts ==
  ASSUME Inv, NEW p \in Process, Leave(p)
  PROVE  /\ lock' = lock \/ (lock \in {None, p} /\ lock' \in {None, p})
         /\ lock' # p
BY NoneAssumption DEF Leave, Inv, Types

\* A command that ends and leaves everything as it is.
LEMMA EndKeeps ==
  ASSUME Inv, NEW p \in Process, End(p), UNCHANGED <<files, input, index, committed, ops>>,
         crashes' \in Nat, crashes <= crashes',
         op[p].pc \in {"publish", "restore"} => crashes' # 0
  PROVE  Inv'
<1>1. /\ op' = [op EXCEPT ![p] = NoOp] /\ NoOp \in OpState /\ CommandOK(NoOp)
      /\ NoOp.pc \notin Inside
      /\ lock' = lock \/ (lock \in {None, p} /\ lock' \in {None, p})
      /\ lock' # p /\ ops' \in Nat
  BY LeaveFacts, NoOpType DEF End, Inside, Inv, Types
<1> QED
  BY <1>1, Quiet

-----------------------------------------------------------------------------
(* Commands without effect on the package.                                  *)

LEMMA CommandFacts ==
  ASSUME Inv, NEW p \in Process
  PROVE  /\ op[p] \in OpState /\ CommandOK(op[p]) /\ KindOK(op[p])
         /\ lock = p <=> op[p].pc \in Inside
         /\ op \in [Process -> OpState] /\ ops \in Nat /\ crashes \in Nat
         /\ files \in [Scope -> Files] /\ input \in 0 .. MaxInputs /\ input \in Nat
BY Numbers DEF Inv, Types, Commands, CommandOK, Locking

\* A step of a command that leaves everything else as it is.
LEMMA Alone ==
  ASSUME Inv, NEW p \in Process, NEW o \in OpState, op' = [op EXCEPT ![p] = o], CommandOK(o),
         UNCHANGED <<files, input, index, lock, committed, crashes>>, ops' \in Nat,
         op[p].pc \notin {"publish", "restore"}, o.pc \in Inside <=> op[p].pc \in Inside
  PROVE  Inv'
<1>1. crashes' \in Nat /\ crashes <= crashes'
  BY CommandFacts
<1>2. lock' = p <=> o.pc \in Inside
  BY CommandFacts
<1> QED
  BY <1>1, <1>2, Quiet

\* From one point outside the lock to another.
LEMMA BeginKeeps ==
  ASSUME Inv, NEW p \in Process, NEW o \in OpState, o.pc \in {"probe", "lock", "read"},
         KindOK(o), o.new = NoFiles, Begin(p, o)
  PROVE  Inv'
<1>1. PICK x : x = [o EXCEPT !.id = ops + 1]
  OBVIOUS
<1>2. /\ x \in OpState /\ x.pc = o.pc /\ x.kind = o.kind /\ x.scope = o.scope
      /\ x.model = o.model /\ x.retriever = o.retriever /\ x.verdict = o.verdict
      /\ x.at = o.at /\ x.new = NoFiles
  BY <1>1, CommandFacts DEF OpState
<1>3. KindOK(x)
  BY <1>2 DEF KindOK
<1>4. CommandOK(x)
  BY <1>2, <1>3 DEF CommandOK, Vouched, NoFiles
<1>5. /\ op[p].pc = "idle" /\ op' = [op EXCEPT ![p] = x] /\ ops' \in Nat
      /\ UNCHANGED <<files, input, index, committed, lock, crashes>>
  BY <1>1, CommandFacts DEF Begin
<1>6. op[p].pc \notin Inside /\ x.pc \notin Inside
  BY <1>2, <1>5 DEF Inside
<1> QED
  BY <1>2, <1>4, <1>5, <1>6, Alone

LEMMA BeginsKeep ==
  ASSUME Inv, NEW p \in Process, Writers(p, Scope) \/ Readers(p)
  PROVE  Inv'
<1>1. NoOp \in OpState
  BY NoOpType
<1>2. ASSUME NEW s \in Scope, NEW m \in Model, NEW force \in BOOLEAN, BeginPrepare(p, s, m, force)
      PROVE  Inv'
  <2>1. PICK o : o = [NoOp EXCEPT !.kind = "prepare", !.pc = "probe", !.scope = s, !.model = m,
                                  !.force = force]
    OBVIOUS
  <2>2. /\ o \in OpState /\ o.pc = "probe" /\ o.kind = "prepare" /\ o.scope = s /\ o.model = m
        /\ o.new = NoFiles
    BY <1>1, <2>1 DEF NoOp, OpState, Inside, Outside
  <2>3. KindOK(o)
    BY <2>2 DEF KindOK, Inside
  <2> QED
    BY <1>2, <2>1, <2>2, <2>3, BeginKeeps DEF BeginPrepare
<1>3. ASSUME NEW s \in Scope, NEW verdict \in {"approved", "rejected"}, BeginReview(p, s, verdict)
      PROVE  Inv'
  <2>1. PICK o : o = [NoOp EXCEPT !.kind = "review", !.pc = "lock", !.scope = s,
                                  !.verdict = verdict]
    OBVIOUS
  <2>2. /\ o \in OpState /\ o.pc = "lock" /\ o.kind = "review" /\ o.scope = s
        /\ o.verdict = verdict /\ o.new = NoFiles
    BY <1>1, <2>1 DEF NoOp, OpState, Inside, Outside
  <2>3. KindOK(o)
    BY <2>2 DEF KindOK, Inside
  <2> QED
    BY <1>3, <2>1, <2>2, <2>3, BeginKeeps DEF BeginReview
<1>4. ASSUME BeginConvert(p) PROVE Inv'
  <2>1. PICK o : o = [NoOp EXCEPT !.kind = "convert", !.pc = "lock"]
    OBVIOUS
  <2>2. o \in OpState /\ o.pc = "lock" /\ o.kind = "convert" /\ o.new = NoFiles
    BY <1>1, <2>1 DEF NoOp, OpState, Inside, Outside
  <2>3. KindOK(o)
    BY <2>2 DEF KindOK, Inside
  <2> QED
    BY <1>4, <2>1, <2>2, <2>3, BeginKeeps DEF BeginConvert
<1>5. ASSUME NEW s \in Scope, BeginLoad(p, s) PROVE Inv'
  <2>1. PICK o : o = [NoOp EXCEPT !.kind = "load", !.pc = "read", !.scope = s]
    OBVIOUS
  <2>2. /\ o \in OpState /\ o.pc = "read" /\ o.kind = "load" /\ o.scope = s /\ o.at = 1
        /\ o.new = NoFiles
    BY <1>1, <2>1 DEF NoOp, OpState, Inside, Outside
  <2>3. KindOK(o)
    BY <2>2 DEF KindOK, Inside
  <2> QED
    BY <1>5, <2>1, <2>2, <2>3, BeginKeeps DEF BeginLoad
<1> QED
  BY <1>2, <1>3, <1>4, <1>5 DEF Writers, Readers

\* The point a command goes to asks nothing that was not shown.
LEMMA GoQuiet ==
  ASSUME Inv, NEW p \in Process, NEW pc \in Inside \cup Outside, Go(p, pc),
         UNCHANGED <<files, input, index, committed, bounds>>,
         op[p].pc \notin {"publish", "restore"},
         \A o \in OpState : o = [op[p] EXCEPT !.pc = pc] => CommandOK(o),
         lock' = lock \/ (lock \in {None, p} /\ lock' \in {None, p}),
         lock' = p <=> pc \in Inside
  PROVE  Inv'
<1>1. PICK o : o = [op[p] EXCEPT !.pc = pc]
  OBVIOUS
<1>2. o \in OpState /\ o.pc = pc
  BY <1>1, CommandFacts DEF OpState
<1>3. op' = [op EXCEPT ![p] = o]
  BY <1>1 DEF Go
<1>4. crashes' \in Nat /\ crashes <= crashes' /\ ops' \in Nat
  BY CommandFacts DEF bounds
<1> QED
  BY <1>1, <1>2, <1>3, <1>4, Quiet

LEMMA ProbeKeeps ==
  ASSUME Inv, NEW p \in Process, Probe(p)
  PROVE  Inv'
<1>1. /\ op[p].pc = "probe" /\ op[p].kind = "prepare" /\ op[p].scope \in Scope
      /\ op[p].model \in Model /\ lock # p
      /\ UNCHANGED <<files, input, index, lock, committed, bounds>>
  BY CommandFacts DEF Probe, KindOK, Inside
<1>2. CASE Go(p, "connect")
  <2>1. ASSUME NEW o \in OpState, o = [op[p] EXCEPT !.pc = "connect"] PROVE CommandOK(o)
    <3>1. o.pc = "connect" /\ o.kind = "prepare" /\ o.scope \in Scope /\ o.model \in Model
      BY <1>1, <2>1, CommandFacts DEF OpState
    <3> QED
      BY <3>1 DEF CommandOK, KindOK, Inside
  <2> QED
    BY <1>1, <1>2, <2>1, GoQuiet DEF Inside, Outside
<1>3. CASE /\ files[op[p].scope].context # None
           /\ op' = [op EXCEPT ![p].retriever = files[op[p].scope].context.retriever,
                               ![p].pc = "lock"]
  <2>1. PICK r : r = files[op[p].scope].context.retriever
    OBVIOUS
  <2>2. r \in Retriever
    BY <1>1, <1>3, <2>1, CommandFacts DEF Files, ContextDoc
  <2>3. PICK o : o = [op[p] EXCEPT !.retriever = r, !.pc = "lock"]
    OBVIOUS
  <2>4. /\ o \in OpState /\ o.pc = "lock" /\ o.kind = "prepare" /\ o.scope \in Scope
        /\ o.model \in Model /\ o.retriever \in Retriever
    <3>1. PICK w \in OpState : w = op[p]
      BY CommandFacts
    <3>2. o = [w EXCEPT !.retriever = r, !.pc = "lock"] /\ "lock" \in Outside
      BY <2>3, <3>1 DEF Outside
    <3>3. o \in OpState
      BY <2>2, <3>2 DEF OpState
    <3>4. /\ o.pc = "lock" /\ o.kind = w.kind /\ o.scope = w.scope /\ o.model = w.model
          /\ o.retriever = r
      BY <3>2 DEF OpState
    <3> QED
      BY <1>1, <2>2, <3>1, <3>3, <3>4
  <2>5. CommandOK(o)
    BY <2>4 DEF CommandOK, KindOK, Inside
  <2>6. op' = [op EXCEPT ![p] = o]
    BY <1>3, <2>1, <2>3, CommandFacts
  <2>7. o.pc \notin Inside /\ op[p].pc \notin Inside
    BY <1>1, <2>4 DEF Inside
  <2>8. ops' \in Nat /\ UNCHANGED crashes
    BY <1>1, CommandFacts, SMTT(30) DEF bounds
  <2> QED
    BY <1>1, <2>4, <2>5, <2>6, <2>7, <2>8, Alone
<1> QED
  BY <1>2, <1>3 DEF Probe

LEMMA ConnectKeeps ==
  ASSUME Inv, NEW p \in Process, Connect(p)
  PROVE  Inv'
<1>1. /\ op[p].pc = "connect" /\ op[p].kind = "prepare" /\ op[p].scope \in Scope
      /\ op[p].model \in Model /\ lock # p
      /\ UNCHANGED <<files, input, index, committed, bounds>>
  BY CommandFacts DEF Connect, KindOK, Inside
<1>2. ASSUME NEW r \in Retriever,
             op' = [op EXCEPT ![p].retriever = r, ![p].live = TRUE, ![p].pc = "lock"],
             UNCHANGED lock
      PROVE  Inv'
  <2>1. PICK o : o = [op[p] EXCEPT !.retriever = r, !.live = TRUE, !.pc = "lock"]
    OBVIOUS
  <2>2. /\ o \in OpState /\ o.pc = "lock" /\ o.kind = "prepare" /\ o.scope \in Scope
        /\ o.model \in Model /\ o.retriever \in Retriever
    <3>1. PICK w \in OpState : w = op[p]
      BY CommandFacts
    <3>2. o = [w EXCEPT !.retriever = r, !.live = TRUE, !.pc = "lock"] /\ "lock" \in Outside
      BY <2>1, <3>1 DEF Outside
    <3>3. o \in OpState
      BY <3>2 DEF OpState
    <3>4. /\ o.pc = "lock" /\ o.kind = w.kind /\ o.scope = w.scope /\ o.model = w.model
          /\ o.retriever = r
      BY <3>2 DEF OpState
    <3> QED
      BY <1>1, <3>1, <3>3, <3>4
  <2>3. CommandOK(o)
    BY <2>2 DEF CommandOK, KindOK, Inside
  <2>4. op' = [op EXCEPT ![p] = o]
    BY <1>2, <2>1, CommandFacts
  <2>5. o.pc \notin Inside /\ op[p].pc \notin Inside
    BY <1>1, <2>2 DEF Inside
  <2>6. ops' \in Nat /\ UNCHANGED crashes
    BY <1>1, CommandFacts DEF bounds
  <2> QED
    BY <1>1, <1>2, <2>2, <2>3, <2>4, <2>5, <2>6, Alone
<1>3. CASE End(p)
  BY <1>1, <1>3, CommandFacts, EndKeeps DEF bounds
<1> QED
  BY <1>2, <1>3 DEF Connect

LEMMA LockKeeps ==
  ASSUME Inv, NEW p \in Process, Lock(p)
  PROVE  Inv'
<1>1. /\ op[p].pc = "lock" /\ lock = None /\ lock' = p /\ Go(p, op[p].kind)
      /\ op[p].kind \in {"prepare", "review", "convert"}
      /\ UNCHANGED <<files, input, index, committed, bounds>>
  BY CommandFacts DEF Lock, KindOK
<1>2. PICK pc : pc = op[p].kind
  OBVIOUS
<1>3. ASSUME NEW o \in OpState, o = [op[p] EXCEPT !.pc = pc] PROVE CommandOK(o)
  <2>1. /\ o.pc = pc /\ o.kind = pc /\ o.scope = op[p].scope /\ o.model = op[p].model
        /\ o.retriever = op[p].retriever /\ o.verdict = op[p].verdict
    BY <1>2, <1>3, CommandFacts DEF OpState
  <2> QED
    BY <1>1, <1>2, <2>1, CommandFacts DEF CommandOK, KindOK, Inside
<1>4. pc \in Inside /\ Go(p, pc)
  BY <1>1, <1>2 DEF Inside
<1> QED
  BY <1>1, <1>3, <1>4, GoQuiet

LEMMA ReturnKeeps ==
  ASSUME Inv, NEW p \in Process, Return(p)
  PROVE  Inv'
BY CommandFacts, EndKeeps DEF Return, bounds

LEMMA CrashKeeps ==
  ASSUME Inv, NEW p \in Process, Crash(p)
  PROVE  Inv'
BY CommandFacts, EndKeeps DEF Crash
-----------------------------------------------------------------------------
(* What a preparation finds and makes.                                      *)

\* What the index vouches for is what the command asks for.
LEMMA Reused ==
  ASSUME Inv, NEW p \in Process, op[p].pc \in {"prepare", "make"}
  PROVE  LET s == op[p].scope
             b == files[s]
         IN  /\ ReuseFacts(p) => /\ b.facts \in FactsDoc /\ b.facts.model = op[p].model
                                 /\ b.facts.input = input
             /\ ReuseContext(p) => /\ ReuseFacts(p)
                                   /\ b.context \in ContextDoc /\ b.context.of = b.facts
                                   /\ b.context.retriever = op[p].retriever
             /\ ReuseBrief(p) => /\ ReuseContext(p) /\ Whole(s)
                                 /\ b.brief.model = op[p].model
<1> DEFINE s == op[p].scope
           b == files[s]
           r == index[s]
<1>1. s \in Scope /\ op[p].model \in Model /\ op[p].retriever \in Retriever /\ input \in Nat
  BY CommandFacts DEF KindOK, Inside
<1>2. b \in Files
  BY <1>1, CommandFacts
<1>3. ASSUME ReuseFacts(p)
      PROVE  /\ b.facts \in FactsDoc /\ b.context \in ContextDoc /\ b.context.of = b.facts
             /\ r \in Row /\ RowOK(r) /\ r.facts = b.facts
             /\ b.facts.model = op[p].model /\ b.facts.input = input
  <2>1. CachedUpstream(s) /\ r # None /\ r.facts = b.facts /\ r.factsRecipe = <<op[p].model, input>>
    BY <1>3 DEF ReuseFacts, FactsRecipe
  <2>2. b.facts \in FactsDoc /\ b.context \in ContextDoc /\ b.context.of = b.facts
    BY <1>2, <2>1 DEF CachedUpstream, UpstreamValid, Files
  <2>3. r \in Row /\ RowOK(r)
    BY <1>1, <2>1 DEF Inv, Types, Rows
  <2>4. <<op[p].model, input>> # None
    BY <1>1, NoneAssumption
  <2>5. <<op[p].model, input>> = <<b.facts.model, b.facts.input>>
    BY <2>1, <2>3, <2>4 DEF RowOK
  <2> QED
    BY <2>1, <2>2, <2>3, <2>5
<1>4. ASSUME ReuseContext(p)
      PROVE  ReuseFacts(p) /\ r.context = b.context /\ b.context.retriever = op[p].retriever
  <2>1. /\ ReuseFacts(p) /\ r.context = b.context
        /\ r.standardsRecipe = <<b.facts, op[p].retriever>>
    BY <1>4 DEF ReuseContext, StandardsRecipe
  <2>2. <<b.facts, op[p].retriever>> # None
    BY <1>1, <1>3, <2>1, NoneAssumption
  <2>3. <<b.facts, op[p].retriever>> = <<b.context.of, b.context.retriever>>
    BY <1>3, <2>1, <2>2 DEF RowOK
  <2> QED
    BY <2>1, <2>3
<1>5. ASSUME ReuseBrief(p)
      PROVE  ReuseContext(p) /\ Whole(s) /\ b.brief.model = op[p].model
  <2>1. /\ ReuseContext(p) /\ Whole(s) /\ r.brief = b.brief
        /\ r.briefRecipe = <<b.facts, b.context, op[p].model>>
    BY <1>5 DEF ReuseBrief, BriefRecipe
  <2>2. <<b.facts, b.context, op[p].model>> # None
    BY <1>1, <1>3, <1>4, <2>1, NoneAssumption
  <2>3. <<b.facts, b.context, op[p].model>> = <<b.brief.of, b.brief.with, b.brief.model>>
    BY <1>3, <1>4, <2>1, <2>2 DEF RowOK
  <2> QED
    BY <2>1, <2>3
<1> QED
  BY <1>3, <1>4, <1>5

\* A bundle that is whole has all its documents.
LEMMA LoadableFacts ==
  ASSUME NEW s \in Scope, NEW b \in Files, Loadable(s, b), input \in Nat
  PROVE  /\ b.facts \in FactsDoc /\ b.context \in ContextDoc /\ b.brief \in BriefDoc
         /\ b.context.of = b.facts /\ b.brief.of = b.facts /\ b.brief.with = b.context
         /\ b.marker # None /\ b.marker.facts = b.facts /\ b.marker.context = b.context
         /\ b.marker.brief = b.brief
<1>1. /\ b.facts \in FactsDoc /\ b.context \in ContextDoc /\ b.brief \in BriefDoc
      /\ b.context.of = b.facts /\ b.brief.of = b.facts /\ b.brief.with = b.context
  BY DEF Loadable, BundleValid, UpstreamValid, Files
<1>2. b.marker = MarkerOf(s, b) /\ MarkerOf(s, b) \in Marker
  BY <1>1 DEF Loadable, MarkerOf, Inputs, Marker
<1> QED
  BY <1>1, <1>2, NoneAssumption DEF MarkerOf

\* A bundle that is put together of documents that refer to each other is whole.
LEMMA BundleFacts ==
  ASSUME NEW s \in Scope, NEW facts \in FactsDoc, NEW context \in ContextDoc,
         NEW brief \in BriefDoc, context.of = facts, brief.of = facts, brief.with = context,
         input \in Nat
  PROVE  LET b == Bundle(s, facts, context, brief)
         IN  /\ b \in Files /\ Loadable(s, b)
             /\ b.facts = facts /\ b.context = context /\ b.brief = brief
<1>1. PICK a : a = [facts |-> facts, context |-> context, brief |-> brief, skill |-> None,
                    marker |-> None]
  OBVIOUS
<1>2. PICK m : m = MarkerOf(s, a)
  OBVIOUS
<1>3. m \in Marker /\ m = [facts |-> facts, context |-> context, brief |-> brief, input |-> Inputs(s)]
  BY <1>1, <1>2 DEF MarkerOf, Marker, Inputs
<1>4. PICK v : v = Skill(s, a)
  OBVIOUS
<1>5. v \in BriefDoc \cup {None}
  BY <1>1, <1>4 DEF Skill
<1>6. PICK b : b = [facts |-> facts, context |-> context, brief |-> brief, skill |-> v, marker |-> m]
  OBVIOUS
<1>7. Bundle(s, facts, context, brief) = b
  <2>1. Bundle(s, facts, context, brief) = [a EXCEPT !.marker = m, !.skill = v]
    BY <1>1, <1>2, <1>4 DEF Bundle
  <2> QED
    BY <1>1, <1>6, <2>1
<1>8. b \in Files /\ b.facts = facts /\ b.context = context /\ b.brief = brief
  BY <1>3, <1>5, <1>6 DEF Files
<1>9. Loadable(s, b)
  <2>1. BundleValid(b)
    BY <1>8, NoneAssumption DEF BundleValid, UpstreamValid
  <2>2. b.marker = MarkerOf(s, b)
    BY <1>3, <1>6, <1>8 DEF MarkerOf
  <2> QED
    BY <2>1, <2>2 DEF Loadable
<1> QED
  BY <1>7, <1>8, <1>9

LEMMA PlanKeeps ==
  ASSUME Inv, NEW p \in Process, Plan(p)
  PROVE  Inv'
<1>1. /\ op[p].pc = "prepare" /\ op[p].kind = "prepare" /\ op[p].scope \in Scope
      /\ op[p].model \in Model /\ op[p].retriever \in Retriever /\ lock = p
      /\ UNCHANGED <<files, input, index, committed, bounds>>
  BY CommandFacts DEF Plan, KindOK, Inside
<1>2. ASSUME NEW pc \in {"hit", "connect", "make"}, NEW o \in OpState, o = [op[p] EXCEPT !.pc = pc]
      PROVE  /\ o.pc = pc /\ o.kind = "prepare" /\ o.scope = op[p].scope
             /\ o.model = op[p].model /\ o.retriever = op[p].retriever /\ KindOK(o)
  <2>1. /\ o.pc = pc /\ o.kind = "prepare" /\ o.scope = op[p].scope
        /\ o.model = op[p].model /\ o.retriever = op[p].retriever
    BY <1>1, <1>2, CommandFacts DEF OpState
  <2> QED
    BY <1>1, <2>1 DEF KindOK, Inside
<1>3. CASE ReuseBrief(p) /\ Go(p, "hit") /\ UNCHANGED lock
  <2>1. ASSUME NEW o \in OpState, o = [op[p] EXCEPT !.pc = "hit"] PROVE CommandOK(o)
    <3>1. /\ o.pc = "hit" /\ o.scope = op[p].scope /\ o.model = op[p].model
          /\ o.retriever = op[p].retriever /\ KindOK(o)
      BY <1>2, <2>1
    <3>2. Whole(o.scope) /\ Fits(o, files[o.scope])
      BY <1>1, <1>3, <3>1, Reused DEF Fits
    <3> QED
      BY <3>1, <3>2 DEF CommandOK
  <2> QED
    BY <1>1, <1>3, <2>1, GoQuiet DEF Inside
<1>4. CASE Leave(p) /\ Go(p, "connect")
  <2>1. ASSUME NEW o \in OpState, o = [op[p] EXCEPT !.pc = "connect"] PROVE CommandOK(o)
    BY <1>2, <2>1 DEF CommandOK
  <2>2. /\ lock' = lock \/ (lock \in {None, p} /\ lock' \in {None, p})
        /\ lock' # p /\ "connect" \in Inside \cup Outside /\ "connect" \notin Inside
    BY <1>4, LeaveFacts DEF Inside, Outside
  <2> QED
    BY <1>1, <1>4, <2>1, <2>2, GoQuiet
<1>5. CASE Go(p, "make") /\ UNCHANGED lock
  <2>1. ASSUME NEW o \in OpState, o = [op[p] EXCEPT !.pc = "make"] PROVE CommandOK(o)
    BY <1>2, <2>1 DEF CommandOK
  <2> QED
    BY <1>1, <1>5, <2>1, GoQuiet DEF Inside
<1> QED
  BY <1>3, <1>4, <1>5 DEF Plan

\* A writer has made what it publishes.
LEMMA PublishKeeps ==
  ASSUME Inv, NEW p \in Process, op[p].pc \in {"make", "review"}, NEW b \in Files,
         Loadable(op[p].scope, b), Together(b), Past(b),
         op[p].kind = "prepare" => Fits(op[p], b),
         op[p].kind = "review" =>
           LET f == files[op[p].scope].facts
           IN  f # None /\ b.facts.model = f.model /\ b.facts.input = f.input,
         Publish(p, b), UNCHANGED <<files, input, index, committed, bounds>>
  PROVE  Inv'
<1>1. /\ op[p].scope \in Scope /\ op[p].kind \in {"prepare", "review"} /\ lock = p
      /\ files[op[p].scope] \in Files
  BY CommandFacts DEF KindOK, Inside
<1>0. PICK w \in OpState, f \in Files : w = op[p] /\ f = files[op[p].scope]
  BY <1>1, CommandFacts
<1>2. PICK o : o = [w EXCEPT !.new = b, !.old = f, !.pc = "publish", !.at = 1]
  OBVIOUS
<1>3. /\ o \in OpState /\ o.new = b /\ o.old = files[op[p].scope] /\ o.pc = "publish" /\ o.at = 1
      /\ o.kind = op[p].kind /\ o.scope = op[p].scope /\ o.model = op[p].model
      /\ o.retriever = op[p].retriever /\ o.verdict = op[p].verdict
  <2>1. "publish" \in Inside \cup Outside /\ 1 \in 1 .. 6
    BY DEF Inside
  <2>2. o \in OpState
    BY <1>0, <1>2, <2>1 DEF OpState
  <2>3. /\ o.new = b /\ o.old = f /\ o.pc = "publish" /\ o.at = 1
        /\ o.kind = w.kind /\ o.scope = w.scope /\ o.model = w.model
        /\ o.retriever = w.retriever /\ o.verdict = w.verdict
    BY <1>0, <1>2 DEF OpState
  <2> QED
    BY <1>0, <1>2, <2>2, <2>3
<1>4. KindOK(o)
  BY <1>1, <1>3, CommandFacts DEF KindOK, Inside
<1>5. NewOK(o)
  BY <1>3 DEF NewOK, Fits
<1>6. OldOK(o)
  <2>1. Vouched(o.old.marker) /\ Past(o.old)
    BY <1>1, <1>3 DEF Inv, FilesOK
  <2>2. ASSUME crashes = 0 PROVE Gone(o.scope, o.old)
    <3>1. ~ AtWork(op[p].scope)
      <4>1. ASSUME NEW q \in Process, op[q].pc \in {"publish", "restore"} PROVE FALSE
        <5>1. lock = q
          BY <4>1, CommandFacts DEF Inside
        <5> QED
          BY <1>1, <4>1, <5>1
      <4> QED
        BY <4>1 DEF AtWork
    <3> QED
      BY <1>1, <1>3, <2>2, <3>1 DEF Inv, Tidy
  <2> QED
    BY <2>1, <2>2 DEF OldOK
<1>7. Done(o, o.new)
  BY <1>3 DEF Done
<1>8. CommandOK(o)
  BY <1>3, <1>4, <1>5, <1>6, <1>7 DEF CommandOK
<1>9. op' = [op EXCEPT ![p] = o] /\ UNCHANGED lock
  BY <1>0, <1>2, CommandFacts DEF Publish
<1>10. o.pc \in Inside /\ op[p].pc \in Inside
  BY <1>3 DEF Inside
<1>11. ops' \in Nat /\ UNCHANGED crashes
  BY CommandFacts DEF bounds
<1> QED
  BY <1>3, <1>8, <1>9, <1>10, <1>11, Alone

LEMMA MakeKeeps ==
  ASSUME Inv, NEW p \in Process, Make(p)
  PROVE  Inv'
<1>1. /\ op[p].pc = "make" /\ op[p].kind = "prepare" /\ op[p].scope \in Scope
      /\ op[p].model \in Model /\ op[p].retriever \in Retriever /\ op[p].id \in Nat
      /\ input \in Nat
      /\ UNCHANGED <<files, input, index, committed, bounds>>
  BY CommandFacts DEF Make, KindOK, Inside, OpState
<1>2. PICK s \in Scope : s = op[p].scope
  BY <1>1
<1>3. PICK facts : facts = IF ReuseFacts(p) THEN files[s].facts ELSE MadeFacts(p)
  OBVIOUS
<1>4. facts \in FactsDoc /\ facts.model = op[p].model /\ facts.input = input
  <2>1. CASE ReuseFacts(p)
    BY <1>1, <1>2, <1>3, <2>1, Reused
  <2>2. CASE ~ ReuseFacts(p)
    BY <1>1, <1>3, <2>2 DEF MadeFacts, FactsDoc, Draft, Verdict
  <2> QED
    BY <2>1, <2>2
<1>5. ASSUME NEW errors \in BOOLEAN, NEW ready \in BOOLEAN,
             NEW context, context = IF ReuseContext(p) THEN files[s].context
                                    ELSE MadeContext(p, facts, errors),
             Publish(p, Bundle(s, facts, context, MadeBrief(p, facts, context, ready)))
      PROVE  Inv'
  <2>1. /\ context \in ContextDoc /\ context.of = facts
        /\ context.retriever = op[p].retriever
    <3>1. CASE ReuseContext(p)
      BY <1>1, <1>2, <1>3, <1>5, <3>1, Reused
    <3>2. CASE ~ ReuseContext(p)
      BY <1>1, <1>4, <1>5, <3>2 DEF MadeContext, ContextDoc
    <3> QED
      BY <3>1, <3>2
  <2>2. PICK brief : brief = MadeBrief(p, facts, context, ready)
    OBVIOUS
  <2>3. /\ brief \in BriefDoc /\ brief.of = facts /\ brief.with = context
        /\ brief.model = op[p].model /\ brief.review.status = "draft"
    BY <1>1, <1>4, <2>1, <2>2 DEF MadeBrief, BriefDoc, Draft, Verdict
  <2>4. PICK b : b = Bundle(s, facts, context, brief)
    OBVIOUS
  <2>5. /\ b \in Files /\ Loadable(s, b)
        /\ b.facts = facts /\ b.context = context /\ b.brief = brief
    BY <1>1, <1>4, <2>1, <2>3, <2>4, BundleFacts
  <2>6. Together(b) /\ Past(b) /\ Fits(op[p], b)
    BY <1>1, <1>4, <2>1, <2>3, <2>5 DEF Together, Past, Fits
  <2>7. Publish(p, b)
    BY <1>5, <2>2, <2>4
  <2> QED
    BY <1>1, <1>2, <2>5, <2>6, <2>7, PublishKeeps
<1>6. CASE End(p)
  BY <1>1, <1>6, CommandFacts, EndKeeps DEF bounds
<1> QED
  BY <1>2, <1>3, <1>5, <1>6 DEF Make

LEMMA ReviewKeeps ==
  ASSUME Inv, NEW p \in Process, Review(p)
  PROVE  Inv'
<1>1. /\ op[p].pc = "review" /\ op[p].kind = "review" /\ op[p].scope \in Scope
      /\ op[p].verdict \in {"approved", "rejected"} /\ op[p].id \in Nat
      /\ input \in Nat
      /\ UNCHANGED <<files, input, index, committed, bounds>>
  BY CommandFacts DEF Review, KindOK, Inside, OpState
<1>2. PICK s \in Scope : s = op[p].scope
  BY <1>1
<1>3. CASE End(p)
  BY <1>1, <1>3, CommandFacts, EndKeeps DEF bounds
<1>4. CASE ~ End(p)
  <2>1. PICK v : v = [status |-> op[p].verdict, by |-> op[p].id]
    OBVIOUS
  <2>2. PICK b : b = Reviewed(files[s], v)
    OBVIOUS
  <2>3. Whole(s) /\ Publish(p, Bundle(s, b.facts, b.context, b.brief))
    BY <1>2, <1>4, <2>1, <2>2 DEF Review
  <2>4. PICK f \in Files : f = files[s]
    BY CommandFacts
  <2>5. /\ f.facts \in FactsDoc /\ f.context \in ContextDoc /\ f.brief \in BriefDoc
    BY <1>1, <2>3, <2>4, LoadableFacts DEF Whole
  <2>6. v \in Verdict
    BY <1>1, <2>1 DEF Verdict
  <2>7. PICK facts : facts = [f.facts EXCEPT !.review = v]
    OBVIOUS
  <2>8. /\ facts \in FactsDoc /\ facts.model = f.facts.model /\ facts.input = f.facts.input
        /\ facts.review = v
    BY <2>5, <2>6, <2>7 DEF FactsDoc
  <2>9. PICK context : context = [f.context EXCEPT !.of = facts]
    OBVIOUS
  <2>10. context \in ContextDoc /\ context.of = facts
    BY <2>5, <2>8, <2>9 DEF ContextDoc
  <2>11. PICK brief : brief = [f.brief EXCEPT !.review = v, !.of = facts, !.with = context]
    OBVIOUS
  <2>12. /\ brief \in BriefDoc /\ brief.of = facts /\ brief.with = context /\ brief.review = v
    BY <2>5, <2>6, <2>8, <2>10, <2>11 DEF BriefDoc
  <2>13. b.facts = facts /\ b.context = context /\ b.brief = brief
    BY <2>2, <2>4, <2>7, <2>9, <2>11 DEF Reviewed, Files
  <2>14. PICK n : n = Bundle(s, facts, context, brief)
    OBVIOUS
  <2>15. /\ n \in Files /\ Loadable(s, n)
         /\ n.facts = facts /\ n.context = context /\ n.brief = brief
    BY <1>1, <2>8, <2>10, <2>12, <2>14, BundleFacts
  <2>16. Together(n)
    BY <2>8, <2>12, <2>15 DEF Together
  <2>17. f.facts # None /\ f.facts.input <= input
    <3>1. f.facts # None
      BY <2>5, NoneAssumption
    <3> QED
      BY <2>4, <3>1 DEF Inv, FilesOK, Past
  <2>18. Past(n)
    BY <2>8, <2>15, <2>17 DEF Past
  <2>19. Publish(p, n)
    BY <2>3, <2>13, <2>14
  <2> QED
    BY <1>1, <1>2, <2>4, <2>8, <2>15, <2>16, <2>17, <2>18, <2>19, PublishKeeps
<1> QED
  BY <1>3, <1>4
-----------------------------------------------------------------------------
(* The writing of the files.                                                *)

\* One file of bundle b is put in place by command o, after those before it.
LEMMA PutNext ==
  ASSUME Inv, NEW o \in OpState, o.scope \in Scope, o.at \in 1 .. 5, NEW b \in Files, Done(o, b),
         files' = [files EXCEPT ![o.scope][Order[o.at]] = b[Order[o.at]]]
  PROVE  /\ files' \in [Scope -> Files]
         /\ \A t \in Scope : t # o.scope => files'[t] = files[t]
         /\ \A n \in Name : files'[o.scope][n] \in {files[o.scope][n], b[n]}
         /\ o.at # 5 => files'[o.scope].marker = files[o.scope].marker
         /\ \A j \in 1 .. 5 : j <= o.at => files'[o.scope][Order[j]] = b[Order[j]]
         /\ o.at = 5 => files'[o.scope] = b
<1> DEFINE s == o.scope
           n == Order[o.at]
<1>1. n \in Name /\ s \in Scope /\ files \in [Scope -> Files]
      /\ files' = [files EXCEPT ![s][n] = b[n]]
  BY OrderFacts DEF Inv, Types
<1>2. /\ files' \in [Scope -> Files] /\ files'[s][n] = b[n]
      /\ \A m \in Name : m # n => files'[s][m] = files[s][m]
      /\ \A t \in Scope : t # s => files'[t] = files[t]
  <2> HIDE DEF s, n
  <2> QED
    BY <1>1, Put
<1>3. ASSUME o.at # 5 PROVE files'[s].marker = files[s].marker
  <2>1. "marker" # n /\ "marker" \in Name
    BY <1>3, OrderFacts DEF Name
  <2>2. files'[s]["marker"] = files[s]["marker"]
    BY <1>2, <2>1
  <2> QED
    BY <2>2
<1>4. ASSUME NEW j \in 1 .. 5, j <= o.at PROVE files'[s][Order[j]] = b[Order[j]]
  <2>1. CASE j = o.at
    BY <1>2, <2>1
  <2>2. CASE j # o.at
    <3>1. j < o.at /\ Order[j] \in Name /\ Order[j] # n
      BY <1>4, <2>2, OrderFacts
    <3> QED
      BY <1>2, <3>1 DEF Done
  <2> QED
    BY <2>1, <2>2
<1>5. ASSUME o.at = 5 PROVE files'[s] = b
  <2>1. ASSUME NEW m \in Name PROVE files'[s][m] = b[m]
    BY <1>4, <1>5, OrderFacts
  <2>2. PICK g : g = files'[s]
    OBVIOUS
  <2>3. g \in Files /\ \A m \in Name : g[m] = b[m]
    BY <1>1, <1>2, <2>1, <2>2
  <2> QED
    BY <2>2, <2>3, SameFiles
<1>6. \A m \in Name : files'[s][m] \in {files[s][m], b[m]}
  BY <1>2
<1> QED
  BY <1>2, <1>3, <1>4, <1>5, <1>6

\* While a writer puts its files in place, every other scope is as it should be.
LEMMA OthersTidy ==
  ASSUME Inv, NEW p \in Process, op[p].pc \in {"publish", "restore"}, UNCHANGED input, crashes' = crashes,
         NEW t \in Scope, t # op[p].scope, files'[t] = files[t], crashes' = 0
  PROVE  Gone(t, files[t])'
<1>1. ~ AtWork(t)
  <2>1. ASSUME NEW q \in Process, op[q].pc \in {"publish", "restore"} PROVE q = p
    BY <2>1, CommandFacts DEF Inside
  <2> QED
    BY <2>1 DEF AtWork
<1>2. Gone(t, files[t])
  BY <1>1 DEF Inv, Tidy
<1> QED
  BY <1>2 DEF Gone, Loadable, MarkerOf, Inputs

LEMMA ReplaceKeeps ==
  ASSUME Inv, NEW p \in Process, Replace(p)
  PROVE  Inv'
<1>1. PICK w \in OpState : w = op[p]
  BY CommandFacts
<1>2. /\ w.pc = "publish" /\ w.kind \in {"prepare", "review"} /\ w.scope \in Scope /\ w.at \in 1 .. 5
      /\ KindOK(w) /\ NewOK(w) /\ OldOK(w) /\ Done(w, w.new)
      /\ w.new \in Files
      /\ lock = p
  BY <1>1, CommandFacts DEF Replace, CommandOK, KindOK, Inside, OpState
<1>3. /\ files' = [files EXCEPT ![w.scope][Order[w.at]] = w.new[Order[w.at]]]
      /\ committed' = IF Order[w.at] = "marker" THEN committed \cup {files'[w.scope]} ELSE committed
      /\ op' = [op EXCEPT ![p].pc = IF Order[w.at] = "marker" THEN "mirror" ELSE "publish",
                          ![p].at = @ + 1]
      /\ UNCHANGED <<input, index, lock, ops, crashes>>
  BY <1>1 DEF Replace, bounds
<1>4. /\ files' \in [Scope -> Files]
      /\ \A t \in Scope : t # w.scope => files'[t] = files[t]
      /\ \A n \in Name : files'[w.scope][n] \in {files[w.scope][n], w.new[n]}
      /\ w.at # 5 => files'[w.scope].marker = files[w.scope].marker
      /\ \A j \in 1 .. 5 : j <= w.at => files'[w.scope][Order[j]] = w.new[Order[j]]
      /\ w.at = 5 => files'[w.scope] = w.new
  BY <1>2, <1>3, PutNext
<1>5. committed' = IF w.at = 5 THEN committed \cup {w.new} ELSE committed
  BY <1>2, <1>3, <1>4, OrderFacts
<1>6. PICK o : o = [w EXCEPT !.pc = IF w.at = 5 THEN "mirror" ELSE "publish", !.at = w.at + 1]
  OBVIOUS
<1>7. /\ o \in OpState /\ o.pc = (IF w.at = 5 THEN "mirror" ELSE "publish") /\ o.at = w.at + 1
      /\ o.kind = w.kind /\ o.scope = w.scope /\ o.model = w.model /\ o.retriever = w.retriever
      /\ o.verdict = w.verdict /\ o.new = w.new /\ o.old = w.old
  <2>1. (IF w.at = 5 THEN "mirror" ELSE "publish") \in Inside \cup Outside /\ w.at + 1 \in 1 .. 6
    BY <1>2 DEF Inside
  <2> QED
    BY <1>6, <2>1 DEF OpState
<1>8. op' = [op EXCEPT ![p] = o]
  <2>1. Order[w.at] = "marker" <=> w.at = 5
    BY <1>2, OrderFacts
  <2>2. op' = [op EXCEPT ![p] = [op[p] EXCEPT !.pc = IF Order[w.at] = "marker" THEN "mirror" ELSE "publish",
                                            !.at = op[p].at + 1]]
    BY <1>1, <1>3, CommandFacts DEF OpState
  <2> QED
    BY <1>1, <1>6, <2>1, <2>2
<1>9. CommandOK(o)'
  <2>1. KindOK(o)
    BY <1>2, <1>7 DEF KindOK, Inside
  <2>2. NewOK(o) /\ OldOK(o)
    BY <1>2, <1>7 DEF NewOK, OldOK, Fits
  <2>3. NewOK(o)' /\ OldOK(o)'
    BY <1>3, <1>5, <2>2, NewStays, OldStays
  <2>4. Done(o, o.new)'
    BY <1>2, <1>4, <1>7 DEF Done
  <2>5. o.pc = "mirror" => o.at = 6
    BY <1>7
  <2> QED
    BY <1>7, <2>1, <2>3, <2>4, <2>5 DEF CommandOK, KindOK
<1>10. FilesOK'
  <2>1. ASSUME NEW t \in Scope PROVE Vouched(files[t].marker)' /\ Past(files[t])'
    <3>1. Vouched(files[t].marker) /\ Past(files[t])
      BY DEF Inv, FilesOK
    <3>2. CASE t # w.scope
      BY <1>3, <1>4, <1>5, <3>1, <3>2 DEF Vouched, Past
    <3>3. CASE t = w.scope
      <4>1. Past(files[t])'
        <5>1. files'[t]["facts"] \in {files[t]["facts"], w.new["facts"]}
          BY <1>4, <3>3 DEF Name
        <5>2. Past(w.new)
          BY <1>2 DEF NewOK
        <5> QED
          BY <1>3, <3>1, <5>1, <5>2 DEF Past
      <4>2. CASE w.at # 5
        BY <1>4, <1>5, <3>1, <3>3, <4>1, <4>2 DEF Vouched
      <4>3. CASE w.at = 5
        <5>1. files'[t] = w.new /\ w.new \in committed'
          BY <1>4, <1>5, <3>3, <4>3
        <5>2. /\ w.new.marker.facts = w.new.facts /\ w.new.marker.context = w.new.context
              /\ w.new.marker.brief = w.new.brief
          BY <1>2, LoadableFacts, CommandFacts DEF NewOK
        <5> QED
          BY <4>1, <5>1, <5>2 DEF Vouched
      <4> QED
        BY <4>2, <4>3
    <3> QED
      BY <3>2, <3>3
  <2> QED
    BY <2>1 DEF FilesOK
<1>11. Tidy'
  <2>1. ASSUME crashes' = 0, NEW t \in Scope PROVE Gone(t, files[t])' \/ AtWork(t)'
    <3>1. CASE t # w.scope
      BY <1>1, <1>2, <1>3, <1>4, <2>1, <3>1, OthersTidy
    <3>2. CASE t = w.scope /\ w.at # 5
      <4>1. op'[p].pc = "publish" /\ op'[p].scope = t
        BY <1>7, <1>8, <3>2, CommandFacts
      <4> QED
        BY <4>1 DEF AtWork
    <3>3. CASE t = w.scope /\ w.at = 5
      <4>1. files'[t] = w.new /\ Loadable(t, w.new)
        BY <1>2, <1>4, <3>3 DEF NewOK
      <4>2. Loadable(t, w.new)'
        BY <1>3, <4>1 DEF Loadable, MarkerOf, Inputs
      <4> QED
        BY <4>1, <4>2 DEF Gone, Loadable, MarkerOf, Inputs
    <3> QED
      BY <3>1, <3>2, <3>3, SMTT(30)
  <2> QED
    BY <2>1 DEF Tidy
<1>12. \A b \in committed' : Together(b)
  <2>1. Together(w.new)
    BY <1>2 DEF NewOK
  <2> QED
    BY <1>5, <2>1 DEF Inv
<1>13. Rows' /\ index' \in [Scope -> Row \cup {None}] /\ input' \in 0 .. MaxInputs
  BY <1>3 DEF Inv, Types, Rows, RowOK
<1>14. /\ committed \subseteq committed' /\ crashes' \in Nat /\ crashes <= crashes' /\ ops' \in Nat
       /\ op[p].pc \in Inside /\ lock' = lock /\ (lock' = p <=> o.pc \in Inside)
  BY <1>1, <1>2, <1>3, <1>5, <1>7, CommandFacts DEF Inside
<1> QED
  BY <1>4, <1>7, <1>8, <1>9, <1>10, <1>11, <1>12, <1>13, <1>14, Assemble

LEMMA FailKeeps ==
  ASSUME Inv, NEW p \in Process, Fail(p)
  PROVE  Inv'
<1>1. PICK w \in OpState : w = op[p]
  BY CommandFacts
<1>2. /\ w.pc = "publish" /\ w.kind \in {"prepare", "review"} /\ w.scope \in Scope
      /\ KindOK(w) /\ OldOK(w) /\ lock = p
  BY <1>1, CommandFacts DEF Fail, CommandOK, KindOK, Inside
<1>3. PICK o : o = [w EXCEPT !.pc = "restore", !.at = 1]
  OBVIOUS
<1>4. /\ o \in OpState /\ o.pc = "restore" /\ o.at = 1
      /\ o.kind = w.kind /\ o.scope = w.scope /\ o.model = w.model /\ o.retriever = w.retriever
      /\ o.verdict = w.verdict /\ o.old = w.old
  <2>1. "restore" \in Inside \cup Outside /\ 1 \in 1 .. 6
    BY DEF Inside
  <2> QED
    BY <1>3, <2>1 DEF OpState
<1>5. CommandOK(o)
  <2>1. KindOK(o)
    BY <1>2, <1>4 DEF KindOK, Inside
  <2>2. OldOK(o) /\ Done(o, o.old)
    BY <1>2, <1>4 DEF OldOK, Done
  <2> QED
    BY <1>4, <2>1, <2>2 DEF CommandOK
<1>6. /\ op' = [op EXCEPT ![p] = o]
      /\ UNCHANGED <<files, input, index, committed, lock, ops, crashes>>
  BY <1>1, <1>3, CommandFacts DEF Fail
<1>7. /\ crashes' \in Nat /\ crashes <= crashes' /\ ops' \in Nat
      /\ (lock' = p <=> o.pc \in Inside) /\ o.scope = op[p].scope
  BY <1>1, <1>2, <1>4, <1>6, CommandFacts DEF Inside
<1> QED
  BY <1>4, <1>5, <1>6, <1>7, Quiet

LEMMA RestoreKeeps ==
  ASSUME Inv, NEW p \in Process, Restore(p)
  PROVE  Inv'
<1>1. PICK w \in OpState : w = op[p]
  BY CommandFacts
<1>2. /\ w.pc = "restore" /\ w.kind \in {"prepare", "review"} /\ w.scope \in Scope /\ w.at \in 1 .. 5
      /\ KindOK(w) /\ OldOK(w) /\ Done(w, w.old) /\ w.old \in Files
      /\ lock = p
  BY <1>1, CommandFacts DEF Restore, CommandOK, KindOK, Inside, OpState
<1>3. /\ files' = [files EXCEPT ![w.scope][Order[w.at]] = w.old[Order[w.at]]]
      /\ UNCHANGED <<input, index, committed, ops, crashes>>
  <2>1. Order[w.at] \in Protected
    BY <1>2, OrderFacts DEF Name, Protected
  <2> QED
    BY <1>1, <2>1 DEF Restore, bounds
<1>4. /\ files' \in [Scope -> Files]
      /\ \A t \in Scope : t # w.scope => files'[t] = files[t]
      /\ \A n \in Name : files'[w.scope][n] \in {files[w.scope][n], w.old[n]}
      /\ w.at # 5 => files'[w.scope].marker = files[w.scope].marker
      /\ \A j \in 1 .. 5 : j <= w.at => files'[w.scope][Order[j]] = w.old[Order[j]]
      /\ w.at = 5 => files'[w.scope] = w.old
  BY <1>2, <1>3, PutNext
<1>5. FilesOK'
  <2>1. ASSUME NEW t \in Scope PROVE Vouched(files[t].marker)' /\ Past(files[t])'
    <3>1. Vouched(files[t].marker) /\ Past(files[t]) /\ Vouched(w.old.marker) /\ Past(w.old)
      BY <1>2 DEF Inv, FilesOK, OldOK
    <3>2. CASE t # w.scope
      BY <1>3, <1>4, <3>1, <3>2 DEF Vouched, Past
    <3>3. CASE t = w.scope
      <4>1. /\ files'[t]["facts"] \in {files[t]["facts"], w.old["facts"]}
            /\ files'[t]["marker"] \in {files[t]["marker"], w.old["marker"]}
        BY <1>4, <3>3 DEF Name
      <4>2. Past(files[t])'
        BY <1>3, <3>1, <4>1 DEF Past
      <4>3. Vouched(files[t].marker)'
        BY <1>3, <3>1, <4>1 DEF Vouched
      <4> QED
        BY <4>2, <4>3
    <3> QED
      BY <3>2, <3>3
  <2> QED
    BY <2>1 DEF FilesOK
<1>6. Rows' /\ index' \in [Scope -> Row \cup {None}] /\ input' \in 0 .. MaxInputs
      /\ \A b \in committed' : Together(b)
  BY <1>3 DEF Inv, Types, Rows, RowOK
<1>7. /\ committed \subseteq committed' /\ crashes' \in Nat /\ crashes <= crashes' /\ ops' \in Nat
      /\ op[p].pc \in Inside
  BY <1>1, <1>2, <1>3, CommandFacts DEF Inside
<1>8. CASE w.at = 5
  <2>1. End(p)
    BY <1>1, <1>8, OrderFacts DEF Restore
  <2>2. /\ op' = [op EXCEPT ![p] = NoOp] /\ NoOp \in OpState /\ NoOp.pc \notin Inside
        /\ lock' = lock \/ (lock \in {None, p} /\ lock' \in {None, p})
        /\ lock' # p
    BY <2>1, LeaveFacts, NoOpType DEF End, Inside
  <2>3. CommandOK(NoOp)'
    <3>1. NoOp.pc \notin Inside /\ CommandOK(NoOp) /\ NoOp \in OpState
      BY <2>2, NoOpType
    <3>2. crashes \in Nat
      BY CommandFacts
    <3> QED
      BY <1>7, <3>1, <3>2, StillOK
  <2>4. Tidy'
    <3>1. ASSUME crashes' = 0, NEW t \in Scope PROVE Gone(t, files[t])'
      <4>1. CASE t # w.scope
        BY <1>1, <1>2, <1>3, <1>4, <3>1, <4>1, OthersTidy
      <4>2. CASE t = w.scope
        <5>1. files'[t] = w.old /\ Gone(t, w.old)
          BY <1>2, <1>3, <1>4, <1>8, <3>1, <4>2 DEF OldOK
        <5> QED
          BY <1>3, <5>1 DEF Gone, Loadable, MarkerOf, Inputs
      <4> QED
        BY <4>1, <4>2, SMTT(30)
    <3> QED
      BY <3>1 DEF Tidy
  <2> QED
    BY <1>4, <1>5, <1>6, <1>7, <2>2, <2>3, <2>4, Assemble
<1>9. CASE w.at # 5
  <2>1. op' = [op EXCEPT ![p].at = @ + 1] /\ UNCHANGED lock
    BY <1>1, <1>9, OrderFacts DEF Restore
  <2>2. PICK o : o = [w EXCEPT !.at = w.at + 1]
    OBVIOUS
  <2>3. /\ o \in OpState /\ o.pc = "restore" /\ o.at = w.at + 1
        /\ o.kind = w.kind /\ o.scope = w.scope /\ o.model = w.model /\ o.retriever = w.retriever
        /\ o.verdict = w.verdict /\ o.old = w.old
    <3>1. w.at + 1 \in 1 .. 6
      BY <1>2
    <3> QED
      BY <1>2, <2>2, <3>1 DEF OpState
  <2>4. op' = [op EXCEPT ![p] = o]
    BY <1>1, <2>1, <2>2, CommandFacts
  <2>5. CommandOK(o)'
    <3>1. KindOK(o)
      BY <1>2, <1>9, <2>3 DEF KindOK, Inside
    <3>2. OldOK(o)
      BY <1>2, <2>3 DEF OldOK
    <3>3. OldOK(o)'
      BY <1>3, <3>2, OldStays
    <3>4. Done(o, o.old)'
      BY <1>2, <1>4, <2>3, SMTT(30) DEF Done
    <3> QED
      BY <2>3, <3>1, <3>3, <3>4 DEF CommandOK, KindOK
  <2>6. Tidy'
    <3>1. ASSUME crashes' = 0, NEW t \in Scope PROVE Gone(t, files[t])' \/ AtWork(t)'
      <4>1. CASE t # w.scope
        BY <1>1, <1>2, <1>3, <1>4, <3>1, <4>1, OthersTidy
      <4>2. CASE t = w.scope
        <5>1. op'[p].pc = "restore" /\ op'[p].scope = t
          BY <2>3, <2>4, <4>2, CommandFacts
        <5> QED
          BY <5>1 DEF AtWork
      <4> QED
        BY <4>1, <4>2
    <3> QED
      BY <3>1 DEF Tidy
  <2>7. lock' = lock /\ (lock' = p <=> o.pc \in Inside)
    BY <1>2, <2>1, <2>3 DEF Inside
  <2> QED
    BY <1>4, <1>5, <1>6, <1>7, <2>3, <2>4, <2>5, <2>6, <2>7, Assemble
<1> QED
  BY <1>8, <1>9
-----------------------------------------------------------------------------
(* The end of a command.                                                    *)

LEMMA TidyStays ==
  ASSUME Inv, NEW p \in Process, NEW o, op' = [op EXCEPT ![p] = o], crashes' = crashes,
         UNCHANGED <<files, input>>, op[p].pc \notin {"publish", "restore"}
  PROVE  Tidy'
<1> SUFFICES ASSUME crashes' = 0, NEW s \in Scope PROVE Gone(s, files[s])' \/ AtWork(s)'
  BY DEF Tidy
<1>1. Gone(s, files[s]) => Gone(s, files[s])'
  BY DEF Gone, Loadable, MarkerOf, Inputs
<1>2. ASSUME AtWork(s) PROVE AtWork(s)'
  <2>1. PICK q \in Process : op[q].pc \in {"publish", "restore"} /\ op[q].scope = s
    BY <1>2 DEF AtWork
  <2>2. op'[q] = op[q]
    BY <2>1, CommandFacts
  <2> QED
    BY <2>1, <2>2 DEF AtWork
<1> QED
  BY <1>1, <1>2 DEF Inv, Tidy

\* A command ends with a change of the index, of the view or of the package.
LEMMA EndFacts ==
  ASSUME Inv, NEW p \in Process, End(p), op[p].pc \in Inside, UNCHANGED committed,
         crashes' \in Nat, crashes <= crashes'
  PROVE  /\ op' = [op EXCEPT ![p] = NoOp] /\ NoOp \in OpState /\ CommandOK(NoOp)'
         /\ lock \in {None, p} /\ lock' \in {None, p} /\ lock' # p /\ NoOp.pc \notin Inside
<1>1. /\ op' = [op EXCEPT ![p] = NoOp] /\ NoOp \in OpState /\ CommandOK(NoOp)
      /\ NoOp.pc \notin Inside /\ lock = p /\ lock' = None /\ lock' # p
  BY CommandFacts, LeaveFacts, NoOpType DEF End, Leave, Inside
<1>2. crashes \in Nat
  BY CommandFacts
<1>3. CommandOK(NoOp)'
  BY <1>1, <1>2, StillOK
<1> QED
  BY <1>1, <1>3

\* The view of the workbook is no part of the bundle.
LEMMA HitKeeps ==
  ASSUME Inv, NEW p \in Process, Hit(p)
  PROVE  Inv'
<1>1. PICK s \in Scope, b \in Files : s = op[p].scope /\ b = files[s]
  BY CommandFacts DEF Hit, KindOK, Inside
<1>2. /\ op[p].pc = "hit" /\ lock = p /\ Loadable(s, b) /\ input \in Nat
      /\ End(p) /\ UNCHANGED <<input, index, committed, ops, crashes>>
      /\ files' = [files EXCEPT ![s].skill = Skill(s, b)]
  BY <1>1, CommandFacts DEF Hit, CommandOK, Whole, Inside, bounds
<1>3. PICK v : v = Skill(s, b)
  OBVIOUS
<1>4. v \in BriefDoc \cup {None}
  BY <1>2, <1>3, LoadableFacts DEF Skill
<1>5. PICK n : n = [b EXCEPT !.skill = v]
  OBVIOUS
<1>6. /\ n \in Files /\ n.facts = b.facts /\ n.context = b.context /\ n.brief = b.brief
      /\ n.marker = b.marker
  BY <1>4, <1>5 DEF Files
<1>7. files' = [files EXCEPT ![s] = n] /\ files \in [Scope -> Files]
  BY <1>1, <1>2, <1>3, <1>5, CommandFacts
<1>8. files'[s] = n /\ files' \in [Scope -> Files] /\ \A t \in Scope : t # s => files'[t] = files[t]
  BY <1>6, <1>7
<1>9. FilesOK'
  <2>1. ASSUME NEW t \in Scope PROVE Vouched(files[t].marker)' /\ Past(files[t])'
    <3>1. files'[t].marker = files[t].marker /\ files'[t].facts = files[t].facts
      BY <1>1, <1>6, <1>8
    <3>2. Vouched(files[t].marker) /\ Past(files[t])
      BY DEF Inv, FilesOK
    <3> QED
      BY <1>2, <3>1, <3>2 DEF Vouched, Past
  <2> QED
    BY <2>1 DEF FilesOK
<1>10. Tidy'
  <2>1. ASSUME crashes' = 0, NEW t \in Scope PROVE Gone(t, files[t])'
    <3>1. ~ AtWork(t)
      <4>1. ASSUME NEW q \in Process, op[q].pc \in {"publish", "restore"} PROVE FALSE
        <5>1. lock = q
          BY <4>1, CommandFacts DEF Inside
        <5> QED
          BY <1>2, <4>1, <5>1
      <4> QED
        BY <4>1 DEF AtWork
    <3>2. Gone(t, files[t])
      BY <1>2, <2>1, <3>1 DEF Inv, Tidy
    <3>3. CASE t # s
      BY <1>2, <1>8, <3>2, <3>3 DEF Gone, Loadable, MarkerOf, Inputs
    <3>4. CASE t = s
      <4>1. Loadable(s, n)'
        BY <1>2, <1>6 DEF Loadable, BundleValid, UpstreamValid, MarkerOf, Inputs
      <4> QED
        BY <1>8, <3>4, <4>1 DEF Gone, Loadable, MarkerOf, Inputs
    <3> QED
      BY <3>3, <3>4
  <2> QED
    BY <2>1 DEF Tidy
<1>11. Rows' /\ index' \in [Scope -> Row \cup {None}] /\ input' \in 0 .. MaxInputs
       /\ \A x \in committed' : Together(x)
  BY <1>2 DEF Inv, Types, Rows, RowOK
<1>12. /\ committed \subseteq committed' /\ crashes' \in Nat /\ crashes <= crashes' /\ ops' \in Nat
       /\ op[p].pc \in Inside
  BY <1>2, CommandFacts DEF Inside
<1>13. /\ op' = [op EXCEPT ![p] = NoOp] /\ NoOp \in OpState /\ CommandOK(NoOp)'
       /\ lock \in {None, p} /\ lock' \in {None, p} /\ lock' # p /\ NoOp.pc \notin Inside
  BY <1>2, <1>12, EndFacts
<1> QED
  BY <1>8, <1>9, <1>10, <1>11, <1>12, <1>13, Assemble
\* The record that follows a preparation, or a review, is true of its documents.
LEMMA PreparedRow ==
  ASSUME Inv, NEW p \in Process, op[p].pc = "mirror", op[p].kind = "prepare",
         NEW r, r = PreparedRecord(p)
  PROVE  r \in Row /\ RowOK(r)
<1>1. PICK s \in Scope, b \in Files : s = op[p].scope /\ b = op[p].new
  BY CommandFacts DEF KindOK, Inside, OpState
<1>2. /\ Loadable(s, b) /\ Fits(op[p], b) /\ input \in Nat
      /\ op[p].model \in Model /\ op[p].retriever \in Retriever
  BY <1>1, CommandFacts DEF CommandOK, KindOK, NewOK, Inside
<1>3. /\ b.facts \in FactsDoc /\ b.context \in ContextDoc /\ b.brief \in BriefDoc
      /\ b.context.of = b.facts /\ b.brief.of = b.facts /\ b.brief.with = b.context
  BY <1>2, LoadableFacts
<1>4. r = [facts |-> b.facts, context |-> b.context, brief |-> b.brief,
           factsRecipe |-> <<op[p].model, input>>,
           standardsRecipe |-> <<b.facts, op[p].retriever>>,
           briefRecipe |-> <<b.facts, b.context, op[p].model>>]
  BY <1>1 DEF PreparedRecord, Mirrored, FactsRecipe, StandardsRecipe, BriefRecipe
<1>5. r \in Row
  BY <1>2, <1>3, <1>4 DEF Row
<1>6. RowOK(r)
  BY <1>2, <1>3, <1>4 DEF RowOK, Fits
<1> QED
  BY <1>5, <1>6

LEMMA ReviewedRow ==
  ASSUME Inv, NEW p \in Process, op[p].pc = "mirror", op[p].kind = "review",
         NEW r, r = ReviewedRecord(p)
  PROVE  r \in Row /\ RowOK(r)
<1>1. PICK s \in Scope, b \in Files, old \in Files : s = op[p].scope /\ b = op[p].new /\ old = op[p].old
  BY CommandFacts DEF KindOK, Inside, OpState
<1>2. /\ Loadable(s, b) /\ input \in Nat /\ old.facts # None
      /\ b.facts.model = old.facts.model /\ b.facts.input = old.facts.input
  BY <1>1, CommandFacts DEF CommandOK, NewOK
<1>3. /\ b.facts \in FactsDoc /\ b.context \in ContextDoc /\ b.brief \in BriefDoc
      /\ b.context.of = b.facts /\ b.brief.of = b.facts /\ b.brief.with = b.context
  BY <1>2, LoadableFacts
<1>4. old.facts \in FactsDoc
  BY <1>2 DEF Files
<1>5. CASE Witness(index[s], old)
  <2>1. PICK w : w = index[s]
    OBVIOUS
  <2>2. w \in Row /\ RowOK(w)
    BY <1>5, <2>1 DEF Witness, Inv, Types, Rows
  <2>3. w.facts = old.facts /\ w.factsRecipe = <<old.facts.model, input>>
    BY <1>5, <2>1 DEF Witness, Mirrored, FactsRecipe
  <2>4. <<old.facts.model, input>> \in Model \X Nat
    BY <1>2, <1>4 DEF FactsDoc
  <2>5. w.factsRecipe = <<b.facts.model, b.facts.input>>
    BY <1>2, <2>2, <2>3, <2>4, NoneAssumption DEF RowOK
  <2>6. r = [facts |-> b.facts, context |-> b.context, brief |-> b.brief,
             factsRecipe |-> w.factsRecipe,
             standardsRecipe |-> <<b.facts, b.context.retriever>>,
             briefRecipe |-> <<b.facts, b.context, b.brief.model>>]
    BY <1>1, <1>5, <2>1 DEF ReviewedRecord, Mirrored, StandardsRecipe, BriefRecipe
  <2>7. b.context.retriever \in Retriever /\ b.brief.model \in Model
    BY <1>3 DEF ContextDoc, BriefDoc
  <2>8. w.factsRecipe \in (Model \X Nat) \cup {None}
    BY <2>2 DEF Row
  <2>9. r \in Row
    BY <1>3, <2>6, <2>7, <2>8 DEF Row
  <2>10. RowOK(r)
    BY <1>3, <2>5, <2>6 DEF RowOK
  <2> QED
    BY <2>9, <2>10
<1>6. CASE ~ Witness(index[s], old)
  <2>1. r = [facts |-> b.facts, context |-> b.context, brief |-> b.brief,
             factsRecipe |-> None, standardsRecipe |-> None, briefRecipe |-> None]
    BY <1>1, <1>6 DEF ReviewedRecord, Mirrored
  <2> QED
    BY <1>3, <2>1 DEF Row, RowOK
<1> QED
  BY <1>5, <1>6

LEMMA MirrorKeeps ==
  ASSUME Inv, NEW p \in Process, Mirror(p)
  PROVE  Inv'
<1>1. /\ op[p].pc = "mirror" /\ op[p].kind \in {"prepare", "review"} /\ op[p].scope \in Scope
      /\ lock = p /\ End(p) /\ UNCHANGED <<files, input, committed, ops, crashes>>
  BY CommandFacts DEF Mirror, KindOK, Inside, bounds
<1>2. PICK s \in Scope : s = op[p].scope
  BY <1>1
<1>3. PICK r : r = IF op[p].kind = "prepare" THEN PreparedRecord(p) ELSE ReviewedRecord(p)
  OBVIOUS
<1>4. r \in Row /\ RowOK(r)
  <2>1. CASE op[p].kind = "prepare"
    BY <1>1, <1>3, <2>1, PreparedRow
  <2>2. CASE op[p].kind = "review"
    BY <1>1, <1>3, <2>2, ReviewedRow
  <2> QED
    BY <1>1, <2>1, <2>2
<1>5. index' = [index EXCEPT ![s] = r] /\ index \in [Scope -> Row \cup {None}]
  BY <1>2, <1>3 DEF Mirror, Inv, Types
<1>6. index' \in [Scope -> Row \cup {None}]
  BY <1>4, <1>5
<1>7. Rows'
  <2>1. ASSUME NEW t \in Scope, index'[t] # None PROVE RowOK(index[t])'
    <3>1. CASE t = s
      <4>1. index'[t] = r
        BY <1>5, <3>1
      <4> QED
        BY <1>4, <4>1 DEF RowOK
    <3>2. CASE t # s
      <4>1. index'[t] = index[t]
        BY <1>5, <3>2
      <4>2. RowOK(index[t])
        BY <2>1, <4>1 DEF Inv, Rows
      <4> QED
        BY <4>1, <4>2 DEF RowOK
    <3> QED
      BY <3>1, <3>2
  <2> QED
    BY <2>1 DEF Rows
<1>8. /\ FilesOK' /\ files' \in [Scope -> Files] /\ input' \in 0 .. MaxInputs
      /\ \A x \in committed' : Together(x)
  BY <1>1 DEF Inv, Types, FilesOK, Vouched, Past
<1>9. /\ committed \subseteq committed' /\ crashes' \in Nat /\ crashes <= crashes' /\ ops' \in Nat
      /\ op[p].pc \in Inside
  BY <1>1, CommandFacts DEF Inside
<1>10. /\ op' = [op EXCEPT ![p] = NoOp] /\ NoOp \in OpState /\ CommandOK(NoOp)'
       /\ lock \in {None, p} /\ lock' \in {None, p} /\ lock' # p /\ NoOp.pc \notin Inside
  BY <1>1, <1>9, EndFacts
<1>11. Tidy'
  BY <1>1, <1>10, TidyStays
<1> QED
  BY <1>6, <1>7, <1>8, <1>9, <1>10, <1>11, Assemble

\* A conversion leaves nothing of the package.
LEMMA ConvertKeeps ==
  ASSUME Inv, NEW p \in Process, Convert(p)
  PROVE  Inv'
<1>1. /\ op[p].pc = "convert" /\ lock = p /\ End(p) /\ UNCHANGED <<committed, ops>>
      /\ files' = [s \in Scope |-> NoFiles] /\ input' \in 0 .. MaxInputs
      /\ index' = [s \in Scope |-> None] \/ index' = index
      /\ crashes' \in Nat /\ crashes <= crashes'
  BY CommandFacts DEF Convert, Inside
<1>2. files' \in [Scope -> Files] /\ \A t \in Scope : files'[t] = NoFiles
  BY <1>1, NoFilesType
<1>3. FilesOK'
  BY <1>2 DEF FilesOK, Vouched, Past, NoFiles
<1>4. Tidy'
  BY <1>2 DEF Tidy, Gone
<1>5. index' \in [Scope -> Row \cup {None}]
  BY <1>1 DEF Inv, Types
<1>6. Rows'
  BY <1>1 DEF Inv, Rows, RowOK
<1>7. \A x \in committed' : Together(x)
  BY <1>1 DEF Inv
<1>8. /\ committed \subseteq committed' /\ ops' \in Nat /\ op[p].pc \in Inside
  BY <1>1, CommandFacts DEF Inside
<1>9. /\ op' = [op EXCEPT ![p] = NoOp] /\ NoOp \in OpState /\ CommandOK(NoOp)'
      /\ lock \in {None, p} /\ lock' \in {None, p} /\ lock' # p /\ NoOp.pc \notin Inside
  BY <1>1, <1>8, EndFacts
<1> QED
  BY <1>1, <1>2, <1>3, <1>4, <1>5, <1>6, <1>7, <1>8, <1>9, Assemble
-----------------------------------------------------------------------------
(* A reader.                                                                *)

LEMMA ReadOrderFacts ==
  /\ \A i \in 1 .. 4 : ReadOrder[i] \in Name
  /\ \A i \in 1 .. 4 : ReadOrder[i] = "marker" <=> i = 1
  /\ Len(ReadOrder) = 4
BY DEF ReadOrder, Name

LEMMA ReadKeeps ==
  ASSUME Inv, NEW p \in Process, Read(p)
  PROVE  Inv'
<1>1. PICK w \in OpState : w = op[p]
  BY CommandFacts
<1>2. /\ w.pc = "read" /\ w.kind = "load" /\ w.scope \in Scope /\ w.at \in 1 .. 4
      /\ w.new \in Files /\ Vouched(w.new.marker)
      /\ UNCHANGED <<files, input, index, lock, committed, bounds>>
  BY <1>1, CommandFacts DEF Read, CommandOK, KindOK, Inside, OpState
<1>3. PICK s \in Scope, n \in Name, f \in Files : s = w.scope /\ n = ReadOrder[w.at] /\ f = files[s]
  BY <1>2, ReadOrderFacts, CommandFacts
<1>4. PICK b : b = [w.new EXCEPT ![n] = f[n]]
  OBVIOUS
<1>5. b \in Files /\ b[n] = f[n] /\ \A m \in Name : m # n => b[m] = w.new[m]
  <2>1. PICK c \in Files : c = w.new
    BY <1>2
  <2>2. b = With(c, n, f) /\ c \in Files /\ n \in Name /\ f \in Files
    BY <1>3, <1>4, <2>1 DEF With
  <2>3. b \in Files /\ b[n] = f[n] /\ \A m \in Name : m # n => b[m] = c[m]
    BY <2>2, PutOne
  <2> QED
    BY <2>1, <2>3
<1>6. b.marker \in {w.new.marker, f.marker}
  <2>1. b["marker"] \in {w.new["marker"], f["marker"]}
    BY <1>5 DEF Name
  <2> QED
    BY <2>1
<1>7. Vouched(b.marker)
  BY <1>2, <1>3, <1>6 DEF Inv, FilesOK
<1>8. PICK pc : pc = IF w.at = Len(ReadOrder) THEN "validate" ELSE "read"
  OBVIOUS
<1>9. pc \in {"read", "validate"} /\ (pc = "read" => w.at + 1 \in 1 .. 4) /\ w.at + 1 \in 1 .. 6
  BY <1>2, <1>8, ReadOrderFacts
<1>10. PICK o : o = [w EXCEPT !.new = b, !.at = w.at + 1, !.pc = pc]
  OBVIOUS
<1>11. /\ o \in OpState /\ o.pc = pc /\ o.at = w.at + 1 /\ o.kind = "load" /\ o.scope = s
       /\ o.new = b
  <2>1. pc \in Inside \cup Outside
    BY <1>9 DEF Outside
  <2>2. o \in OpState
    BY <1>5, <1>9, <1>10, <2>1 DEF OpState
  <2>3. o.pc = pc /\ o.at = w.at + 1 /\ o.kind = w.kind /\ o.scope = w.scope /\ o.new = b
    BY <1>10 DEF OpState
  <2> QED
    BY <1>2, <1>3, <2>2, <2>3
<1>12. CommandOK(o)
  <2>1. KindOK(o)
    BY <1>9, <1>11 DEF KindOK, Inside
  <2> QED
    BY <1>7, <1>9, <1>11, <2>1 DEF CommandOK
<1>13. op' = [op EXCEPT ![p] = o]
  BY <1>1, <1>3, <1>4, <1>8, <1>10, CommandFacts DEF Read
<1>14. o.pc \notin Inside /\ op[p].pc \notin Inside /\ op[p].pc \notin {"publish", "restore"}
  BY <1>1, <1>2, <1>9, <1>11 DEF Inside
<1>15. ops' \in Nat /\ UNCHANGED crashes
  BY <1>2, CommandFacts DEF bounds
<1> QED
  BY <1>2, <1>11, <1>12, <1>13, <1>14, <1>15, Alone

LEMMA ValidateKeeps ==
  ASSUME Inv, NEW p \in Process, Validate(p)
  PROVE  Inv'
<1>1. PICK w \in OpState : w = op[p]
  BY CommandFacts
<1>2. /\ w.pc = "validate" /\ w.kind = "load" /\ w.scope \in Scope /\ w.new \in Files
      /\ Vouched(w.new.marker) /\ input \in Nat /\ lock # p
      /\ UNCHANGED <<files, input, index, committed, bounds>>
  BY <1>1, CommandFacts DEF Validate, CommandOK, KindOK, Inside, OpState
<1>3. CASE Loadable(w.scope, w.new) /\ Go(p, "loaded") /\ UNCHANGED lock
  <2>1. ASSUME NEW o \in OpState, o = [op[p] EXCEPT !.pc = "loaded"] PROVE CommandOK(o)
    <3>1. o.pc = "loaded" /\ o.kind = "load" /\ o.scope = w.scope /\ o.new = w.new
      BY <1>1, <1>2, <2>1 DEF OpState
    <3>2. PICK b \in committed : /\ b.facts = w.new.facts /\ b.context = w.new.context
                                 /\ b.brief = w.new.brief
      BY <1>2, <1>3, LoadableFacts DEF Vouched
    <3>3. \A name \in {"facts", "context", "brief"} : b[name] = o.new[name]
      BY <3>1, <3>2
    <3>4. KindOK(o)
      BY <1>2, <3>1 DEF KindOK, Inside
    <3> QED
      BY <3>1, <3>3, <3>4 DEF CommandOK
  <2>2. /\ op[p].pc \notin {"publish", "restore"} /\ "loaded" \in Inside \cup Outside
        /\ "loaded" \notin Inside
    BY <1>1, <1>2 DEF Inside, Outside
  <2> QED
    BY <1>2, <1>3, <2>1, <2>2, GoQuiet
<1>4. CASE End(p)
  BY <1>1, <1>2, <1>4, CommandFacts, EndKeeps DEF bounds
<1> QED
  BY <1>1, <1>3, <1>4 DEF Validate
-----------------------------------------------------------------------------
(* The invariant is kept.                                                   *)

\* The lock may pass between others that are no commands.
LEMMA PackageKeeps ==
  ASSUME Inv, UNCHANGED <<files, input, index, op, committed, ops>>,
         crashes' \in Nat, crashes <= crashes', \A p \in Process : lock' = p <=> lock = p
  PROVE  Inv'
<1>1. Types' /\ Rows' /\ FilesOK' /\ Locking' /\ \A b \in committed' : Together(b)
  BY DEF Inv, Types, Rows, RowOK, FilesOK, Vouched, Past, Locking
<1>2. Commands'
  <2>1. ASSUME NEW q \in Process PROVE CommandOK(op[q])'
    <3>1. PICK o \in OpState : o = op[q]
      BY CommandFacts
    <3>2. CommandOK(o)'
      <4>1. CommandOK(o) /\ crashes \in Nat
        BY <3>1, CommandFacts
      <4> QED
        BY <4>1, StillOK
    <3>3. op'[q] = o
      BY <3>1
    <3> QED
      BY <3>2, <3>3, CommandAt
  <2> QED
    BY <2>1 DEF Commands
<1>3. Tidy'
  <2>1. crashes' = 0 => crashes = 0
    BY CommandFacts DEF Inv, Types
  <2> QED
    BY <2>1 DEF Inv, Tidy, Gone, Loadable, MarkerOf, Inputs, AtWork
<1>4. \A b \in committed' : Together(b)'
  BY <1>1 DEF Together
<1> QED
  BY <1>1, <1>2, <1>3, <1>4 DEF Inv

LEMMA StutterKeeps ==
  ASSUME Inv, UNCHANGED vars
  PROVE  Inv'
<1>1. crashes \in Nat
  BY DEF Inv, Types
<1> QED
  BY <1>1, PackageKeeps DEF vars

THEOREM InitInv == Init => Inv
<1> SUFFICES ASSUME Init PROVE Inv
  OBVIOUS
<1>1. /\ NoOp \in OpState /\ NoOp.pc = "idle" /\ CommandOK(NoOp) /\ NoFiles \in Files
  BY NoOpType, NoFilesType
<1>2. /\ \A s \in Scope : files[s] = NoFiles /\ index[s] = None
      /\ \A p \in Process : op[p] = NoOp
      /\ lock = None /\ committed = {} /\ input = 0
  BY DEF Init
<1>3. Types
  BY <1>1, BundleAssumption DEF Init, Types
<1>4. Rows
  BY <1>2 DEF Rows
<1>5. FilesOK
  BY <1>2 DEF FilesOK, Vouched, Past, NoFiles
<1>6. Locking
  BY <1>1, <1>2, NoneAssumption DEF Locking, Inside
<1>7. Commands
  BY <1>1, <1>2 DEF Commands
<1>8. Tidy
  BY <1>2 DEF Tidy, Gone
<1> QED
  BY <1>2, <1>3, <1>4, <1>5, <1>6, <1>7, <1>8 DEF Inv

\* A step of a process.
Command(p) ==
  Writers(p, Scope) \/ Readers(p) \/ Step(p) \/ Convert(p) \/ Fail(p) \/ Crash(p)

LEMMA CommandKeeps ==
  ASSUME Inv, NEW p \in Process, Command(p)
  PROVE  Inv'
<1>1. CASE Step(p)
  BY <1>1, ProbeKeeps, ConnectKeeps, LockKeeps, PlanKeeps, HitKeeps, MakeKeeps, ReplaceKeeps,
     RestoreKeeps, ReviewKeeps, MirrorKeeps, ReadKeeps, ValidateKeeps, ReturnKeeps DEF Step
<1>2. CASE Writers(p, Scope) \/ Readers(p)
  BY <1>2, BeginsKeep
<1>3. CASE Convert(p) \/ Fail(p) \/ Crash(p)
  BY <1>3, ConvertKeeps, FailKeeps, CrashKeeps
<1> QED
  BY <1>1, <1>2, <1>3 DEF Command

\* Every step of every command, every fault, death and conversion keeps it.
THEOREM InvStep == Inv /\ [Next]_vars => Inv'
BY CommandKeeps, StutterKeeps DEF Next, Command

THEOREM Invariance == Spec => []Inv
BY InitInv, InvStep, PTL DEF Spec
-----------------------------------------------------------------------------
(* What it says.                                                            *)

LEMMA TypesHold ==
  ASSUME Inv
  PROVE  TypeOK
<1>1. ASSUME NEW s \in Scope, files[s].facts # None PROVE files[s].facts.input \in 0 .. input
  <2>1. PICK b \in Files : b = files[s]
    BY CommandFacts DEF Inv, Types
  <2>2. b.facts \in FactsDoc
    BY <1>1, <2>1 DEF Files
  <2>3. b.facts.input \in Nat /\ b.facts.input <= input /\ input \in Nat
    BY <1>1, <2>1, <2>2, Numbers DEF FactsDoc, Inv, Types, FilesOK, Past
  <2> QED
    BY <2>1, <2>3
<1>2. ASSUME NEW p \in Process
      PROVE  /\ op[p].at \in 1 .. Len(Order) + 1
             /\ lock = p <=> op[p].pc \in {"prepare", "review", "convert", "hit", "make", "publish",
                                           "restore", "mirror"}
  BY CommandFacts, OrderFacts DEF OpState, Inside
<1>3. input \in 0 .. MaxInputs
  BY DEF Inv, Types
<1> QED
  BY <1>1, <1>2, <1>3 DEF TypeOK

LEMMA Loaded ==
  ASSUME Inv
  PROVE  LoadedWasCommitted
BY CommandFacts DEF CommandOK, LoadedWasCommitted

LEMMA Answers ==
  ASSUME Inv
  PROVE  AnswerFitsTheCommand
<1> SUFFICES ASSUME NEW p \in Process, op[p].kind = "prepare", op[p].pc \in {"hit", "mirror"}
             PROVE  /\ Whole(op[p].scope) /\ Fits(op[p], files[op[p].scope])
  BY DEF AnswerFitsTheCommand, Fits
<1>1. CASE op[p].pc = "hit"
  BY <1>1, CommandFacts DEF CommandOK
<1>2. CASE op[p].pc = "mirror"
  <2>1. PICK s \in Scope, f \in Files, b \in Files : s = op[p].scope /\ f = files[s] /\ b = op[p].new
    BY CommandFacts DEF KindOK, Inside, OpState
  <2>2. NewOK(op[p]) /\ Done(op[p], b) /\ op[p].at = 6
    BY <1>2, <2>1, CommandFacts DEF CommandOK
  <2>3. ASSUME NEW n \in Name PROVE f[n] = b[n]
    <3>1. PICK i \in 1 .. 5 : Order[i] = n
      BY OrderFacts
    <3>2. files[s][Order[i]] = b[Order[i]]
      BY <2>1, <2>2 DEF Done
    <3> QED
      BY <2>1, <3>1, <3>2
  <2>4. f = b
    BY <2>3, SameFiles
  <2> QED
    BY <2>1, <2>2, <2>4 DEF NewOK, Whole
<1> QED
  BY <1>1, <1>2

LEMMA RecipesHold ==
  ASSUME Inv
  PROVE  RecipesAreTrue
<1> SUFFICES ASSUME NEW s \in Scope, index[s] # None, Whole(s)
             PROVE  LET b == files[s]
                        r == index[s]
                    IN /\ r.facts = b.facts => r.factsRecipe \in {None, <<b.facts.model, b.facts.input>>}
                       /\ r.context = b.context =>
                            r.standardsRecipe \in {None, <<b.facts, b.context.retriever>>}
                       /\ r.brief = b.brief =>
                            r.briefRecipe \in {None, <<b.facts, b.context, b.brief.model>>}
  BY DEF RecipesAreTrue, StandardsRecipe, BriefRecipe
<1>1. RowOK(index[s])
  BY DEF Inv, Rows
<1>2. PICK b \in Files : b = files[s]
  BY DEF Inv, Types
<1>3. b.context.of = b.facts /\ b.brief.of = b.facts /\ b.brief.with = b.context
  BY <1>2 DEF Whole, Loadable, BundleValid, UpstreamValid
<1> QED
  BY <1>1, <1>2, <1>3 DEF RowOK

LEMMA WholeHolds ==
  ASSUME Inv, crashes = 0
  PROVE  WholeWhenFree
<1> SUFFICES ASSUME lock = None, NEW s \in Scope PROVE Gone(s, files[s])
  BY DEF WholeWhenFree, Gone, Whole
<1>1. ~ AtWork(s)
  <2>1. ASSUME NEW q \in Process, op[q].pc \in {"publish", "restore"} PROVE FALSE
    <3>1. lock = q
      BY <2>1, CommandFacts DEF Inside
    <3> QED
      BY <3>1, NoneAssumption
  <2> QED
    BY <2>1 DEF AtWork
<1> QED
  BY <1>1 DEF Inv, Tidy

\* A bundle is one bundle: readers without the lock are given what was committed,
\* a preparation answers what was asked for, a verdict is one of facts and brief,
\* the index vouches for nothing with a recipe that did not make it, and a write
\* that fails leaves every scope readable (audit/prepare.py, audit/review.py).
THEOREM BundlesTrue == Spec => []BundlesAreTrue
<1>1. Inv => BundlesAreTrue
  <2> SUFFICES ASSUME Inv PROVE BundlesAreTrue
    OBVIOUS
  <2>1. ReviewedTogether
    BY DEF Inv, Together, ReviewedTogether
  <2> QED
    BY <2>1, TypesHold, Loaded, Answers, RecipesHold, WholeHolds DEF BundlesAreTrue
<1> QED
  BY <1>1, Invariance, PTL

-----------------------------------------------------------------------------
(***************************************************************************)
(* Second part. The aggregates of the committed sheets, for any workers    *)
(* beside the processes.                                                   *)
(*                                                                         *)
(* The argument.  No worker is a process, so the invariant of the bundles  *)
(* holds under the aggregation as it is (PackageKeeps).  A capture is of   *)
(* the conversion its manifest names or of an earlier one; while it is of  *)
(* the current one, each of its bundles is one a loader accepts            *)
(* (CaptureOK).  What is looked at again under the lock stays so until the *)
(* commit is written, because nobody else changes a file (JobStays).  The  *)
(* pair of a selection is equal whenever nobody is at work on it (Pairs),  *)
(* so that what a failed publication puts back is a pair.                  *)
(***************************************************************************)

\* What is captured of some sheets, and the document made of it.
Captures == UNION {[d -> Files] : d \in SUBSET Sheet}
CaptureState ==
  [input : Nat, committed : SUBSET Sheet, sheets : SUBSET Sheet, scopes : Captures]
InputState ==
  [input : Nat, committed : SUBSET Sheet,
   scopes : UNION {[d -> Marker \cup {None}] : d \in SUBSET Sheet}]
AggregateDoc == [id : Nat, inputs : InputState, model : Model \cup {None}]
Stored == [brief : AggregateDoc \cup {None}, commit : AggregateDoc \cup {None}]

\* Where a worker is while it holds the lock, from where on it has begun its
\* capture and from where on it has all of it.
Held == {"brief", "marker", "undobrief", "undocommit"}
Captured == {"cache", "compare", "call", "publish", "brief", "marker", "answer"}
Capturing == Captured \cup {"capture"}
JobPoint == Held \cup Capturing \cup {"idle", "begin", "commit", "document"}

JobState ==
  [pc : JobPoint, load : BOOLEAN, selection : Selection \cup {None}, force : BOOLEAN,
   model : Model \cup {None}, capture : CaptureState, brief : AggregateDoc \cup {None},
   commit : AggregateDoc \cup {None}, old : Stored]

JobTypes ==
  /\ job \in [Worker -> JobState] /\ jobs \in Nat
  /\ agg \in [Selection -> Stored]

\* A marker of a sheet that is ready and that no reviewer rejected.
Clean(m) ==
  m.brief.ready /\ m.facts.review.status # "rejected" /\ m.brief.review.status # "rejected"

CleanInputs(i) == \A s \in DOMAIN i.scopes : Clean(i.scopes[s])
CleanDoc(d) == d # None => CleanInputs(d.inputs)

\* A capture is of this conversion or of an earlier one; while it is of this
\* one, each bundle of it is one that a loader accepts.
CaptureOK(c) ==
  /\ DOMAIN c.scopes \subseteq c.sheets
  /\ c.input <= input
  /\ c.input = input => \A s \in DOMAIN c.scopes : Loadable(s, c.scopes[s])
  /\ \A s \in DOMAIN c.scopes : Clean(c.scopes[s].marker)

\* A publication that fails puts back one pair.
UndoOK(j) ==
  /\ j.old.brief = j.old.commit
  /\ j.pc = "marker" => agg[j.selection].brief = j.brief
  /\ j.pc = "undocommit" => agg[j.selection].brief = j.old.brief

JobOK(j) ==
  /\ j.pc # "idle" => j.selection \in Selection
  /\ CaptureOK(j.capture)
  /\ j.pc \in Capturing /\ j.selection = All => j.capture.sheets = j.capture.committed
  /\ j.pc \in Captured => DOMAIN j.capture.scopes = j.capture.sheets
  /\ j.pc \in {"publish", "brief", "marker", "answer"} => j.brief.inputs = InputsOf(j.capture)
  /\ j.pc \in {"brief", "marker"} => Unchanged(j.capture)
  /\ j.pc \in Held => CleanDoc(j.old.commit)
  /\ j.pc \in Held /\ crashes = 0 => UndoOK(j)

Jobs == \A w \in Worker : JobOK(job[w])
Holders == \A w \in Worker : lock = w <=> job[w].pc \in Held

\* Without deaths, the files of a selection are a pair or somebody is at work.
AtPair(x) == \E w \in Worker : job[w].pc \in Held /\ job[w].selection = x
Pairs == crashes = 0 => \A x \in Selection : agg[x].brief = agg[x].commit \/ AtPair(x)

AggregateInv ==
  /\ Inv /\ JobTypes /\ Jobs /\ Holders /\ Pairs
  /\ \A x \in Selection : CleanDoc(agg[x].commit)

-----------------------------------------------------------------------------
(* What a command of a process does to a worker.                            *)

\* Only the holder of the lock changes the files and the package.
LEMMA CommandEffects ==
  ASSUME Inv, NEW p \in Process, Command(p)
  PROVE  /\ lock' = lock \/ (lock \in {None, p} /\ lock' \in {None, p})
         /\ lock = p \/ UNCHANGED <<files, input>>
         /\ input \in Nat /\ input' \in Nat /\ input <= input'
         /\ crashes \in Nat /\ crashes' \in Nat /\ crashes <= crashes'
<1>1. /\ lock = p <=> op[p].pc \in Inside
      /\ input \in Nat /\ crashes \in Nat
  BY CommandFacts
<1>2. input' \in Nat /\ crashes' \in Nat
  BY CommandKeeps, Numbers DEF Inv, Types
<1>3. ASSUME NEW o, Begin(p, o)
      PROVE  UNCHANGED <<files, input, lock, crashes>>
  BY <1>3 DEF Begin
<1>4. CASE Writers(p, Scope) \/ Readers(p)
  <2>1. UNCHANGED <<files, input, lock, crashes>>
    <3>1. CASE \E s \in Scope, m \in Model, force \in BOOLEAN : BeginPrepare(p, s, m, force)
      BY <1>3, <3>1 DEF BeginPrepare
    <3>2. CASE \E s \in Scope, verdict \in {"approved", "rejected"} : BeginReview(p, s, verdict)
      BY <1>3, <3>2 DEF BeginReview
    <3>3. CASE BeginConvert(p)
      BY <1>3, <3>3 DEF BeginConvert
    <3>4. CASE Readers(p)
      BY <1>3, <3>4 DEF Readers, BeginLoad
    <3> QED
      BY <1>4, <3>1, <3>2, <3>3, <3>4 DEF Writers
  <2> QED
    BY <1>1, <1>2, <2>1
<1>5. ASSUME Leave(p) PROVE lock' = lock \/ (lock \in {None, p} /\ lock' \in {None, p})
  BY <1>5 DEF Leave
<1>6. CASE Probe(p) \/ Connect(p) \/ Lock(p) \/ Plan(p) \/ Make(p) \/ Review(p)
  <2>1. UNCHANGED <<files, input, crashes>>
    BY <1>6 DEF Probe, Connect, Lock, Plan, Make, Review, bounds
  <2>2. lock' = lock \/ (lock \in {None, p} /\ lock' \in {None, p})
    BY <1>5, <1>6 DEF Probe, Connect, Lock, Plan, Make, Review, Publish, End
  <2> QED
    BY <1>1, <1>2, <2>1, <2>2
<1>7. CASE Mirror(p) \/ Read(p) \/ Validate(p) \/ Return(p)
  <2>1. UNCHANGED <<files, input, crashes>>
    BY <1>7 DEF Mirror, Read, Validate, Return, bounds
  <2>2. lock' = lock \/ (lock \in {None, p} /\ lock' \in {None, p})
    BY <1>5, <1>7 DEF Mirror, Read, Validate, Return, End
  <2> QED
    BY <1>1, <1>2, <2>1, <2>2
<1>8. CASE Hit(p) \/ Replace(p) \/ Restore(p)
  <2>1. lock = p /\ UNCHANGED <<input, crashes>>
    BY <1>1, <1>8 DEF Hit, Replace, Restore, Inside, bounds
  <2>2. lock' = lock \/ (lock \in {None, p} /\ lock' \in {None, p})
    BY <1>5, <1>8 DEF Hit, Replace, Restore, End
  <2> QED
    BY <1>1, <1>2, <2>1, <2>2
<1>9. CASE Convert(p)
  <2>1. lock = p /\ input <= input' /\ crashes <= crashes'
    BY <1>1, <1>9 DEF Convert, Inside
  <2>2. lock' = lock \/ (lock \in {None, p} /\ lock' \in {None, p})
    BY <1>5, <1>9 DEF Convert, End
  <2> QED
    BY <1>1, <1>2, <2>1, <2>2
<1>10. CASE Fail(p) \/ Crash(p)
  <2>1. UNCHANGED <<files, input>> /\ crashes <= crashes'
    BY <1>1, <1>10 DEF Fail, Crash
  <2>2. lock' = lock \/ (lock \in {None, p} /\ lock' \in {None, p})
    BY <1>5, <1>10 DEF Fail, Crash, End
  <2> QED
    BY <1>1, <1>2, <2>1, <2>2
<1> QED
  BY <1>4, <1>6, <1>7, <1>8, <1>9, <1>10 DEF Command, Step

\* What a worker knows stays true while the package grows older, and while it
\* holds the lock nobody changes what it has looked at.
LEMMA CaptureStays ==
  ASSUME NEW c \in CaptureState, CaptureOK(c), input \in Nat, input' \in Nat, input <= input'
  PROVE  CaptureOK(c)'
<1>1. c.input \in Nat
  BY DEF CaptureState
<1>2. c.input <= input'
  BY <1>1 DEF CaptureOK
<1>3. ASSUME c.input = input', NEW s \in DOMAIN c.scopes PROVE Loadable(s, c.scopes[s])'
  <2>1. input' = input /\ c.input = input
    BY <1>1, <1>3 DEF CaptureOK
  <2> QED
    BY <2>1, <1>3 DEF CaptureOK, Loadable, MarkerOf, Inputs
<1> QED
  BY <1>2, <1>3 DEF CaptureOK

LEMMA JobStays ==
  ASSUME NEW j \in JobState, JobOK(j), input \in Nat, input' \in Nat, input <= input',
         crashes \in Nat, crashes' \in Nat, crashes <= crashes',
         j.pc \in Held => UNCHANGED <<files, input, agg>>
  PROVE  JobOK(j)'
<1>1. CaptureOK(j.capture)'
  BY CaptureStays DEF JobOK, JobState
<1>2. j.pc \in {"brief", "marker"} => Unchanged(j.capture)'
  BY DEF JobOK, Unchanged, CommittedSheets, Held
<1>3. j.pc \in Held /\ crashes' = 0 => UndoOK(j)'
  BY DEF JobOK, UndoOK
<1>4. j.pc \in {"publish", "brief", "marker", "answer"} => j.brief.inputs = InputsOf(j.capture)
  BY DEF JobOK
<1> QED
  BY <1>1, <1>2, <1>3, <1>4 DEF JobOK

LEMMA JobAt ==
  ASSUME NEW j, NEW w, job'[w] = j, JobOK(j)'
  PROVE  JobOK(job[w])'
BY DEF JobOK, CaptureOK, UndoOK, Unchanged, CommittedSheets, Loadable, MarkerOf, Inputs

-----------------------------------------------------------------------------
(* Steps of a worker.                                                       *)

LEMMA NoJobFacts ==
  /\ NoJob \in JobState /\ NoJob.pc = "idle" /\ NoJob.capture = NoCapture
  /\ NoCapture \in CaptureState /\ NoAggregate \in Stored
<1>1. [s \in {} |-> None] \in [{} -> Files] /\ {} \in SUBSET Sheet
  OBVIOUS
<1>2. [s \in {} |-> None] \in Captures
  BY <1>1 DEF Captures
<1>3. NoCapture \in CaptureState
  BY <1>2 DEF NoCapture, CaptureState
<1>4. NoAggregate \in Stored
  BY DEF NoAggregate, Stored
<1>5. NoJob \in JobState /\ NoJob.pc = "idle" /\ NoJob.capture = NoCapture
  BY <1>3, <1>4 DEF NoJob, JobState, JobPoint
<1> QED
  BY <1>3, <1>4, <1>5

LEMMA NoCaptureOK ==
  ASSUME input \in Nat
  PROVE  CaptureOK(NoCapture)
BY DEF CaptureOK, NoCapture

LEMMA NoJobOK ==
  ASSUME input \in Nat
  PROVE  JobOK(NoJob)
BY NoJobFacts, NoCaptureOK DEF JobOK, Capturing, Captured, Held

LEMMA JobFacts ==
  ASSUME AggregateInv, NEW w \in Worker
  PROVE  /\ job \in [Worker -> JobState] /\ job[w] \in JobState /\ JobOK(job[w])
         /\ lock = w <=> job[w].pc \in Held
         /\ agg \in [Selection -> Stored] /\ jobs \in Nat
         /\ files \in [Scope -> Files] /\ input \in Nat /\ crashes \in Nat /\ ops \in Nat
BY Numbers DEF AggregateInv, JobTypes, Jobs, Holders, Inv, Types

\* One step of one worker: what is left to show of it.
LEMMA WorkerStep ==
  ASSUME AggregateInv, NEW w \in Worker, NEW j \in JobState, job' = [job EXCEPT ![w] = j],
         UNCHANGED <<files, input, index, op, committed, ops>>,
         crashes' \in Nat, crashes <= crashes', jobs' \in Nat,
         lock' = lock \/ (lock \in {None, w} /\ lock' \in {None, w}),
         lock' = w <=> j.pc \in Held,
         agg' \in [Selection -> Stored], UNCHANGED agg \/ job[w].pc \in Held,
         JobOK(j)',
         \A x \in Selection :
           crashes' = 0 /\ (agg[x].brief = agg[x].commit
                            \/ (job[w].pc \in Held /\ job[w].selection = x)) =>
             agg'[x].brief = agg'[x].commit \/ (j.pc \in Held /\ j.selection = x),
         \A x \in Selection : CleanDoc(agg'[x].commit)
  PROVE  AggregateInv'
<1>1. /\ job \in [Worker -> JobState] /\ input \in Nat /\ crashes \in Nat
      /\ lock = w <=> job[w].pc \in Held
  BY JobFacts
<1>2. /\ job' \in [Worker -> JobState] /\ job'[w] = j
      /\ \A v \in Worker : v # w => job'[v] = job[v]
  BY <1>1
<1>3. Inv'
  <2>1. \A p \in Process : lock' = p <=> lock = p
    BY AggregateAssumption, NoneAssumption
  <2> QED
    BY <2>1, PackageKeeps DEF AggregateInv
<1>4. JobTypes'
  BY <1>2 DEF JobTypes
<1>5. Jobs'
  <2>1. ASSUME NEW v \in Worker, v # w PROVE JobOK(job[v])'
    <3>1. PICK x \in JobState : x = job[v]
      BY <1>1
    <3>2. JobOK(x) /\ (lock = v <=> x.pc \in Held)
      BY <3>1, JobFacts
    <3>3. x.pc \in Held => UNCHANGED <<files, input, agg>>
      BY <1>1, <2>1, <3>2
    <3>4. JobOK(x)'
      BY <1>1, <3>2, <3>3, JobStays
    <3> QED
      BY <1>2, <2>1, <3>1, <3>4, JobAt
  <2>2. JobOK(job[w])'
    BY <1>2, JobAt
  <2> QED
    BY <2>1, <2>2 DEF Jobs
<1>6. Holders'
  <2>1. ASSUME NEW v \in Worker PROVE lock' = v <=> job'[v].pc \in Held
    <3>1. CASE v = w
      BY <1>2, <3>1
    <3>2. CASE v # w
      <4>1. lock = v <=> job[v].pc \in Held
        BY JobFacts
      <4>2. lock' = v <=> lock = v
        BY <3>2, AggregateAssumption
      <4> QED
        BY <1>2, <3>2, <4>1, <4>2
    <3> QED
      BY <3>1, <3>2
  <2> QED
    BY <2>1 DEF Holders
<1>7. Pairs'
  <2> SUFFICES ASSUME crashes' = 0, NEW x \in Selection
               PROVE  agg'[x].brief = agg'[x].commit \/ AtPair(x)'
    BY DEF Pairs
  <2>1. agg[x].brief = agg[x].commit \/ AtPair(x)
    BY <1>1 DEF AggregateInv, Pairs
  <2>2. CASE agg[x].brief = agg[x].commit \/ (job[w].pc \in Held /\ job[w].selection = x)
    BY <1>2, <2>2 DEF AtPair
  <2>3. CASE \E v \in Worker : v # w /\ job[v].pc \in Held /\ job[v].selection = x
    BY <1>2, <2>3 DEF AtPair
  <2> QED
    BY <2>1, <2>2, <2>3 DEF AtPair
<1>8. \A x \in Selection : CleanDoc(agg[x].commit)'
  BY DEF CleanDoc, CleanInputs, Clean
<1> QED
  BY <1>3, <1>4, <1>5, <1>6, <1>7, <1>8 DEF AggregateInv

\* A step that leaves what is stored alone.
LEMMA WorkerQuiet ==
  ASSUME AggregateInv, NEW w \in Worker, NEW j \in JobState, job' = [job EXCEPT ![w] = j],
         UNCHANGED <<files, input, index, op, committed, ops, agg>>,
         crashes' \in Nat, crashes <= crashes', jobs' \in Nat,
         lock' = lock \/ (lock \in {None, w} /\ lock' \in {None, w}),
         lock' = w <=> j.pc \in Held, JobOK(j),
         crashes' = 0 /\ job[w].pc \in Held =>
           j.pc \in Held /\ j.selection = job[w].selection
  PROVE  AggregateInv'
<1>1. input \in Nat /\ crashes \in Nat /\ agg \in [Selection -> Stored]
  BY JobFacts
<1>2. JobOK(j)'
  BY <1>1, JobStays
<1>3. \A x \in Selection : CleanDoc(agg'[x].commit)
  BY DEF AggregateInv
<1> QED
  BY <1>1, <1>2, <1>3, WorkerStep

\* A worker that stops.
LEMMA JobEnds ==
  ASSUME AggregateInv, NEW w \in Worker, JobEnd(w),
         UNCHANGED <<files, input, index, op, committed, ops, agg>>,
         crashes' \in Nat, crashes <= crashes', jobs' \in Nat,
         crashes' = 0 => job[w].pc \notin Held
  PROVE  AggregateInv'
<1>1. /\ NoJob \in JobState /\ NoJob.pc \notin Held /\ JobOK(NoJob)
  BY JobFacts, NoJobFacts, NoJobOK DEF Held
<1>2. /\ lock' = lock \/ (lock \in {None, w} /\ lock' \in {None, w})
      /\ lock' # w
  BY AggregateAssumption DEF JobEnd
<1>3. job' = [job EXCEPT ![w] = NoJob]
  BY DEF JobEnd
<1> QED
  BY <1>1, <1>2, <1>3, WorkerQuiet

LEMMA JobGoFacts ==
  ASSUME AggregateInv, NEW w \in Worker, NEW pc \in JobPoint, JobGo(w, pc)
  PROVE  \E j \in JobState :
           /\ job' = [job EXCEPT ![w] = j]
           /\ j.pc = pc /\ j.load = job[w].load /\ j.selection = job[w].selection
           /\ j.force = job[w].force /\ j.model = job[w].model
           /\ j.capture = job[w].capture /\ j.brief = job[w].brief
           /\ j.commit = job[w].commit /\ j.old = job[w].old
<1>1. PICK x \in JobState : x = job[w]
  BY JobFacts
<1>2. PICK j : j = [x EXCEPT !.pc = pc]
  OBVIOUS
<1>3. /\ j \in JobState
      /\ j.pc = pc /\ j.load = x.load /\ j.selection = x.selection
      /\ j.force = x.force /\ j.model = x.model
      /\ j.capture = x.capture /\ j.brief = x.brief
      /\ j.commit = x.commit /\ j.old = x.old
  BY <1>2 DEF JobState
<1>4. job' = [job EXCEPT ![w] = j]
  BY <1>1, <1>2, JobFacts DEF JobGo
<1> QED
  BY <1>1, <1>3, <1>4

LEMMA SelectionFacts ==
  ASSUME AggregateInv, NEW x \in Selection
  PROVE  Sheets(x) \in SUBSET Sheet /\ CommittedSheets \in SUBSET Sheet
BY DEF Sheets, Selection, CommittedSheets

LEMMA InputsType ==
  ASSUME NEW c \in CaptureState
  PROVE  InputsOf(c) \in InputState
<1>1. PICK d \in SUBSET Sheet : c.scopes \in [d -> Files]
  BY DEF CaptureState, Captures
<1>2. [s \in DOMAIN c.scopes |-> c.scopes[s].marker] \in [d -> Marker \cup {None}]
  BY <1>1 DEF Files
<1>3. c.input \in Nat /\ c.committed \in SUBSET Sheet
  BY DEF CaptureState
<1>4. [s \in DOMAIN c.scopes |-> c.scopes[s].marker]
        \in UNION {[e -> Marker \cup {None}] : e \in SUBSET Sheet}
  BY <1>2
<1> QED
  BY <1>3, <1>4 DEF InputsOf, InputState

\* What is made of a capture is clean.
LEMMA InputsClean ==
  ASSUME NEW c, CaptureOK(c)
  PROVE  CleanInputs(InputsOf(c))
BY DEF CaptureOK, CleanInputs, InputsOf

LEMMA BeginJobKeeps ==
  ASSUME AggregateInv, NEW w \in Worker, NEW x \in Selection, NEW load \in BOOLEAN,
         NEW force \in BOOLEAN, NEW m \in Model, BeginJob(w, x, load, force, m)
  PROVE  AggregateInv'
<1>1. PICK pc : pc = IF load THEN "commit" ELSE "begin"
  OBVIOUS
<1>2. PICK z \in JobState : z = NoJob
  BY NoJobFacts
<1>3. PICK j : j = [z EXCEPT !.pc = pc, !.load = load, !.selection = x, !.force = force,
                             !.model = m]
  OBVIOUS
<1>4. pc \in {"commit", "begin"} /\ pc \in JobPoint
  BY <1>1 DEF JobPoint
<1>5. j \in JobState /\ j.pc = pc /\ j.selection = x /\ j.capture = NoCapture
  BY <1>2, <1>3, <1>4, NoJobFacts DEF JobState
<1>6. JobOK(j) /\ j.pc \notin Held
  BY <1>4, <1>5, JobFacts, NoCaptureOK DEF JobOK, Held, Capturing, Captured
<1>7. /\ job' = [job EXCEPT ![w] = j] /\ job[w].pc = "idle" /\ jobs' = jobs + 1
      /\ UNCHANGED <<package, lock, agg>>
  BY <1>1, <1>2, <1>3 DEF BeginJob
<1>8. lock # w /\ jobs' \in Nat /\ crashes' \in Nat /\ crashes <= crashes' /\ job[w].pc \notin Held
  BY <1>7, JobFacts DEF Held, package
<1>9. UNCHANGED <<files, input, index, op, committed, ops, agg, lock>>
  BY <1>7 DEF package
<1> QED
  BY <1>5, <1>6, <1>7, <1>8, <1>9, WorkerQuiet

\* What the steps of a worker leave alone.
LEMMA QuietFacts ==
  ASSUME AggregateInv, NEW w \in Worker, UNCHANGED <<package, jobs>>
  PROVE  /\ UNCHANGED <<files, input, index, op, committed, ops, crashes>>
         /\ crashes' \in Nat /\ crashes <= crashes' /\ jobs' \in Nat
BY JobFacts DEF package

\* A worker without the lock that gives up or stays.
LEMMA GivesUp ==
  ASSUME AggregateInv, NEW w \in Worker, UNCHANGED <<package, agg, jobs>>, JobEnd(w),
         job[w].pc \notin Held
  PROVE  AggregateInv'
BY QuietFacts, JobEnds

LEMMA GoesOn ==
  ASSUME AggregateInv, NEW w \in Worker, UNCHANGED <<package, agg, jobs, lock>>,
         job[w].pc \notin Held, NEW j \in JobState, job' = [job EXCEPT ![w] = j], j.pc \notin Held,
         JobOK(j)
  PROVE  AggregateInv'
<1>1. lock' # w /\ UNCHANGED agg /\ UNCHANGED lock
  BY JobFacts
<1> QED
  BY <1>1, QuietFacts, WorkerQuiet

LEMMA BeginCaptureKeeps ==
  ASSUME AggregateInv, NEW w \in Worker, BeginCapture(w)
  PROVE  AggregateInv'
<1>1. /\ job[w].pc = "begin" /\ job[w].pc \notin Held /\ UNCHANGED <<package, agg, jobs>>
      /\ job[w].selection \in Selection
  BY JobFacts DEF BeginCapture, Held, JobOK
<1>2. CASE JobEnd(w)
  BY <1>1, <1>2, GivesUp
<1>3. CASE /\ UNCHANGED lock
           /\ job' = [job EXCEPT ![w].pc = "capture", ![w].capture =
                        [NoCapture EXCEPT !.input = input, !.committed = CommittedSheets,
                                          !.sheets = Sheets(job[w].selection)]]
  <2>1. PICK k \in CaptureState : k = NoCapture
    BY NoJobFacts
  <2>2. PICK c : c = [k EXCEPT !.input = input, !.committed = CommittedSheets,
                               !.sheets = Sheets(job[w].selection)]
    OBVIOUS
  <2>3. /\ c \in CaptureState /\ c.input = input /\ c.committed = CommittedSheets
        /\ c.sheets = Sheets(job[w].selection) /\ c.scopes = k.scopes
    BY <1>1, <2>2, SelectionFacts, JobFacts DEF CaptureState
  <2>4. DOMAIN k.scopes = {}
    BY <2>1 DEF NoCapture
  <2>5. CaptureOK(c)
    BY <2>3, <2>4, JobFacts DEF CaptureOK
  <2>6. PICK x \in JobState : x = job[w]
    BY JobFacts
  <2>7. PICK j : j = [x EXCEPT !.pc = "capture", !.capture = c]
    OBVIOUS
  <2>8. "capture" \in JobPoint
    BY DEF JobPoint, Capturing
  <2>9. j \in JobState /\ j.pc = "capture" /\ j.capture = c /\ j.selection = x.selection
    BY <2>3, <2>7, <2>8 DEF JobState
  <2>10. j.selection = All => c.sheets = c.committed
    BY <2>3, <2>6, <2>9 DEF Sheets
  <2>11. JobOK(j) /\ j.pc \notin Held
    BY <1>1, <2>5, <2>6, <2>9, <2>10 DEF JobOK, Held, Captured
  <2>12. job' = [job EXCEPT ![w] = j]
    BY <1>3, <2>1, <2>2, <2>6, <2>7, JobFacts
  <2> QED
    BY <1>1, <1>3, <2>9, <2>11, <2>12, GoesOn
<1> QED
  BY <1>2, <1>3 DEF BeginCapture

LEMMA CaptureKeeps ==
  ASSUME AggregateInv, NEW w \in Worker, Capture(w)
  PROVE  AggregateInv'
<1>1. PICK x \in JobState : x = job[w]
  BY JobFacts
<1>2. PICK c \in CaptureState : c = x.capture
  BY DEF JobState
<1>3. /\ x.pc = "capture" /\ job[w].pc \notin Held /\ UNCHANGED <<package, agg, jobs>>
      /\ x.selection \in Selection /\ JobOK(x) /\ CaptureOK(c)
      /\ x.selection = All => c.sheets = c.committed
  BY <1>1, <1>2, JobFacts DEF Capture, Held, JobOK, Capturing
<1>4. CASE JobEnd(w)
  BY <1>3, <1>4, GivesUp
<1>5. ASSUME NEW pc \in {"compare", "cache"}, c.sheets \ DOMAIN c.scopes = {}, JobGo(w, pc),
             UNCHANGED lock
      PROVE  AggregateInv'
  <2>1. pc \in JobPoint /\ pc \notin Held
    BY DEF JobPoint, Capturing, Captured, Held
  <2>2. PICK j \in JobState : /\ job' = [job EXCEPT ![w] = j] /\ j.pc = pc
                              /\ j.selection = x.selection /\ j.capture = c
    BY <1>1, <1>2, <1>5, <2>1, JobGoFacts
  <2>3. DOMAIN c.scopes = c.sheets
    BY <1>3, <1>5 DEF CaptureOK
  <2>4. JobOK(j)
    BY <1>3, <2>1, <2>2, <2>3 DEF JobOK, Held
  <2> QED
    BY <1>3, <1>5, <2>1, <2>2, <2>4, GoesOn
<1>6. ASSUME NEW s \in c.sheets \ DOMAIN c.scopes, Usable(s), UNCHANGED lock,
             job' = [job EXCEPT ![w].capture.scopes =
                       [y \in DOMAIN c.scopes \cup {s} |->
                          IF y = s THEN files[s] ELSE c.scopes[y]]]
      PROVE  AggregateInv'
  <2>1. PICK g : g = [y \in DOMAIN c.scopes \cup {s} |-> IF y = s THEN files[s] ELSE c.scopes[y]]
    OBVIOUS
  <2>2. g \in Captures
    <3>1. PICK d \in SUBSET Sheet : c.scopes \in [d -> Files]
      BY DEF CaptureState, Captures
    <3>2. s \in Sheet /\ s \in Scope /\ files[s] \in Files
      BY JobFacts DEF CaptureState, Scope
    <3>3. g \in [d \cup {s} -> Files] /\ d \cup {s} \in SUBSET Sheet
      BY <2>1, <3>1, <3>2
    <3> QED
      BY <3>3 DEF Captures
  <2>3. PICK n : n = [c EXCEPT !.scopes = g]
    OBVIOUS
  <2>4. /\ n \in CaptureState /\ n.input = c.input /\ n.committed = c.committed
        /\ n.sheets = c.sheets /\ n.scopes = g
    BY <2>2, <2>3 DEF CaptureState
  <2>5. CaptureOK(n)
    <3>1. DOMAIN g = DOMAIN c.scopes \cup {s} /\ g[s] = files[s]
      BY <2>1
    <3>2. \A y \in DOMAIN c.scopes : g[y] = c.scopes[y]
      BY <2>1
    <3>3. Loadable(s, files[s]) /\ Clean(files[s].marker)
      BY <1>6 DEF Usable, Whole, Loadable, MarkerOf, Clean
    <3> QED
      BY <1>3, <2>4, <3>1, <3>2, <3>3 DEF CaptureOK
  <2>6. PICK j : j = [x EXCEPT !.capture = n]
    OBVIOUS
  <2>7. j \in JobState /\ j.pc = x.pc /\ j.capture = n /\ j.selection = x.selection
    BY <2>4, <2>6 DEF JobState
  <2>8. JobOK(j) /\ j.pc \notin Held
    BY <1>3, <2>4, <2>5, <2>7 DEF JobOK, Held, Captured
  <2>9. job' = [job EXCEPT ![w] = j]
    BY <1>1, <1>2, <1>6, <2>1, <2>3, <2>6, JobFacts
  <2> QED
    BY <1>3, <1>6, <2>7, <2>8, <2>9, GoesOn
<1>7. CASE c.sheets \ DOMAIN c.scopes = {}
  BY <1>1, <1>2, <1>4, <1>5, <1>7 DEF Capture
<1>8. CASE c.sheets \ DOMAIN c.scopes # {}
  <2>1. PICK s \in c.sheets \ DOMAIN c.scopes :
          s = CHOOSE y \in c.sheets \ DOMAIN c.scopes : TRUE
    BY <1>8
  <2>2. JobEnd(w) \/ (/\ Usable(s) /\ UNCHANGED lock
                      /\ job' = [job EXCEPT ![w].capture.scopes =
                                   [y \in DOMAIN c.scopes \cup {s} |->
                                      IF y = s THEN files[s] ELSE c.scopes[y]]])
    BY <1>1, <1>2, <1>8, <2>1 DEF Capture
  <2> QED
    BY <1>4, <1>6, <2>2
<1> QED
  BY <1>7, <1>8

\* Where the answer is a stored document, it is one of this capture.
LEMMA LookUpKeeps ==
  ASSUME AggregateInv, NEW w \in Worker, LookUp(w)
  PROVE  AggregateInv'
<1>1. PICK x \in JobState : x = job[w]
  BY JobFacts
<1>2. /\ x.pc = "cache" /\ job[w].pc \notin Held /\ UNCHANGED <<package, agg, jobs>>
      /\ x.selection \in Selection /\ JobOK(x)
  BY <1>1, JobFacts DEF LookUp, Held, JobOK
<1>3. CASE JobEnd(w)
  BY <1>2, <1>3, GivesUp
<1>4. CASE JobGo(w, "call") /\ UNCHANGED lock
  <2>1. "call" \in JobPoint /\ "call" \notin Held
    BY DEF JobPoint, Capturing, Captured, Held
  <2>2. PICK j \in JobState : /\ job' = [job EXCEPT ![w] = j] /\ j.pc = "call"
                              /\ j.selection = x.selection /\ j.capture = x.capture
    BY <1>1, <1>4, <2>1, JobGoFacts
  <2>3. JobOK(j)
    BY <1>2, <2>1, <2>2 DEF JobOK, Held, Captured, Capturing
  <2> QED
    BY <1>2, <1>4, <2>1, <2>2, <2>3, GoesOn
<1>5. CASE /\ Cached(w) /\ UNCHANGED lock
           /\ job' = [job EXCEPT ![w].pc = "answer", ![w].brief = agg[job[w].selection].brief]
  <2>1. PICK b \in AggregateDoc \cup {None} : b = agg[x.selection].brief
    BY <1>2, JobFacts DEF Stored
  <2>2. b.inputs = InputsOf(x.capture)
    BY <1>1, <1>5, <2>1 DEF Cached
  <2>3. PICK j : j = [x EXCEPT !.pc = "answer", !.brief = b]
    OBVIOUS
  <2>4. "answer" \in JobPoint /\ "answer" \notin Held
    BY DEF JobPoint, Capturing, Captured, Held
  <2>5. /\ j \in JobState /\ j.pc = "answer" /\ j.brief = b
        /\ j.selection = x.selection /\ j.capture = x.capture
    BY <2>3, <2>4 DEF JobState
  <2>6. JobOK(j)
    BY <1>2, <2>2, <2>4, <2>5 DEF JobOK, Captured, Capturing
  <2>7. job' = [job EXCEPT ![w] = j]
    BY <1>1, <1>5, <2>1, <2>3, JobFacts
  <2> QED
    BY <1>2, <1>5, <2>4, <2>5, <2>6, <2>7, GoesOn
<1> QED
  BY <1>3, <1>4, <1>5 DEF LookUp

LEMMA CallKeeps ==
  ASSUME AggregateInv, NEW w \in Worker, Call(w)
  PROVE  AggregateInv'
<1>1. PICK x \in JobState : x = job[w]
  BY JobFacts
<1>2. /\ x.pc = "call" /\ job[w].pc \notin Held /\ UNCHANGED <<package, agg, jobs>>
      /\ x.selection \in Selection /\ JobOK(x)
  BY <1>1, JobFacts DEF Call, Held, JobOK
<1>3. CASE JobEnd(w)
  BY <1>2, <1>3, GivesUp
<1>4. CASE /\ UNCHANGED lock
           /\ job' = [job EXCEPT ![w].pc = "publish", ![w].brief =
                [id |-> jobs, inputs |-> InputsOf(job[w].capture), model |-> job[w].model]]
  <2>1. PICK b : b = [id |-> jobs, inputs |-> InputsOf(x.capture), model |-> x.model]
    OBVIOUS
  <2>2. x.model \in Model \cup {None} /\ x.capture \in CaptureState /\ jobs \in Nat
    BY JobFacts DEF JobState
  <2>3. b \in AggregateDoc /\ b.inputs = InputsOf(x.capture)
    BY <2>1, <2>2, InputsType DEF AggregateDoc
  <2>4. PICK j : j = [x EXCEPT !.pc = "publish", !.brief = b]
    OBVIOUS
  <2>5. "publish" \in JobPoint /\ "publish" \notin Held
    BY DEF JobPoint, Capturing, Captured, Held
  <2>6. /\ j \in JobState /\ j.pc = "publish" /\ j.brief = b
        /\ j.selection = x.selection /\ j.capture = x.capture
    BY <2>3, <2>4, <2>5 DEF JobState
  <2>7. JobOK(j)
    BY <1>2, <2>3, <2>5, <2>6 DEF JobOK, Captured, Capturing
  <2>8. job' = [job EXCEPT ![w] = j]
    BY <1>1, <1>4, <2>1, <2>4, JobFacts
  <2> QED
    BY <1>2, <1>4, <2>5, <2>6, <2>7, <2>8, GoesOn
<1> QED
  BY <1>3, <1>4 DEF Call

\* The lock is taken when the pair of the selection is at rest.
LEMMA PublishLockKeeps ==
  ASSUME AggregateInv, NEW w \in Worker, PublishLock(w)
  PROVE  AggregateInv'
<1>1. PICK x \in JobState : x = job[w]
  BY JobFacts
<1>2. /\ x.pc = "publish" /\ job[w].pc \notin Held /\ UNCHANGED <<package, agg, jobs>>
      /\ x.selection \in Selection /\ JobOK(x) /\ lock = None
  BY <1>1, JobFacts DEF PublishLock, Held, JobOK
<1>3. CASE JobEnd(w)
  BY <1>2, <1>3, GivesUp
<1>4. CASE /\ Unchanged(job[w].capture) /\ lock' = w
           /\ job' = [job EXCEPT ![w].pc = "brief", ![w].old = agg[job[w].selection]]
  <2>1. PICK a \in Stored : a = agg[x.selection]
    BY <1>2, JobFacts
  <2>2. PICK j : j = [x EXCEPT !.pc = "brief", !.old = a]
    OBVIOUS
  <2>3. "brief" \in JobPoint /\ "brief" \in Held
    BY DEF JobPoint, Held
  <2>4. /\ j \in JobState /\ j.pc = "brief" /\ j.old = a /\ j.brief = x.brief
        /\ j.selection = x.selection /\ j.capture = x.capture
    BY <2>2, <2>3 DEF JobState
  <2>5. crashes = 0 => a.brief = a.commit
    <3>1. ~ AtPair(x.selection)
      BY <1>2, JobFacts, AggregateAssumption DEF AtPair
    <3> QED
      BY <1>2, <2>1, <3>1 DEF AggregateInv, Pairs
  <2>6. CleanDoc(a.commit)
    BY <1>2, <2>1 DEF AggregateInv
  <2>7. JobOK(j)
    BY <1>1, <1>2, <1>4, <2>4, <2>5, <2>6 DEF JobOK, UndoOK, Captured, Capturing
  <2>8. job' = [job EXCEPT ![w] = j]
    BY <1>1, <1>4, <2>1, <2>2, JobFacts
  <2>9. j.pc \in Held /\ lock \in {None, w} /\ lock' \in {None, w}
    BY <1>2, <1>4, <2>3, <2>4
  <2>10. /\ UNCHANGED <<files, input, index, op, committed, ops, crashes, agg>>
         /\ crashes' \in Nat /\ crashes <= crashes' /\ jobs' \in Nat
    BY <1>2, QuietFacts
  <2> QED
    BY <1>2, <1>4, <2>4, <2>7, <2>8, <2>9, <2>10, WorkerQuiet
<1> QED
  BY <1>3, <1>4 DEF PublishLock, Recheck

\* One of the two files of a selection is replaced.
LEMMA ReplaceBrief ==
  ASSUME NEW a \in [Selection -> Stored], NEW x \in Selection, NEW d \in AggregateDoc \cup {None},
         NEW g, g = [a EXCEPT ![x].brief = d]
  PROVE  /\ g \in [Selection -> Stored] /\ g[x].brief = d /\ g[x].commit = a[x].commit
         /\ \A y \in Selection : y # x => g[y] = a[y]
<1>1. PICK b \in Stored : b = a[x]
  OBVIOUS
<1>2. PICK c : c = [b EXCEPT !.brief = d]
  OBVIOUS
<1>3. c \in Stored /\ c.brief = d /\ c.commit = b.commit
  BY <1>2 DEF Stored
<1>4. g = [a EXCEPT ![x] = c]
  BY <1>1, <1>2
<1> QED
  BY <1>1, <1>3, <1>4

LEMMA ReplaceCommit ==
  ASSUME NEW a \in [Selection -> Stored], NEW x \in Selection, NEW d \in AggregateDoc \cup {None},
         NEW g, g = [a EXCEPT ![x].commit = d]
  PROVE  /\ g \in [Selection -> Stored] /\ g[x].commit = d /\ g[x].brief = a[x].brief
         /\ \A y \in Selection : y # x => g[y] = a[y]
<1>1. PICK b \in Stored : b = a[x]
  OBVIOUS
<1>2. PICK c : c = [b EXCEPT !.commit = d]
  OBVIOUS
<1>3. c \in Stored /\ c.commit = d /\ c.brief = b.brief
  BY <1>2 DEF Stored
<1>4. g = [a EXCEPT ![x] = c]
  BY <1>1, <1>2
<1> QED
  BY <1>1, <1>3, <1>4

\* A worker that holds the lock and goes on.
LEMMA HolderGoes ==
  ASSUME AggregateInv, NEW w \in Worker, UNCHANGED <<package, lock, jobs>>, job[w].pc \in Held,
         NEW j \in JobState, job' = [job EXCEPT ![w] = j], j.pc \in Held,
         j.selection = job[w].selection,
         agg' \in [Selection -> Stored], JobOK(j)',
         \A x \in Selection : x # job[w].selection => agg'[x] = agg[x],
         \A x \in Selection : agg'[x].commit = agg[x].commit
  PROVE  AggregateInv'
<1>1. \A x \in Selection : CleanDoc(agg'[x].commit)
  BY DEF AggregateInv
<1>2. \A x \in Selection :
        crashes' = 0 /\ (agg[x].brief = agg[x].commit
                         \/ (job[w].pc \in Held /\ job[w].selection = x)) =>
          agg'[x].brief = agg'[x].commit \/ (j.pc \in Held /\ j.selection = x)
  OBVIOUS
<1>3. lock = w /\ lock' = w /\ lock' = lock
  BY JobFacts
<1>4. /\ UNCHANGED <<files, input, index, op, committed, ops>>
      /\ crashes' \in Nat /\ crashes <= crashes' /\ jobs' \in Nat
  BY QuietFacts
<1> QED
  BY <1>1, <1>2, <1>3, <1>4, WorkerStep

LEMMA WriteBriefKeeps ==
  ASSUME AggregateInv, NEW w \in Worker, WriteBrief(w)
  PROVE  AggregateInv'
<1>1. PICK x \in JobState : x = job[w]
  BY JobFacts
<1>2. /\ x.pc = "brief" /\ x.pc \in Held /\ UNCHANGED <<package, lock, jobs>>
      /\ x.selection \in Selection /\ JobOK(x) /\ JobGo(w, "marker")
      /\ agg' = [agg EXCEPT ![x.selection].brief = x.brief]
  BY <1>1, JobFacts DEF WriteBrief, Held, JobOK
<1>3. "marker" \in JobPoint /\ "marker" \in Held
  BY DEF JobPoint, Held
<1>4. PICK j \in JobState : /\ job' = [job EXCEPT ![w] = j] /\ j.pc = "marker"
                            /\ j.selection = x.selection /\ j.capture = x.capture
                            /\ j.brief = x.brief /\ j.old = x.old
  BY <1>1, <1>2, <1>3, JobGoFacts
<1>5. PICK d \in AggregateDoc \cup {None} : d = x.brief
  BY DEF JobState
<1>6. /\ agg' \in [Selection -> Stored] /\ agg'[x.selection].brief = x.brief
      /\ agg'[x.selection].commit = agg[x.selection].commit
      /\ \A y \in Selection : y # x.selection => agg'[y] = agg[y]
  <2>1. agg \in [Selection -> Stored] /\ agg' = [agg EXCEPT ![x.selection].brief = d]
    BY <1>2, <1>5, JobFacts
  <2> QED
    BY <1>2, <1>5, <2>1, ReplaceBrief
<1>7. JobOK(j)'
  <2>1. UNCHANGED <<files, input, crashes>> /\ input \in Nat
    BY <1>2, JobFacts DEF package
  <2>2. CaptureOK(j.capture) /\ Unchanged(j.capture)
    BY <1>2, <1>4 DEF JobOK
  <2>3. CaptureOK(j.capture)' /\ Unchanged(j.capture)'
    BY <2>1, <2>2 DEF CaptureOK, Unchanged, CommittedSheets, Loadable, MarkerOf, Inputs
  <2>4. crashes' = 0 => UndoOK(j)'
    BY <1>2, <1>4, <1>6, <2>1 DEF JobOK, UndoOK
  <2>5. /\ j.selection \in Selection
        /\ j.selection = All => j.capture.sheets = j.capture.committed
        /\ DOMAIN j.capture.scopes = j.capture.sheets
        /\ j.brief.inputs = InputsOf(j.capture) /\ CleanDoc(j.old.commit)
    BY <1>2, <1>4 DEF JobOK, Captured, Capturing
  <2> QED
    BY <2>3, <2>4, <2>5 DEF JobOK
<1>8. \A y \in Selection : agg'[y].commit = agg[y].commit
  BY <1>6
<1> QED
  BY <1>1, <1>2, <1>3, <1>4, <1>6, <1>7, <1>8, HolderGoes

LEMMA PublishFailsKeeps ==
  ASSUME AggregateInv, NEW w \in Worker, PublishFails(w)
  PROVE  AggregateInv'
<1>1. PICK x \in JobState : x = job[w]
  BY JobFacts
<1>2. /\ x.pc \in Held /\ x.pc \in {"brief", "marker"} /\ JobOK(x) /\ JobGo(w, "undobrief")
      /\ UNCHANGED <<files, input, index, op, committed, ops, crashes, lock, agg, jobs>>
  BY <1>1, JobFacts DEF PublishFails, Held
<1>3. "undobrief" \in JobPoint /\ "undobrief" \in Held
  BY DEF JobPoint, Held
<1>4. PICK j \in JobState : /\ job' = [job EXCEPT ![w] = j] /\ j.pc = "undobrief"
                            /\ j.selection = x.selection /\ j.capture = x.capture
                            /\ j.brief = x.brief /\ j.old = x.old
  BY <1>1, <1>2, <1>3, JobGoFacts
<1>5. JobOK(j)
  BY <1>2, <1>3, <1>4 DEF JobOK, UndoOK, Captured, Capturing
<1>6. /\ lock = w /\ lock' = lock /\ crashes' \in Nat /\ crashes <= crashes' /\ jobs' \in Nat
  BY <1>1, <1>2, JobFacts
<1> QED
  BY <1>1, <1>2, <1>3, <1>4, <1>5, <1>6, WorkerQuiet

LEMMA UndoBriefKeeps ==
  ASSUME AggregateInv, NEW w \in Worker, UndoBrief(w)
  PROVE  AggregateInv'
<1>1. PICK x \in JobState : x = job[w]
  BY JobFacts
<1>2. /\ x.pc = "undobrief" /\ x.pc \in Held /\ UNCHANGED <<package, lock, jobs>>
      /\ x.selection \in Selection /\ JobOK(x) /\ JobGo(w, "undocommit")
      /\ agg' = [agg EXCEPT ![x.selection].brief = x.old.brief]
  BY <1>1, JobFacts DEF UndoBrief, Held, JobOK
<1>3. "undocommit" \in JobPoint /\ "undocommit" \in Held
  BY DEF JobPoint, Held
<1>4. PICK j \in JobState : /\ job' = [job EXCEPT ![w] = j] /\ j.pc = "undocommit"
                            /\ j.selection = x.selection /\ j.capture = x.capture
                            /\ j.brief = x.brief /\ j.old = x.old
  BY <1>1, <1>2, <1>3, JobGoFacts
<1>5. PICK d \in AggregateDoc \cup {None} : d = x.old.brief
  BY DEF JobState, Stored
<1>6. /\ agg' \in [Selection -> Stored] /\ agg'[x.selection].brief = x.old.brief
      /\ agg'[x.selection].commit = agg[x.selection].commit
      /\ \A y \in Selection : y # x.selection => agg'[y] = agg[y]
  <2>1. agg \in [Selection -> Stored] /\ agg' = [agg EXCEPT ![x.selection].brief = d]
    BY <1>2, <1>5, JobFacts
  <2> QED
    BY <1>2, <1>5, <2>1, ReplaceBrief
<1>7. JobOK(j)'
  <2>1. UNCHANGED <<files, input, crashes>> /\ input \in Nat
    BY <1>2, JobFacts DEF package
  <2>2. CaptureOK(j.capture)'
    BY <1>2, <1>4, <2>1 DEF JobOK, CaptureOK, Loadable, MarkerOf, Inputs
  <2>3. crashes' = 0 => UndoOK(j)'
    BY <1>2, <1>4, <1>6, <2>1 DEF JobOK, UndoOK
  <2>4. j.selection \in Selection /\ CleanDoc(j.old.commit)
    BY <1>2, <1>4 DEF JobOK
  <2> QED
    BY <1>4, <2>2, <2>3, <2>4 DEF JobOK, Captured, Capturing
<1>8. \A y \in Selection : agg'[y].commit = agg[y].commit
  BY <1>6
<1> QED
  BY <1>1, <1>2, <1>3, <1>4, <1>6, <1>7, <1>8, HolderGoes

\* The commit is written, new or old, and the lock is given back.
LEMMA CommitWritten ==
  ASSUME AggregateInv, NEW w \in Worker, UNCHANGED <<package, jobs>>,
         job[w].pc \in Held, NEW d \in AggregateDoc \cup {None}, CleanDoc(d),
         crashes = 0 => agg[job[w].selection].brief = d,
         job[w].selection \in Selection,
         agg' = [agg EXCEPT ![job[w].selection].commit = d],
         lock' = None, NEW j \in JobState, job' = [job EXCEPT ![w] = j], j.pc \notin Held, JobOK(j)
  PROVE  AggregateInv'
<1>1. PICK x \in Selection : x = job[w].selection
  OBVIOUS
<1>2. /\ agg' \in [Selection -> Stored] /\ agg'[x].commit = d /\ agg'[x].brief = agg[x].brief
      /\ \A y \in Selection : y # x => agg'[y] = agg[y]
  <2>1. agg \in [Selection -> Stored] /\ agg' = [agg EXCEPT ![x].commit = d]
    BY <1>1, JobFacts
  <2> QED
    BY <2>1, ReplaceCommit
<1>3. \A y \in Selection : CleanDoc(agg'[y].commit)
  <2>1. ASSUME NEW y \in Selection PROVE CleanDoc(agg'[y].commit)
    <3>1. CASE y = x
      BY <1>2, <3>1
    <3>2. CASE y # x
      BY <1>2, <3>2 DEF AggregateInv
    <3> QED
      BY <3>1, <3>2
  <2> QED
    BY <2>1
<1>4. \A y \in Selection :
        crashes' = 0 /\ (agg[y].brief = agg[y].commit
                         \/ (job[w].pc \in Held /\ job[w].selection = y)) =>
          agg'[y].brief = agg'[y].commit \/ (j.pc \in Held /\ j.selection = y)
  BY <1>1, <1>2, QuietFacts
<1>5. lock = w /\ lock' \in {None, w} /\ lock' # w
  BY JobFacts, AggregateAssumption
<1>6. /\ UNCHANGED <<files, input, index, op, committed, ops>>
      /\ crashes' \in Nat /\ crashes <= crashes' /\ jobs' \in Nat
      /\ input \in Nat /\ crashes \in Nat
  BY QuietFacts, JobFacts
<1>7. JobOK(j)'
  BY <1>6, JobStays
<1> QED
  BY <1>2, <1>3, <1>4, <1>5, <1>6, <1>7, WorkerStep

LEMMA WriteCommitKeeps ==
  ASSUME AggregateInv, NEW w \in Worker, WriteCommit(w)
  PROVE  AggregateInv'
<1>1. PICK x \in JobState : x = job[w]
  BY JobFacts
<1>2. /\ x.pc = "marker" /\ x.pc \in Held /\ UNCHANGED <<package, jobs>> /\ lock' = None
      /\ x.selection \in Selection /\ JobOK(x) /\ JobGo(w, "answer")
  BY <1>1, JobFacts DEF WriteCommit, Held, JobOK
<1>3. "answer" \in JobPoint /\ "answer" \notin Held
  BY DEF JobPoint, Held, Capturing, Captured
<1>4. PICK j \in JobState : /\ job' = [job EXCEPT ![w] = j] /\ j.pc = "answer"
                            /\ j.selection = x.selection /\ j.capture = x.capture
                            /\ j.brief = x.brief /\ j.old = x.old
  BY <1>1, <1>2, <1>3, JobGoFacts
<1>5. PICK d \in AggregateDoc \cup {None} : d = x.brief
  BY DEF JobState
<1>6. JobOK(j)
  BY <1>2, <1>3, <1>4 DEF JobOK, Captured, Capturing
<1>7. CleanDoc(d)
  BY <1>2, <1>5, InputsClean DEF JobOK, CleanDoc
<1>8. crashes = 0 => agg[x.selection].brief = d
  BY <1>2, <1>5 DEF JobOK, UndoOK
<1>9. agg' = [agg EXCEPT ![job[w].selection].commit = d]
  BY <1>1, <1>5 DEF WriteCommit
<1> QED
  BY <1>1, <1>2, <1>3, <1>4, <1>6, <1>7, <1>8, <1>9, CommitWritten

LEMMA UndoCommitKeeps ==
  ASSUME AggregateInv, NEW w \in Worker, UndoCommit(w)
  PROVE  AggregateInv'
<1>1. PICK x \in JobState : x = job[w]
  BY JobFacts
<1>2. /\ x.pc = "undocommit" /\ x.pc \in Held /\ UNCHANGED <<package, jobs>> /\ lock = w
      /\ x.selection \in Selection /\ JobOK(x) /\ JobEnd(w)
  BY <1>1, JobFacts DEF UndoCommit, Held, JobOK
<1>3. /\ NoJob \in JobState /\ NoJob.pc \notin Held /\ JobOK(NoJob)
  BY JobFacts, NoJobFacts, NoJobOK DEF Held
<1>4. job' = [job EXCEPT ![w] = NoJob] /\ lock' = None
  BY <1>2 DEF JobEnd
<1>5. PICK d \in AggregateDoc \cup {None} : d = x.old.commit
  BY DEF JobState, Stored
<1>6. CleanDoc(d)
  BY <1>2, <1>5 DEF JobOK
<1>7. crashes = 0 => agg[x.selection].brief = d
  BY <1>2, <1>5 DEF JobOK, UndoOK
<1>8. agg' = [agg EXCEPT ![job[w].selection].commit = d]
  BY <1>1, <1>5 DEF UndoCommit
<1> QED
  BY <1>1, <1>2, <1>3, <1>4, <1>6, <1>7, <1>8, CommitWritten

LEMMA LoadCommitKeeps ==
  ASSUME AggregateInv, NEW w \in Worker, LoadCommit(w)
  PROVE  AggregateInv'
<1>1. PICK x \in JobState : x = job[w]
  BY JobFacts
<1>2. /\ x.pc = "commit" /\ job[w].pc \notin Held /\ UNCHANGED <<package, agg, jobs, lock>>
      /\ x.selection \in Selection /\ JobOK(x)
  BY <1>1, JobFacts DEF LoadCommit, Held, JobOK
<1>3. PICK d \in AggregateDoc \cup {None} : d = agg[x.selection].commit
  BY <1>2, JobFacts DEF Stored
<1>4. PICK j : j = [x EXCEPT !.pc = "document", !.commit = d]
  OBVIOUS
<1>5. "document" \in JobPoint /\ "document" \notin Held
  BY DEF JobPoint, Held
<1>6. /\ j \in JobState /\ j.pc = "document"
      /\ j.selection = x.selection /\ j.capture = x.capture
  BY <1>3, <1>4, <1>5 DEF JobState
<1>7. JobOK(j)
  BY <1>2, <1>5, <1>6 DEF JobOK, Captured, Capturing
<1>8. job' = [job EXCEPT ![w] = j]
  BY <1>1, <1>3, <1>4, JobFacts DEF LoadCommit
<1> QED
  BY <1>2, <1>5, <1>6, <1>7, <1>8, GoesOn

LEMMA LoadBriefKeeps ==
  ASSUME AggregateInv, NEW w \in Worker, LoadBrief(w)
  PROVE  AggregateInv'
<1>1. PICK x \in JobState : x = job[w]
  BY JobFacts
<1>2. /\ x.pc = "document" /\ job[w].pc \notin Held /\ UNCHANGED <<package, agg, jobs>>
      /\ x.selection \in Selection /\ JobOK(x)
  BY <1>1, JobFacts DEF LoadBrief, Held, JobOK
<1>3. CASE JobEnd(w)
  BY <1>2, <1>3, GivesUp
<1>4. CASE /\ job' = [job EXCEPT ![w].brief = agg[job[w].selection].brief, ![w].pc = "begin"]
           /\ UNCHANGED lock
  <2>1. PICK d \in AggregateDoc \cup {None} : d = agg[x.selection].brief
    BY <1>2, JobFacts DEF Stored
  <2>2. PICK j : j = [x EXCEPT !.brief = d, !.pc = "begin"]
    OBVIOUS
  <2>3. "begin" \in JobPoint /\ "begin" \notin Held
    BY DEF JobPoint, Held
  <2>4. /\ j \in JobState /\ j.pc = "begin"
        /\ j.selection = x.selection /\ j.capture = x.capture
    BY <2>1, <2>2, <2>3 DEF JobState
  <2>5. JobOK(j)
    BY <1>2, <2>3, <2>4 DEF JobOK, Captured, Capturing
  <2>6. job' = [job EXCEPT ![w] = j]
    BY <1>1, <1>4, <2>1, <2>2, JobFacts
  <2> QED
    BY <1>2, <1>4, <2>3, <2>4, <2>5, <2>6, GoesOn
<1> QED
  BY <1>3, <1>4 DEF LoadBrief

LEMMA CompareKeeps ==
  ASSUME AggregateInv, NEW w \in Worker, Compare(w)
  PROVE  AggregateInv'
<1>1. PICK x \in JobState : x = job[w]
  BY JobFacts
<1>2. /\ x.pc = "compare" /\ job[w].pc \notin Held /\ UNCHANGED <<package, agg, jobs>>
      /\ x.selection \in Selection /\ JobOK(x)
  BY <1>1, JobFacts DEF Compare, Held, JobOK
<1>3. CASE JobEnd(w)
  BY <1>2, <1>3, GivesUp
<1>4. CASE /\ JobGo(w, "answer") /\ UNCHANGED lock
           /\ x.brief.inputs = InputsOf(x.capture)
  <2>1. "answer" \in JobPoint /\ "answer" \notin Held
    BY DEF JobPoint, Capturing, Captured, Held
  <2>2. PICK j \in JobState : /\ job' = [job EXCEPT ![w] = j] /\ j.pc = "answer"
                              /\ j.selection = x.selection /\ j.capture = x.capture
                              /\ j.brief = x.brief
    BY <1>1, <1>4, <2>1, JobGoFacts
  <2>3. JobOK(j)
    BY <1>2, <1>4, <2>1, <2>2 DEF JobOK, Captured, Capturing
  <2> QED
    BY <1>2, <1>4, <2>1, <2>2, <2>3, GoesOn
<1> QED
  BY <1>1, <1>3, <1>4 DEF Compare

LEMMA JobCrashKeeps ==
  ASSUME AggregateInv, NEW w \in Worker, JobCrash(w)
  PROVE  AggregateInv'
<1>1. /\ JobEnd(w) /\ crashes' = crashes + 1
      /\ UNCHANGED <<files, input, index, op, committed, agg, ops, jobs>>
  BY DEF JobCrash
<1>2. crashes' \in Nat /\ crashes <= crashes' /\ crashes' # 0 /\ jobs' \in Nat
  BY <1>1, JobFacts
<1> QED
  BY <1>1, <1>2, JobEnds

LEMMA WorkKeeps ==
  ASSUME AggregateInv, NEW w \in Worker, Work(w)
  PROVE  AggregateInv'
<1>1. ASSUME Answered(w) PROVE AggregateInv'
  <2>1. job[w].pc \notin Held /\ JobEnd(w) /\ UNCHANGED <<package, agg, jobs>>
    BY <1>1 DEF Answered, Held
  <2> QED
    BY <2>1, GivesUp
<1> QED
  BY <1>1, BeginCaptureKeeps, CaptureKeeps, LookUpKeeps, CallKeeps, PublishLockKeeps,
     WriteBriefKeeps, WriteCommitKeeps, UndoBriefKeeps, UndoCommitKeeps, LoadCommitKeeps,
     LoadBriefKeeps, CompareKeeps DEF Work

-----------------------------------------------------------------------------
(* Steps of the package, and the invariant of the aggregates.               *)

LEMMA WorkersWait ==
  ASSUME AggregateInv, Inv', UNCHANGED <<job, jobs>>,
         input \in Nat, input' \in Nat, input <= input',
         crashes \in Nat, crashes' \in Nat, crashes <= crashes',
         \A v \in Worker : /\ lock' = v <=> lock = v
                           /\ lock = v => UNCHANGED <<files, input, agg>>,
         agg' = agg \/ agg' = [x \in Selection |-> NoAggregate]
  PROVE  AggregateInv'
<1>1. agg \in [Selection -> Stored] /\ job \in [Worker -> JobState] /\ jobs \in Nat
  BY DEF AggregateInv, JobTypes
<1>2. JobTypes'
  BY <1>1, NoJobFacts DEF JobTypes
<1>3. Jobs'
  <2>1. ASSUME NEW v \in Worker PROVE JobOK(job[v])'
    <3>1. PICK x \in JobState : x = job[v]
      BY <1>1
    <3>2. JobOK(x) /\ (x.pc \in Held => UNCHANGED <<files, input, agg>>)
      BY <3>1, JobFacts
    <3>3. JobOK(x)'
      BY <3>2, JobStays
    <3> QED
      BY <3>1, <3>3, JobAt
  <2> QED
    BY <2>1 DEF Jobs
<1>4. Holders'
  BY DEF AggregateInv, Holders
<1>5. Pairs'
  <2> SUFFICES ASSUME crashes' = 0, NEW x \in Selection
               PROVE  agg'[x].brief = agg'[x].commit \/ AtPair(x)'
    BY DEF Pairs
  <2>1. agg[x].brief = agg[x].commit \/ AtPair(x)
    BY DEF AggregateInv, Pairs
  <2>2. AtPair(x) => AtPair(x)'
    BY DEF AtPair
  <2>3. CASE agg' = [y \in Selection |-> NoAggregate]
    BY <2>3 DEF NoAggregate
  <2> QED
    BY <2>1, <2>2, <2>3
<1>6. \A x \in Selection : CleanDoc(agg[x].commit)'
  <2>1. CASE agg' = agg
    BY <2>1 DEF AggregateInv, CleanDoc, CleanInputs, Clean
  <2>2. CASE agg' = [y \in Selection |-> NoAggregate]
    BY <2>2 DEF NoAggregate, CleanDoc
  <2> QED
    BY <2>1, <2>2
<1> QED
  BY <1>2, <1>3, <1>4, <1>5, <1>6 DEF AggregateInv

LEMMA CommandStep ==
  ASSUME AggregateInv, NEW p \in Process, Command(p), UNCHANGED <<job, jobs>>,
         \/ agg' = agg
         \/ Convert(p) /\ agg' = [x \in Selection |-> NoAggregate]
  PROVE  AggregateInv'
<1>1. Inv
  BY DEF AggregateInv
<1>2. Inv'
  BY <1>1, CommandKeeps
<1>3. /\ lock' = lock \/ (lock \in {None, p} /\ lock' \in {None, p})
      /\ lock = p \/ UNCHANGED <<files, input>>
      /\ input \in Nat /\ input' \in Nat /\ input <= input'
      /\ crashes \in Nat /\ crashes' \in Nat /\ crashes <= crashes'
  BY <1>1, CommandEffects
<1>4. Convert(p) => lock = p
  BY <1>1, CommandFacts DEF Convert, Inside
<1>5. ASSUME NEW v \in Worker
      PROVE  /\ lock' = v <=> lock = v
             /\ lock = v => UNCHANGED <<files, input, agg>>
  <2>1. v # p /\ v # None
    BY AggregateAssumption
  <2> QED
    BY <1>3, <1>4, <2>1
<1> QED
  BY <1>2, <1>3, <1>5, WorkersWait

THEOREM AggregateInitInv == AggregateInit => AggregateInv
<1> SUFFICES ASSUME AggregateInit PROVE AggregateInv
  OBVIOUS
<1>1. Inv /\ input \in Nat
  BY InitInv DEF AggregateInit, Init
<1>2. /\ NoJob \in JobState /\ NoJob.pc \notin Held /\ JobOK(NoJob) /\ NoAggregate \in Stored
  BY <1>1, NoJobFacts, NoJobOK DEF Held
<1>3. /\ job = [w \in Worker |-> NoJob] /\ agg = [x \in Selection |-> NoAggregate]
      /\ jobs = 0 /\ lock = None
  BY DEF AggregateInit, Init
<1>4. JobTypes /\ Jobs
  BY <1>2, <1>3 DEF JobTypes, Jobs
<1>5. Holders
  BY <1>2, <1>3, AggregateAssumption DEF Holders
<1>6. Pairs /\ \A x \in Selection : CleanDoc(agg[x].commit)
  BY <1>3 DEF Pairs, CleanDoc, NoAggregate
<1> QED
  BY <1>1, <1>4, <1>5, <1>6 DEF AggregateInv

THEOREM AggregateInvStep == AggregateInv /\ [AggregateNext]_allVars => AggregateInv'
<1> SUFFICES ASSUME AggregateInv, [AggregateNext]_allVars PROVE AggregateInv'
  OBVIOUS
<1>1. ASSUME NEW p \in Process, Writers(p, Sheet) \/ Step(p) \/ Fail(p) \/ Crash(p),
             UNCHANGED aggregateVars
      PROVE  AggregateInv'
  <2>1. Writers(p, Sheet) => Writers(p, Scope)
    BY DEF Writers, Scope
  <2>2. Command(p)
    BY <1>1, <2>1 DEF Command
  <2> QED
    BY <1>1, <2>2, CommandStep DEF aggregateVars
<1>2. ASSUME NEW p \in Process, Reconvert(p) PROVE AggregateInv'
  BY <1>2, CommandStep DEF Reconvert, Command
<1>3. ASSUME NEW w \in Worker, NEW x \in Selection, NEW load \in BOOLEAN, NEW force \in BOOLEAN,
             NEW m \in Model, BeginJob(w, x, load, force, m)
      PROVE  AggregateInv'
  BY <1>3, BeginJobKeeps
<1>4. ASSUME NEW w \in Worker, Work(w) \/ PublishFails(w) \/ JobCrash(w) PROVE AggregateInv'
  BY <1>4, WorkKeeps, PublishFailsKeeps, JobCrashKeeps
<1>5. CASE UNCHANGED allVars
  <2>1. Inv /\ UNCHANGED vars /\ UNCHANGED <<agg, job, jobs>>
    BY <1>5 DEF AggregateInv, allVars, aggregateVars
  <2>2. Inv'
    BY <2>1, StutterKeeps
  <2>3. /\ UNCHANGED <<files, input, lock, crashes>>
        /\ input \in Nat /\ crashes \in Nat
    BY <2>1, Numbers DEF vars, Inv, Types
  <2>4. input' \in Nat /\ input <= input' /\ crashes' \in Nat /\ crashes <= crashes'
    BY <2>3
  <2> QED
    BY <2>1, <2>2, <2>3, <2>4, WorkersWait
<1> QED
  BY <1>1, <1>2, <1>3, <1>4, <1>5 DEF AggregateNext

\* The invariant of the aggregates: it holds all of the bundles'.
THEOREM AggregateInvariance == AggregateSpec => []AggregateInv
BY AggregateInitInv, AggregateInvStep, PTL DEF AggregateSpec

\* What a worker has looked at again is what it is about to publish.
LEMMA Published ==
  ASSUME AggregateInv, NEW w \in Worker, job[w].pc = "marker"
  PROVE  /\ job[w].brief.inputs.input = input /\ job[w].brief.inputs.committed = CommittedSheets
         /\ \A s \in DOMAIN job[w].brief.inputs.scopes :
              Whole(s) /\ job[w].brief.inputs.scopes[s] = files[s].marker
<1>1. PICK x \in JobState : x = job[w]
  BY JobFacts
<1>2. /\ CaptureOK(x.capture) /\ Unchanged(x.capture) /\ x.brief.inputs = InputsOf(x.capture)
  BY <1>1, JobFacts DEF JobOK
<1>3. \A s \in DOMAIN x.capture.scopes : Whole(s)
  BY <1>2 DEF CaptureOK, Unchanged, Whole
<1> QED
  BY <1>1, <1>2, <1>3 DEF InputsOf, Unchanged

\* A worker is moved by itself only.
LEMMA OtherJobs ==
  ASSUME AggregateInv, NEW v \in Worker, NEW w \in Worker, v # w,
         Work(v) \/ PublishFails(v) \/ JobCrash(v)
  PROVE  job'[w] = job[w]
<1>1. job \in [Worker -> JobState]
  BY JobFacts
<1>2. ASSUME NEW pc, JobGo(v, pc) PROVE job'[w] = job[w]
  BY <1>1, <1>2 DEF JobGo
<1>3. ASSUME JobEnd(v) PROVE job'[w] = job[w]
  BY <1>1, <1>3 DEF JobEnd
<1>4. CASE BeginCapture(v) \/ Capture(v) \/ LookUp(v)
  BY <1>1, <1>2, <1>3, <1>4 DEF BeginCapture, Capture, LookUp
<1>5. CASE Call(v) \/ PublishLock(v) \/ LoadCommit(v) \/ LoadBrief(v) \/ Compare(v)
  BY <1>1, <1>2, <1>3, <1>5 DEF Call, PublishLock, LoadCommit, LoadBrief, Compare
<1>6. CASE WriteBrief(v) \/ WriteCommit(v) \/ UndoBrief(v) \/ UndoCommit(v) \/ Answered(v)
  BY <1>2, <1>3, <1>6 DEF WriteBrief, WriteCommit, UndoBrief, UndoCommit, Answered
<1>7. CASE PublishFails(v) \/ JobCrash(v)
  BY <1>2, <1>3, <1>7 DEF PublishFails, JobCrash
<1> QED
  BY <1>4, <1>5, <1>6, <1>7 DEF Work

\* What an answer says was looked at in the step that gave it.
LEMMA Answering ==
  ASSUME AggregateInv, [AggregateNext]_allVars, NEW w \in Worker,
         job[w].pc \in {"compare", "cache"}, job'[w].pc = "answer"
  PROVE  /\ job'[w].brief.inputs = InputsOf(job[w].capture)
         /\ Unchanged(job[w].capture)
<1>1. PICK x \in JobState : x = job[w]
  BY JobFacts
<1>2. job \in [Worker -> JobState] /\ job'[w] # job[w]
  BY JobFacts
<1>3. ASSUME JobEnd(w) PROVE FALSE
  BY <1>2, <1>3, NoJobFacts DEF JobEnd
<1>4. CASE Compare(w)
  <2>1. /\ JobGo(w, "answer") /\ x.brief.inputs = InputsOf(x.capture) /\ Unchanged(x.capture)
    BY <1>1, <1>3, <1>4 DEF Compare
  <2>2. "answer" \in JobPoint
    BY DEF JobPoint, Capturing, Captured
  <2>3. PICK j \in JobState : job' = [job EXCEPT ![w] = j] /\ j.brief = x.brief
    BY <1>1, <2>1, <2>2, JobGoFacts
  <2> QED
    BY <1>1, <1>2, <2>1, <2>3
<1>5. CASE LookUp(w)
  <2>1. CASE JobGo(w, "call")
    <3>1. "call" \in JobPoint
      BY DEF JobPoint, Capturing, Captured
    <3>2. PICK j \in JobState : job' = [job EXCEPT ![w] = j] /\ j.pc = "call"
      BY <2>1, <3>1, JobGoFacts
    <3> QED
      BY <1>2, <3>2
  <2>2. CASE /\ Cached(w)
             /\ job' = [job EXCEPT ![w].pc = "answer", ![w].brief = agg[job[w].selection].brief]
    <3>1. PICK b \in AggregateDoc \cup {None} : b = agg[x.selection].brief
      BY <1>1, <1>5, JobFacts DEF Stored, JobOK, LookUp
    <3>2. PICK j : j = [x EXCEPT !.pc = "answer", !.brief = b]
      OBVIOUS
    <3>3. j.brief = b
      BY <3>2 DEF JobState
    <3>4. job' = [job EXCEPT ![w] = j]
      BY <1>1, <2>2, <3>1, <3>2, JobFacts
    <3> QED
      BY <1>1, <1>2, <2>2, <3>1, <3>3, <3>4 DEF Cached
  <2> QED
    BY <1>3, <1>5, <2>1, <2>2 DEF LookUp
<1>6. CASE \E v \in Worker : Work(v) \/ PublishFails(v) \/ JobCrash(v)
  <2>1. Work(w) \/ PublishFails(w) \/ JobCrash(w)
    BY <1>2, <1>6, OtherJobs
  <2>2. ~ JobCrash(w)
    BY <1>3 DEF JobCrash
  <2> QED
    BY <1>4, <1>5, <2>1, <2>2
    DEF Work, PublishFails, BeginCapture, Capture, Call, PublishLock, WriteBrief, WriteCommit,
        UndoBrief, UndoCommit, LoadCommit, LoadBrief, Answered
<1>7. CASE \E v \in Worker : \E y \in Selection, load, force \in BOOLEAN, m \in Model :
             BeginJob(v, y, load, force, m)
  BY <1>2, <1>7 DEF BeginJob
<1>8. CASE UNCHANGED job
  BY <1>2, <1>8
<1> QED
  BY <1>6, <1>7, <1>8 DEF AggregateNext, Reconvert, allVars, aggregateVars

\* An aggregate is about the sheets as they are when it is published and when it
\* is answered, about all that were asked for and nothing rejected, and is one
\* pair after a failure.
THEOREM AggregatesTrue == AggregateSpec => AggregatesAreTrue
<1>1. ASSUME AggregateInv PROVE AggregateTypeOK
  <2>1. ASSUME NEW w \in Worker
        PROVE  /\ job[w].selection \in Selection \cup {None}
               /\ DOMAIN job[w].capture.scopes \subseteq job[w].capture.sheets
               /\ lock = w <=> job[w].pc \in {"brief", "marker", "undobrief", "undocommit"}
    BY <1>1, JobFacts DEF JobState, JobOK, CaptureOK, Held
  <2> QED
    BY <2>1 DEF AggregateTypeOK
<1>2. ASSUME AggregateInv PROVE NothingRejected
  BY <1>2 DEF AggregateInv, NothingRejected, CleanDoc, CleanInputs, Clean
<1>3. ASSUME AggregateInv PROVE AllMeansAll
  <2>1. ASSUME NEW w \in Worker, job[w].pc = "answer", job[w].selection = All
        PROVE  DOMAIN job[w].brief.inputs.scopes = job[w].brief.inputs.committed
    <3>1. PICK x \in JobState : x = job[w]
      BY <1>3, JobFacts
    <3>2. /\ x.brief.inputs = InputsOf(x.capture)
          /\ DOMAIN x.capture.scopes = x.capture.committed
      BY <1>3, <2>1, <3>1, JobFacts DEF JobOK, Captured, Capturing
    <3>3. /\ InputsOf(x.capture).committed = x.capture.committed
          /\ DOMAIN InputsOf(x.capture).scopes = DOMAIN x.capture.scopes
      BY DEF InputsOf
    <3> QED
      BY <3>1, <3>2, <3>3
  <2> QED
    BY <2>1 DEF AllMeansAll
<1>4. ASSUME AggregateInv, crashes = 0 PROVE PairWhenFree
  <2>1. ASSUME lock = None, NEW x \in Selection
        PROVE  agg[x] = NoAggregate \/ Pair(agg[x].brief, agg[x].commit)
    <3>1. ~ AtPair(x)
      BY <1>4, <2>1, JobFacts, AggregateAssumption DEF AtPair
    <3>2. agg[x].brief = agg[x].commit /\ agg[x] \in Stored
      BY <1>4, <3>1 DEF AggregateInv, Pairs, JobTypes
    <3> QED
      BY <3>2 DEF Stored, NoAggregate, Pair
  <2> QED
    BY <2>1 DEF PairWhenFree
<1>5. AggregateInv =>
        [\A w \in Worker : job[w].pc = "marker" /\ job'[w].pc = "answer" =>
          /\ job[w].brief.inputs.input = input /\ job[w].brief.inputs.committed = CommittedSheets
          /\ \A s \in DOMAIN job[w].brief.inputs.scopes :
               Whole(s) /\ job[w].brief.inputs.scopes[s] = files[s].marker]_allVars
  BY Published
<1>6. AggregateInv /\ [AggregateNext]_allVars =>
        [\A w \in Worker : job[w].pc \in {"compare", "cache"} /\ job'[w].pc = "answer" =>
          /\ job'[w].brief.inputs.input = input
          /\ job'[w].brief.inputs.committed = CommittedSheets
          /\ \A s \in DOMAIN job'[w].brief.inputs.scopes :
               files[s].marker = job'[w].brief.inputs.scopes[s]]_allVars
  <2> SUFFICES ASSUME AggregateInv, [AggregateNext]_allVars, NEW w \in Worker,
                      job[w].pc \in {"compare", "cache"}, job'[w].pc = "answer"
               PROVE  /\ job'[w].brief.inputs.input = input
                      /\ job'[w].brief.inputs.committed = CommittedSheets
                      /\ \A s \in DOMAIN job'[w].brief.inputs.scopes :
                           files[s].marker = job'[w].brief.inputs.scopes[s]
    OBVIOUS
  <2>1. /\ job'[w].brief.inputs = InputsOf(job[w].capture)
        /\ Unchanged(job[w].capture)
    BY Answering
  <2> QED
    BY <2>1 DEF InputsOf, Unchanged
<1> DEFINE Always == /\ AggregateTypeOK
                     /\ NothingRejected /\ AllMeansAll
                     /\ crashes = 0 => PairWhenFree
<1>7. AggregateInv => Always
  BY <1>1, <1>2, <1>3, <1>4
<1>8. AggregateSpec => []Always
  <2> HIDE DEF Always
  <2> QED
    BY <1>7, AggregateInvariance, PTL
<1>9. AggregateSpec => PublishedIsCurrent
  BY <1>5, AggregateInvariance, PTL DEF PublishedIsCurrent
<1>10. AggregateSpec => AnswerIsCurrent
  BY <1>6, AggregateInvariance, PTL DEF AnswerIsCurrent, AggregateSpec
<1> QED
  BY <1>8, <1>9, <1>10 DEF AggregatesAreTrue

=============================================================================
