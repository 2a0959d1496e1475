---------------------------- MODULE PackageProofs ----------------------------
(***************************************************************************)
(* Proofs about the converted packages: PackageIsTrue and MadeIsVerified,  *)
(* for any number of processes, packages, versions, options and deaths.    *)
(*                                                                         *)
(* A package is changed only by the holder of its lock.  The inductive     *)
(* invariant says what each package is (FolderOK), what the holder of its  *)
(* lock knows of it at every step of its command (OpOK), and, while no     *)
(* command has died, how its index entry and its key agree with its files  *)
(* and which steps of the holder suspend that (SetOK).                     *)
(***************************************************************************)
EXTENDS PackageProperties, TLAPS

IndexEntry ==
  [version : Version, params : Params, key : Model \cup {None}, status : Status \cup {None}]

ConvertPcs == {"convert", "hit", "extract", "stage", "inherit", "remove", "rename", "record"}
AnnotatePcs == {"annotate", "semantics", "meta", "mirror"}
ReviewPcs == {"review", "verdict", "sync", "syncindex", "skill"}
Locked == ConvertPcs \cup AnnotatePcs \cup ReviewPcs
Reasons == {"force", "absent", "version_changed", "params_changed", "folder_missing", "match"}

Command ==
  [kind : {None, "convert", "annotate", "review"}, pc : Locked \cup {"idle", "probe", "lock"},
   pkg : Content \cup {None}, force : BOOLEAN, version : Version \cup {None},
   params : Params \cup {None}, model : Model \cup {None}, tries : 0 .. Attempts - 1,
   reason : Reasons \cup {None}, staging : Package \cup {None}, units : Units \cup {None},
   verdict : {"approved", "rejected", None}]

Types ==
  /\ source \in Content
  /\ folder \in [Content -> Package \cup {None}]
  /\ index \in [Content -> IndexEntry \cup {None}]
  /\ lock \in [Content -> Process \cup {None}]
  /\ op \in [Process -> Command]
  /\ ops \in 0 .. MaxOps /\ crashes \in Nat

\* A command holds the lock of its package, and no other one.
LocksAreHeld ==
  /\ \A p \in Process : op[p].pc \in Locked =>
       op[p].pkg \in Content /\ lock[op[p].pkg] = p
  /\ \A c \in Content, p \in Process : lock[c] = p =>
       op[p].pc \in Locked /\ op[p].pkg = c

-----------------------------------------------------------------------------

\* A package, in its place or staged.
FolderOK(c, f) ==
  f # None =>
    /\ f.from = c
    /\ f.semantics # None /\ f.semantics.status = "approved" => f.semantics.fits

\* What a conversion puts in place.
Good(f) ==
  /\ f.whole /\ f.skill = Render(f.semantics)
  /\ AnnotationAgrees(f.semantics, f.annotation)
  /\ f.semantics # None => f.semantics.fits \/ f.semantics.status = "draft"

\* A key stands for a complete annotation, and only a complete one is approved.
KeyOK(f) ==
  f.semantics # None =>
    /\ f.annotation.key # None => f.semantics.whole
    /\ f.semantics.status = "approved" => f.semantics.whole

ApprovedOK(f) == f.semantics # None /\ f.semantics.status = "approved" => f.semantics.whole

\* As long as no command has died: the package f with the index entry e, the
\* holder of its lock at the step pc ("idle" without one).
SetOK(pc, f, e) ==
  f # None =>
    /\ ApprovedOK(f)
    /\ pc # "meta" => KeyOK(f)
    /\ pc \notin {"record", "mirror", "syncindex"} => e = Entry(f)

KeyFor(o) == IF o.units = "all" THEN o.model ELSE None

Fresh(f) == f.whole /\ f.semantics = None /\ f.annotation = NoAnnotation /\ f.skill = None

\* The command o, the source s, the package f of the command with its entry e;
\* free: no command has died.
OpOK(o, s, f, e, free) ==
  /\ o.kind = "convert" => o.version \in Version /\ o.params \in Params
  /\ o.kind = "annotate" => o.model \in Model
  /\ o.kind = "review" => o.verdict \in {"approved", "rejected"}
  /\ o.pc \in {"probe"} \cup ConvertPcs => o.kind = "convert"
  /\ o.pc \in AnnotatePcs => o.kind = "annotate"
  /\ o.pc \in ReviewPcs => o.kind = "review"
  /\ o.pc = "lock" => o.kind # None /\ o.pkg \in Content
  /\ o.pc \in {"lock"} \cup ConvertPcs /\ o.kind = "convert" => o.pkg <= s
  /\ o.pc = "hit" => (free => f.version = o.version /\ f.params = o.params)
  /\ o.pc = "stage" =>
       /\ o.staging \in Package /\ Fresh(o.staging)
       /\ o.pkg <= o.staging.from /\ o.staging.from <= s
  /\ o.pc = "inherit" => o.staging \in Package /\ Fresh(o.staging) /\ o.staging.from = o.pkg
  /\ o.pc \in {"remove", "rename"} =>
       /\ o.staging \in Package /\ FolderOK(o.pkg, o.staging) /\ Good(o.staging)
       /\ free => KeyOK(o.staging)
  /\ o.pc = "record" => f \in Package /\ Good(f)
  /\ o.pc = "semantics" => f \in Package /\ o.units \in Units
  /\ o.pc = "meta" =>
       /\ f \in Package /\ o.units \in Units
       /\ f.semantics # None => f.semantics.whole = (o.units = "all")
  /\ o.pc = "mirror" =>
       /\ f \in Package /\ f.annotation = [status |-> "draft", key |-> KeyFor(o)]
       /\ free => e \in IndexEntry /\ e.version = f.version /\ e.params = f.params
  /\ o.pc = "verdict" =>
       /\ f \in Package /\ f.semantics \in Interpretation
       /\ o.verdict = "approved" => f.semantics.fits /\ f.annotation.key # None
  /\ o.pc \in {"sync", "skill"} => f \in Package
  /\ o.pc = "syncindex" =>
       /\ f \in Package /\ f.annotation.status = o.verdict
       /\ free => /\ e \in IndexEntry /\ e.version = f.version /\ e.params = f.params
                  /\ e.key = f.annotation.key

At(c) == IF lock[c] = None THEN "idle" ELSE op[lock[c]].pc

IInv ==
  /\ Types
  /\ LocksAreHeld
  /\ \A c \in Content : FolderOK(c, folder[c])
  /\ \A p \in Process :
       OpOK(op[p], source, folder[op[p].pkg], index[op[p].pkg], crashes = 0)
  /\ crashes = 0 => \A c \in Content : SetOK(At(c), folder[c], index[c])
-----------------------------------------------------------------------------
(* Commands and their packages.                                             *)

\* A command without a lock knows nothing of its package, and loses nothing by
\* a change of the source.
LEMMA UnlockedOK ==
  ASSUME NEW o \in Command, NEW s \in Nat, NEW t \in Nat, s <= t, NEW f, NEW e,
         NEW g, NEW d, NEW free, NEW now, o.pc \notin Locked, OpOK(o, s, f, e, free)
  PROVE  OpOK(o, t, g, d, now)
<1>1. o.pc \in {"idle", "probe", "lock"}
  BY DEF Command
<1>2. o.pc = "lock" /\ o.kind = "convert" => o.pkg \in Nat /\ o.pkg <= s
  BY PackageAssumption DEF OpOK
<1>3. o.pc = "lock" /\ o.kind = "convert" => o.pkg <= t
  BY <1>2
<1> QED
  BY <1>1, <1>3 DEF OpOK, ConvertPcs, AnnotatePcs, ReviewPcs

\* A death only takes away what is known while none happened.
LEMMA DeathOK ==
  ASSUME NEW o, NEW s, NEW f, NEW e, NEW free \in BOOLEAN, NEW now \in BOOLEAN,
         now => free, OpOK(o, s, f, e, free)
  PROVE  OpOK(o, s, f, e, now)
<1> CASE free /\ now
  OBVIOUS
<1> CASE ~ now
  BY DEF OpOK
<1> QED
  OBVIOUS

\* The source only moves on.
LEMMA SourceOK ==
  ASSUME NEW o \in Command, NEW s \in Nat, NEW t \in Nat, s <= t, NEW f, NEW e,
         NEW free, o.pc \in Locked => o.pkg \in Content, OpOK(o, s, f, e, free)
  PROVE  OpOK(o, t, f, e, free)
<1>1. o.pc \in {"lock"} \cup ConvertPcs /\ o.kind = "convert" => o.pkg \in Nat /\ o.pkg <= s
  BY PackageAssumption DEF OpOK, Locked
<1>2. o.pc \in {"lock"} \cup ConvertPcs /\ o.kind = "convert" => o.pkg <= t
  BY <1>1
<1>3. o.pc = "stage" => o.staging.from \in Nat /\ o.staging.from <= s
  BY PackageAssumption DEF OpOK, Package
<1>4. o.pc = "stage" => o.staging.from <= t
  BY <1>3
<1> QED
  BY <1>2, <1>4 DEF OpOK

-----------------------------------------------------------------------------
(* The steps of a command under its lock: it changes its package, its entry *)
(* and itself, and keeps the lock or lets it go.                            *)

LEMMA LockedStep ==
  ASSUME IInv, NEW p \in Process, op[p].pc \in Locked,
         NEW f \in Package \cup {None}, NEW e \in IndexEntry \cup {None}, NEW o \in Command,
         folder' = [folder EXCEPT ![op[p].pkg] = f],
         index' = [index EXCEPT ![op[p].pkg] = e],
         op' = [op EXCEPT ![p] = o],
         \/ lock' = lock /\ o.pc \in Locked /\ o.pkg = op[p].pkg
         \/ Leave(p) /\ o.pc \in {"idle", "probe"},
         source' = source, ops' = ops, crashes' \in {crashes, crashes + 1},
         FolderOK(op[p].pkg, f),
         OpOK(o, source, f, e, crashes' = 0),
         crashes' = 0 => SetOK(IF o.pc \in Locked THEN o.pc ELSE "idle", f, e)
  PROVE  IInv'
<1> DEFINE c == op[p].pkg
<1>t. Types /\ LocksAreHeld
  BY DEF IInv
<1>c. c \in Content /\ lock[c] = p /\ p # None
  BY <1>t, PackageAssumption DEF LocksAreHeld
<1>n. crashes \in Nat /\ (crashes' = 0 => crashes = 0 /\ crashes' = crashes) /\ crashes' \in Nat
  BY <1>t DEF Types
<1>l. \A d \in Content : lock'[d] = IF d = c /\ o.pc \notin Locked THEN None ELSE lock[d]
  <2>1. CASE lock' = lock /\ o.pc \in Locked
    BY <2>1
  <2>2. CASE Leave(p) /\ o.pc \in {"idle", "probe"}
    <3>1. \A d \in Content : lock[d] = p => d = c
      BY <1>t DEF LocksAreHeld
    <3>2. o.pc \notin Locked
      BY <2>2 DEF Locked, ConvertPcs, AnnotatePcs, ReviewPcs
    <3> QED
      BY <2>2, <3>1, <3>2, <1>c DEF Leave
  <2> QED
    BY <2>1, <2>2
<1>o. /\ op'[p] = o
      /\ \A q \in Process : q # p => op'[q] = op[q]
  BY <1>t DEF Types
<1>f. /\ folder'[c] = f /\ index'[c] = e
      /\ \A d \in Content : d # c => folder'[d] = folder[d] /\ index'[d] = index[d]
  BY <1>t, <1>c DEF Types
<1>q. \A q \in Process : q # p /\ op[q].pc \in Locked => op[q].pkg \in Content /\ op[q].pkg # c
  BY <1>t, <1>c DEF LocksAreHeld
<1>k. o.pc \in Locked => o.pkg = c
  BY DEF Locked, ConvertPcs, AnnotatePcs, ReviewPcs
<1>1. Types'
  <2>1. lock' \in [Content -> Process \cup {None}]
    BY <1>t DEF Types, Leave
  <2> QED
    BY <1>t, <1>c, <1>n, <2>1 DEF Types
<1>2. LocksAreHeld'
  <2>1. \A q \in Process : op'[q].pc \in Locked => op'[q].pkg \in Content /\ lock'[op'[q].pkg] = q
    <3> SUFFICES ASSUME NEW q \in Process, op'[q].pc \in Locked
                 PROVE  op'[q].pkg \in Content /\ lock'[op'[q].pkg] = q
      OBVIOUS
    <3>1. CASE q = p
      BY <3>1, <1>o, <1>k, <1>l, <1>c
    <3>2. CASE q # p
      BY <3>2, <1>o, <1>q, <1>l, <1>t DEF LocksAreHeld
    <3> QED
      BY <3>1, <3>2
  <2>2. \A d \in Content, q \in Process : lock'[d] = q => op'[q].pc \in Locked /\ op'[q].pkg = d
    <3> SUFFICES ASSUME NEW d \in Content, NEW q \in Process, lock'[d] = q
                 PROVE  op'[q].pc \in Locked /\ op'[q].pkg = d
      OBVIOUS
    <3>0. q # None
      BY PackageAssumption
    <3>1. lock[d] = q /\ ~ (d = c /\ o.pc \notin Locked)
      BY <3>0, <1>l
    <3>2. op[q].pc \in Locked /\ op[q].pkg = d
      BY <3>1, <1>t DEF LocksAreHeld
    <3>3. CASE q = p
      BY <3>3, <3>1, <3>2, <1>o, <1>k
    <3>4. CASE q # p
      BY <3>4, <3>2, <1>o
    <3> QED
      BY <3>3, <3>4
  <2> QED
    BY <2>1, <2>2 DEF LocksAreHeld
<1>3. \A d \in Content : FolderOK(d, folder'[d])
  BY <1>f DEF IInv
<1>4. \A q \in Process :
        OpOK(op'[q], source', folder'[op'[q].pkg], index'[op'[q].pkg], crashes' = 0)
  <2> SUFFICES ASSUME NEW q \in Process
               PROVE  OpOK(op'[q], source', folder'[op'[q].pkg], index'[op'[q].pkg], crashes' = 0)
    OBVIOUS
  <2>s. source \in Nat /\ source <= source
    BY <1>t, PackageAssumption DEF Types
  <2>1. CASE q = p /\ o.pc \in Locked
    BY <2>1, <1>o, <1>k, <1>f
  <2>2. CASE q = p /\ o.pc \notin Locked
    <3>1. OpOK(o, source, folder'[o.pkg], index'[o.pkg], crashes' = 0)
      BY <2>2, <2>s, UnlockedOK
    <3> QED
      BY <2>2, <3>1, <1>o
  <2>3. CASE q # p
    <3>1. OpOK(op[q], source, folder[op[q].pkg], index[op[q].pkg], crashes = 0)
      BY DEF IInv
    <3>2. OpOK(op[q], source, folder[op[q].pkg], index[op[q].pkg], crashes' = 0)
      BY <3>1, <1>n, DeathOK
    <3>3. op[q] \in Command
      BY <1>t DEF Types
    <3>4. CASE op[q].pc \in Locked
      BY <2>3, <3>2, <3>4, <1>o, <1>q, <1>f
    <3>5. CASE op[q].pc \notin Locked
      <4>1. OpOK(op[q], source, folder'[op[q].pkg], index'[op[q].pkg], crashes' = 0)
        BY <3>2, <3>3, <3>5, <2>s, UnlockedOK
      <4> QED
        BY <2>3, <4>1, <1>o
    <3> QED
      BY <3>4, <3>5
  <2> QED
    BY <2>1, <2>2, <2>3
<1>5. crashes' = 0 => \A d \in Content : SetOK(At(d)', folder'[d], index'[d])
  <2> SUFFICES ASSUME crashes' = 0, NEW d \in Content
               PROVE  SetOK(At(d)', folder'[d], index'[d])
    OBVIOUS
  <2>1. CASE d = c
    <3>1. At(d)' = IF o.pc \in Locked THEN o.pc ELSE "idle"
      BY <2>1, <1>l, <1>c, <1>o DEF At
    <3> QED
      BY <2>1, <3>1, <1>f
  <2>2. CASE d # c
    <3>1. lock'[d] = lock[d] /\ lock[d] # p
      BY <2>2, <1>l, <1>t DEF LocksAreHeld
    <3>2. lock[d] # None => lock[d] \in Process
      BY <1>t DEF Types
    <3>3. At(d)' = At(d)
      BY <3>1, <3>2, <1>o DEF At
    <3>4. SetOK(At(d), folder[d], index[d])
      BY <1>n DEF IInv
    <3> QED
      BY <2>2, <3>3, <3>4, <1>f
  <2> QED
    BY <2>1, <2>2
<1> QED
  BY <1>1, <1>2, <1>3, <1>4, <1>5 DEF IInv

\* What the holder of a lock knows.
LEMMA HolderFacts ==
  ASSUME IInv, NEW p \in Process, op[p].pc \in Locked
  PROVE  /\ op[p] \in Command /\ op[p].pkg \in Content /\ op[p].pkg \in Nat
         /\ source \in Content /\ source \in Nat /\ crashes \in Nat
         /\ ops \in 0 .. MaxOps
         /\ folder \in [Content -> Package \cup {None}]
         /\ index \in [Content -> IndexEntry \cup {None}]
         /\ folder[op[p].pkg] \in Package \cup {None}
         /\ index[op[p].pkg] \in IndexEntry \cup {None}
         /\ op \in [Process -> Command]
         /\ FolderOK(op[p].pkg, folder[op[p].pkg])
         /\ OpOK(op[p], source, folder[op[p].pkg], index[op[p].pkg], crashes = 0)
         /\ crashes = 0 => SetOK(op[p].pc, folder[op[p].pkg], index[op[p].pkg])
<1>1. Types /\ LocksAreHeld
  BY DEF IInv
<1>2. op[p].pkg \in Content /\ lock[op[p].pkg] = p /\ p # None
  BY <1>1, PackageAssumption DEF LocksAreHeld
<1>3. crashes = 0 => SetOK(op[p].pc, folder[op[p].pkg], index[op[p].pkg])
  BY <1>2 DEF IInv, At
<1>4. FolderOK(op[p].pkg, folder[op[p].pkg])
  BY <1>2 DEF IInv
<1>5. OpOK(op[p], source, folder[op[p].pkg], index[op[p].pkg], crashes = 0)
  BY DEF IInv
<1> QED
  BY <1>1, <1>2, <1>3, <1>4, <1>5, PackageAssumption DEF Types

\* A step of the holder that leaves its package and its entry as they are.
LEMMA CommandStep ==
  ASSUME IInv, NEW p \in Process, op[p].pc \in Locked, NEW o \in Command,
         folder' = folder, index' = index, op' = [op EXCEPT ![p] = o],
         \/ lock' = lock /\ o.pc \in Locked /\ o.pkg = op[p].pkg
         \/ Leave(p) /\ o.pc \in {"idle", "probe"},
         source' = source, ops' = ops, crashes' \in {crashes, crashes + 1},
         OpOK(o, source, folder[op[p].pkg], index[op[p].pkg], crashes' = 0),
         crashes' = 0 => SetOK(IF o.pc \in Locked THEN o.pc ELSE "idle",
                               folder[op[p].pkg], index[op[p].pkg])
  PROVE  IInv'
<1>1. /\ folder' = [folder EXCEPT ![op[p].pkg] = folder[op[p].pkg]]
      /\ index' = [index EXCEPT ![op[p].pkg] = index[op[p].pkg]]
  BY HolderFacts
<1> QED
  BY <1>1, HolderFacts, LockedStep

\* The end of a command is allowed where its package is settled.
LEMMA EndStep ==
  ASSUME IInv, NEW p \in Process, op[p].pc \in Locked,
         NEW f \in Package \cup {None}, NEW e \in IndexEntry \cup {None},
         folder' = [folder EXCEPT ![op[p].pkg] = f],
         index' = [index EXCEPT ![op[p].pkg] = e],
         End(p), source' = source, ops' = ops, crashes' \in {crashes, crashes + 1},
         FolderOK(op[p].pkg, f),
         crashes' = 0 => SetOK("idle", f, e)
  PROVE  IInv'
<1>1. NoOp \in Command /\ NoOp.pc = "idle" /\ NoOp.pc \notin Locked /\ NoOp.kind = None
  BY PackageAssumption DEF NoOp, Command, Locked, ConvertPcs, AnnotatePcs, ReviewPcs
<1>2. OpOK(NoOp, source, f, e, crashes' = 0)
  BY <1>1, PackageAssumption DEF OpOK, NoOp, ConvertPcs, AnnotatePcs, ReviewPcs
<1> QED
  BY <1>1, <1>2, LockedStep DEF End

\* The fields of a command that moves on.
LEMMA Moved ==
  ASSUME NEW o \in Command, NEW pc \in Locked \cup {"idle", "probe", "lock"}
  PROVE  LET n == [o EXCEPT !.pc = pc]
         IN /\ n \in Command /\ n.pc = pc /\ n.kind = o.kind /\ n.pkg = o.pkg
            /\ n.version = o.version /\ n.params = o.params /\ n.model = o.model
            /\ n.staging = o.staging /\ n.units = o.units /\ n.verdict = o.verdict
            /\ KeyFor(n) = KeyFor(o)
  BY DEF Command, KeyFor

\* A step that only moves on, with what the next step must know.
LEMMA GoStep ==
  ASSUME IInv, NEW p \in Process, op[p].pc \in Locked, NEW pc \in Locked, Go(p, pc),
         UNCHANGED <<source, folder, index, lock, ops, crashes>>,
         OpOK([op[p] EXCEPT !.pc = pc], source, folder[op[p].pkg], index[op[p].pkg],
              crashes = 0),
         crashes = 0 => SetOK(pc, folder[op[p].pkg], index[op[p].pkg])
  PROVE  IInv'
<1> DEFINE o == [op[p] EXCEPT !.pc = pc]
<1>1. o \in Command /\ o.pc = pc /\ o.pkg = op[p].pkg
  BY HolderFacts, Moved
<1>2. op' = [op EXCEPT ![p] = o]
  BY HolderFacts DEF Go
<1> HIDE DEF o
<1>3. OpOK(o, source, folder[op[p].pkg], index[op[p].pkg], crashes' = 0)
  BY DEF o
<1>4. crashes' = 0 => SetOK(IF o.pc \in Locked THEN o.pc ELSE "idle",
                            folder[op[p].pkg], index[op[p].pkg])
  BY <1>1
<1> QED
  BY <1>1, <1>2, <1>3, <1>4, HolderFacts, CommandStep

-----------------------------------------------------------------------------
(* The steps of convert.                                                    *)

LEMMA TryAgainStep ==
  ASSUME IInv, NEW p \in Process, op[p].pc \in Locked, op[p].kind = "convert",
         op[p].pc \notin {"meta", "record", "mirror", "syncindex"},
         TryAgain(p), UNCHANGED <<source, folder, index, ops, crashes>>
  PROVE  IInv'
<1>f. /\ op[p] \in Command /\ op \in [Process -> Command]
      /\ OpOK(op[p], source, folder[op[p].pkg], index[op[p].pkg], crashes = 0)
      /\ crashes = 0 => SetOK(op[p].pc, folder[op[p].pkg], index[op[p].pkg])
  BY HolderFacts
<1>s. crashes = 0 => SetOK("idle", folder[op[p].pkg], index[op[p].pkg])
  BY <1>f DEF SetOK
<1>1. CASE op[p].tries + 1 < Attempts
  <2> DEFINE o == [op[p] EXCEPT !.pc = "probe", !.tries = op[p].tries + 1]
  <2>1. op' = [op EXCEPT ![p] = o]
    BY <1>1, <1>f DEF TryAgain
  <2>2. op[p].tries + 1 \in 0 .. Attempts - 1
    BY <1>1, <1>f, PackageAssumption DEF Command
  <2>3. /\ o \in Command /\ o.pc = "probe" /\ o.kind = "convert"
        /\ o.version = op[p].version /\ o.params = op[p].params
    BY <1>f, <2>2 DEF Command
  <2> HIDE DEF o
  <2>4. o.pc \notin Locked
    BY <2>3 DEF Locked, ConvertPcs, AnnotatePcs, ReviewPcs
  <2>5. OpOK(o, source, folder[op[p].pkg], index[op[p].pkg], crashes' = 0)
    BY <1>f, <2>3 DEF OpOK, ConvertPcs, AnnotatePcs, ReviewPcs
  <2>6. Leave(p)
    BY DEF TryAgain
  <2> QED
    BY <1>s, <2>1, <2>3, <2>4, <2>5, <2>6, CommandStep
<1>2. CASE ~ op[p].tries + 1 < Attempts
  <2>1. End(p)
    BY <1>2 DEF TryAgain, End
  <2>2. /\ folder' = [folder EXCEPT ![op[p].pkg] = folder[op[p].pkg]]
        /\ index' = [index EXCEPT ![op[p].pkg] = index[op[p].pkg]]
    BY HolderFacts
  <2> QED
    BY <1>s, <2>1, <2>2, HolderFacts, EndStep
<1> QED
  BY <1>1, <1>2

\* An end without a change.
LEMMA PlainEnd ==
  ASSUME IInv, NEW p \in Process, op[p].pc \in Locked, End(p),
         UNCHANGED <<source, folder, index, ops>>, crashes' \in {crashes, crashes + 1},
         crashes' = 0 => op[p].pc \notin {"meta", "record", "mirror", "syncindex"}
  PROVE  IInv'
<1>1. /\ folder' = [folder EXCEPT ![op[p].pkg] = folder[op[p].pkg]]
      /\ index' = [index EXCEPT ![op[p].pkg] = index[op[p].pkg]]
  BY HolderFacts
<1>2. crashes' = 0 => crashes = 0
  BY HolderFacts
<1>3. crashes' = 0 => SetOK("idle", folder[op[p].pkg], index[op[p].pkg])
  BY <1>2, HolderFacts DEF SetOK
<1> QED
  BY <1>1, <1>3, HolderFacts, EndStep

\* The step of convert that p takes, from its pc.
LEMMA ConvertPc ==
  ASSUME IInv, NEW p \in Process, op[p].pc \in ConvertPcs
  PROVE  /\ op[p].pc \in Locked /\ op[p].kind = "convert"
         /\ op[p].version \in Version /\ op[p].params \in Params
         /\ op[p].pkg <= source
  BY HolderFacts DEF OpOK, Locked

LEMMA ProbeAgainOK ==
  ASSUME IInv, NEW p \in Process, ProbeAgain(p)
  PROVE  IInv'
<1> DEFINE c == op[p].pkg
<1>1. op[p].pc = "convert" /\ op[p].pc \in ConvertPcs /\ op[p].pc \in Locked
  BY DEF ProbeAgain, ConvertPcs, Locked
<1>k. op[p].kind = "convert" /\ op[p].version \in Version /\ op[p].params \in Params
  BY <1>1, ConvertPc
<1>f. /\ op[p] \in Command /\ op \in [Process -> Command]
      /\ OpOK(op[p], source, folder[c], index[c], crashes = 0)
      /\ crashes = 0 => SetOK("convert", folder[c], index[c])
  BY <1>1, HolderFacts
<1>2. CASE source # c
  BY <1>1, <1>k, <1>2, TryAgainStep DEF ProbeAgain
<1>3. CASE source = c /\ Reason(source, op[p]) = "match"
  <2>1. folder[c] # None /\ index[c].version = op[p].version /\ index[c].params = op[p].params
    BY <1>3 DEF Reason
  <2>2. crashes = 0 => folder[c].version = op[p].version /\ folder[c].params = op[p].params
    BY <1>f, <2>1 DEF SetOK, Entry
  <2> DEFINE o == [op[p] EXCEPT !.pc = "hit"]
  <2>3. "hit" \in Locked
    BY DEF Locked, ConvertPcs
  <2>4. /\ o.pc = "hit" /\ o.kind = "convert" /\ o.pkg = c
        /\ o.version = op[p].version /\ o.params = op[p].params
    BY <1>f, <1>k, <2>3, Moved
  <2>5. OpOK(o, source, folder[c], index[c], crashes = 0)
    <3> HIDE DEF o
    <3> QED
      BY <1>f, <1>k, <1>1, <2>2, <2>4 DEF OpOK, ConvertPcs, AnnotatePcs, ReviewPcs
  <2>6. crashes = 0 => SetOK("hit", folder[c], index[c])
    BY <1>f DEF SetOK
  <2>7. Go(p, "hit") /\ UNCHANGED <<source, folder, index, lock, ops, crashes>>
    BY <1>3 DEF ProbeAgain
  <2> QED
    BY <1>1, <2>3, <2>5, <2>6, <2>7, GoStep
<1>4. CASE source = c /\ Reason(source, op[p]) # "match"
  <2> DEFINE o == [op[p] EXCEPT !.pc = "extract", !.reason = Reason(source, op[p])]
  <2>1. Reason(source, op[p]) \in Reasons
    BY DEF Reason, Reasons
  <2>2. op' = [op EXCEPT ![p] = o] /\ lock' = lock
    BY <1>4, <1>f DEF ProbeAgain
  <2>3. "extract" \in Locked
    BY DEF Locked, ConvertPcs
  <2>4. /\ o \in Command /\ o.pc = "extract" /\ o.kind = "convert" /\ o.pkg = c
        /\ o.version = op[p].version /\ o.params = op[p].params
    BY <1>f, <1>k, <2>1, <2>3 DEF Command
  <2> HIDE DEF o
  <2>5. OpOK(o, source, folder[c], index[c], crashes = 0)
    BY <1>f, <1>k, <1>1, <2>4 DEF OpOK, ConvertPcs, AnnotatePcs, ReviewPcs
  <2>6. crashes = 0 => SetOK("extract", folder[c], index[c])
    BY <1>f DEF SetOK
  <2>7. UNCHANGED <<source, folder, index, ops, crashes>>
    BY DEF ProbeAgain
  <2> QED
    BY <1>1, <2>2, <2>3, <2>4, <2>5, <2>6, <2>7, CommandStep
<1> QED
  BY <1>2, <1>3, <1>4

LEMMA CacheHitOK ==
  ASSUME IInv, NEW p \in Process, CacheHit(p)
  PROVE  IInv'
<1>1. op[p].pc = "hit" /\ op[p].pc \in Locked
  BY DEF CacheHit, ConvertPcs, Locked
<1> QED
  BY <1>1, PlainEnd DEF CacheHit

LEMMA ExtractOK ==
  ASSUME IInv, NEW p \in Process, Extract(p)
  PROVE  IInv'
<1> DEFINE c == op[p].pkg
<1> DEFINE st == [from |-> source, version |-> op[p].version, params |-> op[p].params,
                  whole |-> TRUE, semantics |-> None, annotation |-> NoAnnotation,
                  skill |-> None]
<1> DEFINE o == [op[p] EXCEPT !.pc = "stage", !.staging = st]
<1>1. op[p].pc = "extract" /\ op[p].pc \in ConvertPcs /\ op[p].pc \in Locked
  BY DEF Extract, ConvertPcs, Locked
<1>k. /\ op[p].kind = "convert" /\ op[p].version \in Version /\ op[p].params \in Params
      /\ op[p].pkg <= source
  BY <1>1, ConvertPc
<1>f. /\ op[p] \in Command /\ op \in [Process -> Command] /\ source \in Content /\ source \in Nat
      /\ OpOK(op[p], source, folder[c], index[c], crashes = 0)
      /\ crashes = 0 => SetOK("extract", folder[c], index[c])
  BY <1>1, HolderFacts
<1>2. st \in Package /\ Fresh(st) /\ st.from = source
  BY <1>k, <1>f DEF Package, Fresh, NoAnnotation, Note
<1> HIDE DEF st
<1>3. op' = [op EXCEPT ![p] = o]
  BY <1>f DEF Extract, st
<1>4. "stage" \in Locked
  BY DEF Locked, ConvertPcs
<1>5. /\ o \in Command /\ o.pc = "stage" /\ o.kind = "convert" /\ o.pkg = c
      /\ o.version = op[p].version /\ o.params = op[p].params /\ o.staging = st
  BY <1>f, <1>k, <1>2, <1>4 DEF Command
<1> HIDE DEF o
<1>6. OpOK(o, source, folder[c], index[c], crashes = 0)
  BY <1>f, <1>k, <1>1, <1>2, <1>5 DEF OpOK, ConvertPcs, AnnotatePcs, ReviewPcs
<1>7. crashes = 0 => SetOK("stage", folder[c], index[c])
  BY <1>f DEF SetOK
<1>8. UNCHANGED <<source, folder, index, lock, ops, crashes>>
  BY DEF Extract
<1> QED
  BY <1>1, <1>3, <1>4, <1>5, <1>6, <1>7, <1>8, CommandStep

LEMMA StageOK ==
  ASSUME IInv, NEW p \in Process, Stage(p)
  PROVE  IInv'
<1> DEFINE c == op[p].pkg
<1>1. op[p].pc = "stage" /\ op[p].pc \in ConvertPcs /\ op[p].pc \in Locked
  BY DEF Stage, ConvertPcs, Locked
<1>k. /\ op[p].kind = "convert" /\ op[p].version \in Version /\ op[p].params \in Params
      /\ op[p].pkg <= source
  BY <1>1, ConvertPc
<1>2. CASE ~ SameDigest(p)
  BY <1>1, <1>k, <1>2, TryAgainStep DEF Stage
<1>3. CASE SameDigest(p)
  <2> DEFINE o == [op[p] EXCEPT !.pc = "inherit"]
  <2>f. /\ op[p] \in Command /\ c \in Nat
        /\ OpOK(op[p], source, folder[c], index[c], crashes = 0)
        /\ crashes = 0 => SetOK("stage", folder[c], index[c])
    BY <1>1, HolderFacts
  <2>1. /\ op[p].staging \in Package /\ Fresh(op[p].staging)
        /\ c <= op[p].staging.from /\ op[p].staging.from <= source
    BY <1>1, <2>f DEF OpOK
  <2>2. op[p].staging.from \in Nat
    BY <2>1, PackageAssumption DEF Package
  <2>3. op[p].staging.from = c
    BY <1>3, <2>1, <2>2, <2>f DEF SameDigest
  <2>4. "inherit" \in Locked
    BY DEF Locked, ConvertPcs
  <2>5. /\ o.pc = "inherit" /\ o.kind = "convert" /\ o.pkg = c
        /\ o.version = op[p].version /\ o.params = op[p].params /\ o.staging = op[p].staging
    BY <2>f, <1>k, <2>4, Moved
  <2>6. OpOK(o, source, folder[c], index[c], crashes = 0)
    <3> HIDE DEF o
    <3> QED
      BY <2>f, <1>k, <1>1, <2>1, <2>3, <2>5 DEF OpOK, ConvertPcs, AnnotatePcs, ReviewPcs
  <2>7. crashes = 0 => SetOK("inherit", folder[c], index[c])
    BY <2>f DEF SetOK
  <2>8. Go(p, "inherit") /\ UNCHANGED <<source, folder, index, lock, ops, crashes>>
    BY <1>3 DEF Stage
  <2> QED
    BY <1>1, <2>4, <2>6, <2>7, <2>8, GoStep
<1> QED
  BY <1>2, <1>3

\* What is staged before the replacement: a fresh package, or one that inherits.
LEMMA FreshIsGood ==
  ASSUME NEW c, NEW st \in Package, Fresh(st), st.from = c
  PROVE  FolderOK(c, st) /\ Good(st) /\ KeyOK(st)
BY DEF FolderOK, Good, KeyOK, Fresh, Render, AnnotationAgrees

LEMMA InheritedIsGood ==
  ASSUME NEW c, NEW st \in Package, Fresh(st), st.from = c,
         NEW old \in Interpretation, NEW fits \in BOOLEAN, NEW free \in BOOLEAN,
         old.model # None, free => old.whole
  PROVE  LET new == Inherited(st, Demoted(old, fits))
         IN new \in Package /\ FolderOK(c, new) /\ Good(new) /\ (free => KeyOK(new))
<1> DEFINE sem == Demoted(old, fits)
<1> DEFINE new == Inherited(st, sem)
<1>1. /\ sem \in Interpretation /\ sem.model = old.model /\ sem.whole = old.whole
      /\ sem.fits = fits /\ (sem.status = "approved" => fits)
      /\ (fits \/ sem.status = "draft") /\ sem.status \in Status /\ sem.id \in 0 .. MaxOps
      /\ sem.model \in Model
  BY DEF Demoted, Interpretation, Status
<1>2. sem # None
  BY <1>1, PackageAssumption
<1> HIDE DEF sem
<1>3. Render(sem) \in 0 .. MaxOps \cup {None}
  BY <1>1 DEF Render
<1>4. /\ new.from = c /\ new.whole = TRUE /\ new.semantics = sem /\ new.skill = Render(sem)
      /\ new.annotation = [status |-> sem.status, key |-> sem.model]
  BY DEF Inherited, InheritedView, Package, Fresh
<1>5. new \in Package
  BY <1>1, <1>3 DEF Inherited, InheritedView, Package, Note
<1> HIDE DEF new
<1>6. new.annotation.status = sem.status /\ new.annotation.key = sem.model
  BY <1>4
<1>7. FolderOK(c, new)
  BY <1>1, <1>4 DEF FolderOK
<1>8. Good(new)
  BY <1>1, <1>2, <1>4, <1>6 DEF Good, AnnotationAgrees
<1>9. free => KeyOK(new)
  BY <1>1, <1>4 DEF KeyOK
<1> QED
  BY <1>5, <1>7, <1>8, <1>9 DEF new, sem

LEMMA InheritOK ==
  ASSUME IInv, NEW p \in Process, Inherit(p)
  PROVE  IInv'
<1> DEFINE c == op[p].pkg
<1>1. op[p].pc = "inherit" /\ op[p].pc \in ConvertPcs /\ op[p].pc \in Locked
  BY DEF Inherit, ConvertPcs, Locked
<1>k. /\ op[p].kind = "convert" /\ op[p].version \in Version /\ op[p].params \in Params
      /\ op[p].pkg <= source
  BY <1>1, ConvertPc
<1>f. /\ op[p] \in Command /\ op \in [Process -> Command]
      /\ folder[c] \in Package \cup {None}
      /\ OpOK(op[p], source, folder[c], index[c], crashes = 0)
      /\ crashes = 0 => SetOK("inherit", folder[c], index[c])
  BY <1>1, HolderFacts
<1>2. op[p].staging \in Package /\ Fresh(op[p].staging) /\ op[p].staging.from = c
  BY <1>1, <1>f DEF OpOK
<1>3. "remove" \in Locked
  BY DEF Locked, ConvertPcs
<1>4. crashes = 0 => SetOK("remove", folder[c], index[c])
  BY <1>f DEF SetOK
<1>5. CASE /\ ShouldInherit(p)
           /\ \E fits \in BOOLEAN :
                op' = [op EXCEPT ![p].pc = "remove", ![p].staging =
                         Inherited(@, Demoted(folder[c].semantics, fits))]
  <2> DEFINE old == folder[c].semantics
  <2>1. PICK fits \in BOOLEAN :
          op' = [op EXCEPT ![p].pc = "remove",
                           ![p].staging = Inherited(op[p].staging, Demoted(old, fits))]
    BY <1>5, <1>f
  <2>2. /\ folder[c] \in Package /\ folder[c] # None /\ old # None /\ index[c].key # None
        /\ index[c].key = folder[c].annotation.key /\ folder[c].annotation.key = old.model
    BY <1>5, <1>f DEF ShouldInherit
  <2>3. old \in Interpretation
    BY <2>2 DEF Package
  <2>4. crashes = 0 => old.whole
    BY <1>f, <2>2 DEF SetOK, KeyOK
  <2> DEFINE st == Inherited(op[p].staging, Demoted(old, fits))
  <2>5. st \in Package /\ FolderOK(c, st) /\ Good(st) /\ (crashes = 0 => KeyOK(st))
    BY <1>2, <2>2, <2>3, <2>4, InheritedIsGood
  <2> HIDE DEF st
  <2> DEFINE o == [op[p] EXCEPT !.pc = "remove", !.staging = st]
  <2>6. op' = [op EXCEPT ![p] = o]
    BY <2>1, <1>f DEF st
  <2>7. /\ o \in Command /\ o.pc = "remove" /\ o.kind = "convert" /\ o.pkg = c
        /\ o.version = op[p].version /\ o.params = op[p].params /\ o.staging = st
    BY <1>f, <1>k, <2>5, <1>3 DEF Command
  <2> HIDE DEF o
  <2>8. OpOK(o, source, folder[c], index[c], crashes = 0)
    BY <1>f, <1>k, <1>1, <2>5, <2>7 DEF OpOK, ConvertPcs, AnnotatePcs, ReviewPcs
  <2>9. UNCHANGED <<source, folder, index, lock, ops, crashes>>
    BY DEF Inherit
  <2> QED
    BY <1>1, <1>3, <1>4, <2>6, <2>7, <2>8, <2>9, CommandStep
<1>6. CASE Go(p, "remove")
  <2> DEFINE o == [op[p] EXCEPT !.pc = "remove"]
  <2>1. FolderOK(c, op[p].staging) /\ Good(op[p].staging) /\ KeyOK(op[p].staging)
    BY <1>2, FreshIsGood
  <2>2. /\ o.pc = "remove" /\ o.kind = "convert" /\ o.pkg = c
        /\ o.version = op[p].version /\ o.params = op[p].params /\ o.staging = op[p].staging
    BY <1>f, <1>k, <1>3, Moved
  <2>3. OpOK(o, source, folder[c], index[c], crashes = 0)
    <3> HIDE DEF o
    <3> QED
      BY <1>f, <1>k, <1>1, <1>2, <2>1, <2>2 DEF OpOK, ConvertPcs, AnnotatePcs, ReviewPcs
  <2>4. Go(p, "remove") /\ UNCHANGED <<source, folder, index, lock, ops, crashes>>
    BY <1>6 DEF Inherit
  <2> QED
    BY <1>1, <1>3, <1>4, <2>3, <2>4, GoStep
<1> QED
  BY <1>5, <1>6 DEF Inherit

\* A step that changes the package and moves on.
LEMMA WriteStep ==
  ASSUME IInv, NEW p \in Process, op[p].pc \in Locked, NEW pc \in Locked, Go(p, pc),
         NEW f \in Package \cup {None}, folder' = [folder EXCEPT ![op[p].pkg] = f],
         UNCHANGED <<source, index, lock, ops, crashes>>,
         FolderOK(op[p].pkg, f),
         OpOK([op[p] EXCEPT !.pc = pc], source, f, index[op[p].pkg], crashes = 0),
         crashes = 0 => SetOK(pc, f, index[op[p].pkg])
  PROVE  IInv'
<1> DEFINE o == [op[p] EXCEPT !.pc = pc]
<1>1. o \in Command /\ o.pc = pc /\ o.pkg = op[p].pkg
  BY HolderFacts, Moved
<1>2. op' = [op EXCEPT ![p] = o] /\ index' = [index EXCEPT ![op[p].pkg] = index[op[p].pkg]]
  BY HolderFacts DEF Go
<1> HIDE DEF o
<1>3. OpOK(o, source, f, index[op[p].pkg], crashes' = 0)
  BY DEF o
<1>4. crashes' = 0 => SetOK(IF o.pc \in Locked THEN o.pc ELSE "idle", f, index[op[p].pkg])
  BY <1>1
<1> QED
  BY <1>1, <1>2, <1>3, <1>4, HolderFacts, LockedStep

LEMMA RemoveOK ==
  ASSUME IInv, NEW p \in Process, Remove(p)
  PROVE  IInv'
<1> DEFINE c == op[p].pkg
<1> DEFINE f == IF folder[c] = None THEN None ELSE [folder[c] EXCEPT !.whole = FALSE]
<1> DEFINE o == [op[p] EXCEPT !.pc = "rename"]
<1>1. op[p].pc = "remove" /\ op[p].pc \in ConvertPcs /\ op[p].pc \in Locked
  BY DEF Remove, ConvertPcs, Locked
<1>k. /\ op[p].kind = "convert" /\ op[p].version \in Version /\ op[p].params \in Params
      /\ op[p].pkg <= source
  BY <1>1, ConvertPc
<1>f. /\ op[p] \in Command /\ folder[c] \in Package \cup {None}
      /\ folder \in [Content -> Package \cup {None}]
      /\ FolderOK(c, folder[c])
      /\ OpOK(op[p], source, folder[c], index[c], crashes = 0)
      /\ crashes = 0 => SetOK("remove", folder[c], index[c])
  BY <1>1, HolderFacts
<1>2. folder[c] # None =>
        /\ f \in Package /\ f.from = folder[c].from /\ f.version = folder[c].version
        /\ f.params = folder[c].params /\ f.semantics = folder[c].semantics
        /\ f.annotation = folder[c].annotation
  BY <1>f DEF Package
<1>3. folder' = [folder EXCEPT ![c] = f]
  BY <1>f DEF Remove
<1>4. f \in Package \cup {None} /\ (folder[c] = None => f = None)
  BY <1>2
<1> HIDE DEF f
<1>5. FolderOK(c, f)
  BY <1>2, <1>4, <1>f DEF FolderOK
<1>6. crashes = 0 => SetOK("rename", f, index[c])
  BY <1>2, <1>4, <1>f DEF SetOK, KeyOK, ApprovedOK, Entry
<1>7. "rename" \in Locked
  BY DEF Locked, ConvertPcs
<1>8. /\ o.pc = "rename" /\ o.kind = "convert" /\ o.pkg = c
      /\ o.version = op[p].version /\ o.params = op[p].params /\ o.staging = op[p].staging
  BY <1>f, <1>k, <1>7, Moved
<1>9. OpOK(o, source, f, index[c], crashes = 0)
  <2> HIDE DEF o
  <2> QED
    BY <1>f, <1>k, <1>1, <1>8 DEF OpOK, ConvertPcs, AnnotatePcs, ReviewPcs
<1>10. Go(p, "rename") /\ UNCHANGED <<source, index, lock, ops, crashes>>
  BY DEF Remove
<1> QED
  BY <1>1, <1>3, <1>4, <1>5, <1>6, <1>7, <1>9, <1>10, WriteStep

LEMMA RenameOK ==
  ASSUME IInv, NEW p \in Process, Rename(p)
  PROVE  IInv'
<1> DEFINE c == op[p].pkg
<1>1. op[p].pc = "rename" /\ op[p].pc \in ConvertPcs /\ op[p].pc \in Locked
  BY DEF Rename, ConvertPcs, Locked
<1>k. /\ op[p].kind = "convert" /\ op[p].version \in Version /\ op[p].params \in Params
      /\ op[p].pkg <= source
  BY <1>1, ConvertPc
<1>f. /\ op[p] \in Command /\ op \in [Process -> Command]
      /\ index = [index EXCEPT ![c] = index[c]]
      /\ index[c] \in IndexEntry \cup {None}
      /\ OpOK(op[p], source, folder[c], index[c], crashes = 0)
  BY <1>1, HolderFacts
<1>s. /\ op[p].staging \in Package /\ FolderOK(c, op[p].staging) /\ Good(op[p].staging)
      /\ crashes = 0 => KeyOK(op[p].staging)
  BY <1>1, <1>f DEF OpOK
<1>u. UNCHANGED <<source, index, lock, ops, crashes>>
  BY DEF Rename
<1>2. CASE folder' = [folder EXCEPT ![c] = None] /\ UNCHANGED op
  <2>1. op' = [op EXCEPT ![p] = op[p]]
    BY <1>2, <1>f
  <2>2. FolderOK(c, None)
    BY DEF FolderOK
  <2>3. SetOK(IF op[p].pc \in Locked THEN op[p].pc ELSE "idle", None, index[c])
    BY DEF SetOK
  <2>4. OpOK(op[p], source, None, index[c], crashes' = 0)
    BY <1>f, <1>1, <1>u DEF OpOK
  <2> QED
    BY <1>1, <1>2, <1>f, <1>u, <2>1, <2>2, <2>3, <2>4, LockedStep
<1>3. CASE folder' = [folder EXCEPT ![c] = op[p].staging] /\ Go(p, "record")
  <2> DEFINE o == [op[p] EXCEPT !.pc = "record"]
  <2>1. "record" \in Locked
    BY DEF Locked, ConvertPcs
  <2>2. /\ o.pc = "record" /\ o.kind = "convert" /\ o.pkg = c
        /\ o.version = op[p].version /\ o.params = op[p].params
    BY <1>f, <1>k, <2>1, Moved
  <2>3. OpOK(o, source, op[p].staging, index[c], crashes = 0)
    <3> HIDE DEF o
    <3> QED
      BY <1>f, <1>k, <1>s, <1>1, <2>2 DEF OpOK, ConvertPcs, AnnotatePcs, ReviewPcs
  <2>4. crashes = 0 => SetOK("record", op[p].staging, index[c])
    BY <1>s DEF SetOK, KeyOK, ApprovedOK
  <2> QED
    BY <1>1, <1>3, <1>s, <1>u, <2>1, <2>3, <2>4, WriteStep
<1> QED
  BY <1>2, <1>3 DEF Rename

LEMMA EntryType ==
  ASSUME NEW f \in Package
  PROVE  Entry(f) \in IndexEntry
BY DEF Entry, Package, IndexEntry, Note

LEMMA RecordOK ==
  ASSUME IInv, NEW p \in Process, Record(p)
  PROVE  IInv'
<1> DEFINE c == op[p].pkg
<1>1. op[p].pc = "record" /\ op[p].pc \in Locked
  BY DEF Record, ConvertPcs, Locked
<1>f. /\ folder \in [Content -> Package \cup {None}] /\ c \in Content
      /\ FolderOK(c, folder[c])
      /\ OpOK(op[p], source, folder[c], index[c], crashes = 0)
      /\ crashes = 0 => SetOK("record", folder[c], index[c])
  BY <1>1, HolderFacts
<1>2. folder[c] \in Package
  BY <1>1, <1>f DEF OpOK
<1>3. crashes = 0 => SetOK("idle", folder[c], Entry(folder[c]))
  BY <1>f DEF SetOK
<1>4. folder' = [folder EXCEPT ![c] = folder[c]]
  BY <1>f DEF Record
<1>5. index' = [index EXCEPT ![c] = Entry(folder[c])] /\ End(p)
      /\ UNCHANGED <<source, ops, crashes>>
  BY DEF Record, Recorded
<1> QED
  BY <1>1, <1>f, <1>2, <1>3, <1>4, <1>5, EntryType, EndStep

-----------------------------------------------------------------------------
(* The steps of annotate.                                                   *)

LEMMA AnnotatePc ==
  ASSUME IInv, NEW p \in Process, op[p].pc \in AnnotatePcs
  PROVE  op[p].pc \in Locked /\ op[p].kind = "annotate" /\ op[p].model \in Model
BY HolderFacts DEF OpOK, Locked

LEMMA AnnotateOK ==
  ASSUME IInv, NEW p \in Process, Annotate(p)
  PROVE  IInv'
<1> DEFINE c == op[p].pkg
<1>1. op[p].pc = "annotate" /\ op[p].pc \in AnnotatePcs /\ op[p].pc \in Locked
  BY DEF Annotate, AnnotatePcs, Locked
<1>k. op[p].kind = "annotate" /\ op[p].model \in Model
  BY <1>1, AnnotatePc
<1>f. /\ op[p] \in Command /\ op \in [Process -> Command]
      /\ folder[c] \in Package \cup {None}
      /\ OpOK(op[p], source, folder[c], index[c], crashes = 0)
      /\ crashes = 0 => SetOK("annotate", folder[c], index[c])
  BY <1>1, HolderFacts
<1>u. UNCHANGED <<source, folder, index, ops, crashes>>
  BY DEF Annotate
<1>2. CASE End(p)
  BY <1>1, <1>2, <1>u, PlainEnd
<1>3. CASE ~ End(p)
  <2>1. PICK units \in Units : op' = [op EXCEPT ![p].pc = "semantics", ![p].units = units]
    BY <1>3 DEF Annotate
  <2>2. folder[c] \in Package /\ lock' = lock
    BY <1>3, <1>f DEF Annotate
  <2> DEFINE o == [op[p] EXCEPT !.pc = "semantics", !.units = units]
  <2>3. op' = [op EXCEPT ![p] = o]
    BY <2>1, <1>f
  <2>4. "semantics" \in Locked
    BY DEF Locked, AnnotatePcs
  <2>5. /\ o \in Command /\ o.pc = "semantics" /\ o.kind = "annotate" /\ o.pkg = c
        /\ o.model = op[p].model /\ o.units = units
    BY <1>f, <1>k, <2>4 DEF Command
  <2> HIDE DEF o
  <2>6. OpOK(o, source, folder[c], index[c], crashes = 0)
    BY <1>f, <1>k, <1>1, <2>2, <2>5, PackageAssumption
    DEF OpOK, ConvertPcs, AnnotatePcs, ReviewPcs
  <2>7. crashes = 0 => SetOK("semantics", folder[c], index[c])
    BY <1>f DEF SetOK
  <2> QED
    BY <1>1, <1>u, <2>2, <2>3, <2>4, <2>5, <2>6, <2>7, CommandStep
<1> QED
  BY <1>2, <1>3

LEMMA WriteSemanticsOK ==
  ASSUME IInv, NEW p \in Process, WriteSemantics(p)
  PROVE  IInv'
<1> DEFINE c == op[p].pkg
<1> DEFINE sem == [id |-> ops, model |-> op[p].model, whole |-> op[p].units = "all",
                   fits |-> TRUE, status |-> "draft"]
<1> DEFINE f == [folder[c] EXCEPT !.semantics = sem]
<1> DEFINE o == [op[p] EXCEPT !.pc = "meta"]
<1>1. op[p].pc = "semantics" /\ op[p].pc \in AnnotatePcs /\ op[p].pc \in Locked
  BY DEF WriteSemantics, AnnotatePcs, Locked
<1>k. op[p].kind = "annotate" /\ op[p].model \in Model
  BY <1>1, AnnotatePc
<1>f. /\ op[p] \in Command /\ c \in Content /\ folder \in [Content -> Package \cup {None}]
      /\ FolderOK(c, folder[c]) /\ ops \in 0 .. MaxOps
      /\ OpOK(op[p], source, folder[c], index[c], crashes = 0)
      /\ crashes = 0 => SetOK("semantics", folder[c], index[c])
  BY <1>1, HolderFacts
<1>2. folder[c] \in Package /\ op[p].units \in Units
  BY <1>1, <1>f DEF OpOK
<1>3. /\ sem \in Interpretation /\ sem.whole = (op[p].units = "all") /\ sem.status = "draft"
  BY <1>k, <1>f DEF Interpretation, Status
<1>4. folder' = [folder EXCEPT ![c] = f]
  BY <1>f DEF WriteSemantics
<1> HIDE DEF sem
<1>5. /\ f \in Package /\ f.from = folder[c].from /\ f.version = folder[c].version
      /\ f.params = folder[c].params /\ f.semantics = sem /\ f.annotation = folder[c].annotation
  BY <1>2, <1>3 DEF Package
<1> HIDE DEF f
<1>6. FolderOK(c, f)
  <2>1. folder[c] # None /\ f.from = c
    BY <1>2, <1>5, <1>f, PackageAssumption DEF FolderOK
  <2> QED
    BY <2>1, <1>3, <1>5 DEF FolderOK
<1>n. folder[c] # None
  BY <1>2, PackageAssumption
<1>7. crashes = 0 => SetOK("meta", f, index[c])
  BY <1>n, <1>3, <1>5, <1>f DEF SetOK, ApprovedOK, Entry
<1>8. "meta" \in Locked
  BY DEF Locked, AnnotatePcs
<1>9. /\ o.pc = "meta" /\ o.kind = "annotate" /\ o.pkg = c
      /\ o.model = op[p].model /\ o.units = op[p].units
  BY <1>f, <1>k, <1>8, Moved
<1>10. OpOK(o, source, f, index[c], crashes = 0)
  <2> HIDE DEF o
  <2> QED
    BY <1>2, <1>3, <1>5, <1>9, <1>k, PackageAssumption
    DEF OpOK, ConvertPcs, AnnotatePcs, ReviewPcs
<1>11. Go(p, "meta") /\ UNCHANGED <<source, index, lock, ops, crashes>>
  BY DEF WriteSemantics
<1> QED
  BY <1>1, <1>4, <1>5, <1>6, <1>7, <1>8, <1>10, <1>11, WriteStep

LEMMA WriteMetaOK ==
  ASSUME IInv, NEW p \in Process, WriteMeta(p)
  PROVE  IInv'
<1> DEFINE c == op[p].pkg
<1> DEFINE note == [status |-> "draft", key |-> KeyFor(op[p])]
<1> DEFINE f == [folder[c] EXCEPT !.annotation = note]
<1> DEFINE o == [op[p] EXCEPT !.pc = "mirror"]
<1>1. op[p].pc = "meta" /\ op[p].pc \in AnnotatePcs /\ op[p].pc \in Locked
  BY DEF WriteMeta, AnnotatePcs, Locked
<1>k. op[p].kind = "annotate" /\ op[p].model \in Model
  BY <1>1, AnnotatePc
<1>f. /\ op[p] \in Command /\ c \in Content /\ folder \in [Content -> Package \cup {None}]
      /\ index[c] \in IndexEntry \cup {None}
      /\ FolderOK(c, folder[c])
      /\ OpOK(op[p], source, folder[c], index[c], crashes = 0)
      /\ crashes = 0 => SetOK("meta", folder[c], index[c])
  BY <1>1, HolderFacts
<1>2. /\ folder[c] \in Package /\ op[p].units \in Units
      /\ folder[c].semantics # None => folder[c].semantics.whole = (op[p].units = "all")
  BY <1>1, <1>f DEF OpOK
<1>3. note \in Note /\ (note.key # None => op[p].units = "all")
  BY <1>k DEF Note, KeyFor, Status
<1>4. folder' = [folder EXCEPT ![c] = f]
  BY <1>f DEF WriteMeta, RecordedKey, KeyFor
<1>5. note = [status |-> "draft", key |-> KeyFor(op[p])]
  OBVIOUS
<1> HIDE DEF note
<1>6. /\ f \in Package /\ f.from = folder[c].from /\ f.version = folder[c].version
      /\ f.params = folder[c].params /\ f.semantics = folder[c].semantics
      /\ f.annotation = note
  BY <1>2, <1>3 DEF Package
<1> HIDE DEF f
<1>n. folder[c] # None
  BY <1>2, PackageAssumption
<1>7. FolderOK(c, f)
  BY <1>6, <1>n, <1>f DEF FolderOK
<1>8. crashes = 0 => SetOK("mirror", f, index[c])
  BY <1>n, <1>2, <1>3, <1>6, <1>f DEF SetOK, ApprovedOK, KeyOK
<1>9. "mirror" \in Locked
  BY DEF Locked, AnnotatePcs
<1>10. /\ o.pc = "mirror" /\ o.kind = "annotate" /\ o.pkg = c
       /\ o.model = op[p].model /\ KeyFor(o) = KeyFor(op[p])
  BY <1>f, <1>k, <1>9, Moved
<1>11. crashes = 0 =>
         index[c] \in IndexEntry /\ index[c].version = f.version /\ index[c].params = f.params
  BY <1>n, <1>2, <1>6, <1>f, EntryType DEF SetOK, Entry
<1>12. OpOK(o, source, f, index[c], crashes = 0)
  <2> HIDE DEF o
  <2> QED
    BY <1>5, <1>6, <1>10, <1>11, <1>k, PackageAssumption
    DEF OpOK, ConvertPcs, AnnotatePcs, ReviewPcs
<1>13. Go(p, "mirror") /\ UNCHANGED <<source, index, lock, ops, crashes>>
  BY DEF WriteMeta
<1> QED
  BY <1>1, <1>4, <1>6, <1>7, <1>8, <1>9, <1>12, <1>13, WriteStep

\* What update_annotation makes of an entry that is there, or is not.
Mirrored(f, e, key, status) ==
  [(IF e = None THEN Entry(f) ELSE e) EXCEPT !.key = key, !.status = status]

LEMMA MirrorOK ==
  ASSUME NEW f \in Package, NEW e \in IndexEntry \cup {None},
         NEW key \in Model \cup {None}, NEW status \in Status
  PROVE  /\ Mirrored(f, e, key, status) \in IndexEntry
         /\ (e \in IndexEntry => e.version = f.version /\ e.params = f.params) =>
              Mirrored(f, e, key, status) =
                [version |-> f.version, params |-> f.params, key |-> key, status |-> status]
<1> DEFINE g == IF e = None THEN Entry(f) ELSE e
<1>1. g \in IndexEntry
  BY EntryType
<1>2. Entry(f).version = f.version /\ Entry(f).params = f.params
  BY DEF Entry
<1>3. (e \in IndexEntry => e.version = f.version /\ e.params = f.params) =>
        g.version = f.version /\ g.params = f.params
  BY <1>2
<1> HIDE DEF g
<1> DEFINE n == [g EXCEPT !.key = key, !.status = status]
<1>4. n \in IndexEntry
  BY <1>1 DEF IndexEntry
<1>5. n.version = g.version /\ n.params = g.params /\ n.key = key /\ n.status = status
  BY <1>1 DEF IndexEntry
<1>6. n = Mirrored(f, e, key, status)
  BY DEF Mirrored, g
<1> HIDE DEF n
<1>7. n = [version |-> n.version, params |-> n.params, key |-> n.key, status |-> n.status]
  BY <1>4 DEF IndexEntry
<1> QED
  BY <1>3, <1>4, <1>5, <1>6, <1>7

LEMMA MirrorAnnotationOK ==
  ASSUME IInv, NEW p \in Process, MirrorAnnotation(p)
  PROVE  IInv'
<1> DEFINE c == op[p].pkg
<1> DEFINE e == Mirrored(folder[c], index[c], KeyFor(op[p]), "draft")
<1>1. op[p].pc = "mirror" /\ op[p].pc \in AnnotatePcs /\ op[p].pc \in Locked
  BY DEF MirrorAnnotation, AnnotatePcs, Locked
<1>k. op[p].kind = "annotate" /\ op[p].model \in Model
  BY <1>1, AnnotatePc
<1>f. /\ c \in Content /\ folder \in [Content -> Package \cup {None}]
      /\ index \in [Content -> IndexEntry \cup {None}]
      /\ index[c] \in IndexEntry \cup {None} /\ FolderOK(c, folder[c])
      /\ OpOK(op[p], source, folder[c], index[c], crashes = 0)
      /\ crashes = 0 => SetOK("mirror", folder[c], index[c])
  BY <1>1, HolderFacts
<1>2. /\ folder[c] \in Package
      /\ folder[c].annotation = [status |-> "draft", key |-> KeyFor(op[p])]
      /\ crashes = 0 => /\ index[c] \in IndexEntry /\ index[c].version = folder[c].version
                        /\ index[c].params = folder[c].params
  BY <1>1, <1>f DEF OpOK
<1>3. KeyFor(op[p]) \in Model \cup {None} /\ "draft" \in Status
  BY <1>k DEF KeyFor, Status
<1>4. /\ e \in IndexEntry
      /\ crashes = 0 => e = [version |-> folder[c].version, params |-> folder[c].params,
                             key |-> KeyFor(op[p]), status |-> "draft"]
  BY <1>2, <1>3, <1>f, MirrorOK
<1>5. index' = [index EXCEPT ![c] = e]
  BY <1>f DEF MirrorAnnotation, Mirror, Mirrored, RecordedKey, KeyFor
<1> HIDE DEF e
<1>6. crashes = 0 => e = Entry(folder[c])
  BY <1>2, <1>4 DEF Entry
<1>7. crashes = 0 => SetOK("idle", folder[c], e)
  BY <1>6, <1>f DEF SetOK
<1>8. folder' = [folder EXCEPT ![c] = folder[c]]
  BY <1>f DEF MirrorAnnotation
<1>9. End(p) /\ UNCHANGED <<source, ops, crashes>>
  BY DEF MirrorAnnotation
<1> QED
  BY <1>1, <1>2, <1>4, <1>5, <1>7, <1>8, <1>9, <1>f, EndStep

-----------------------------------------------------------------------------
(* The steps of review.                                                     *)

LEMMA ReviewPc ==
  ASSUME IInv, NEW p \in Process, op[p].pc \in ReviewPcs
  PROVE  /\ op[p].pc \in Locked /\ op[p].kind = "review"
         /\ op[p].verdict \in {"approved", "rejected"}
BY HolderFacts DEF OpOK, Locked

LEMMA ReviewOK ==
  ASSUME IInv, NEW p \in Process, Review(p)
  PROVE  IInv'
<1> DEFINE c == op[p].pkg
<1> DEFINE f == folder[c]
<1>1. op[p].pc = "review" /\ op[p].pc \in ReviewPcs /\ op[p].pc \in Locked
  BY DEF Review, ReviewPcs, Locked
<1>k. op[p].kind = "review" /\ op[p].verdict \in {"approved", "rejected"}
  BY <1>1, ReviewPc
<1>f. /\ op[p] \in Command /\ f \in Package \cup {None}
      /\ OpOK(op[p], source, f, index[c], crashes = 0)
      /\ crashes = 0 => SetOK("review", f, index[c])
  BY <1>1, HolderFacts
<1>u. UNCHANGED <<source, folder, index, ops, crashes>>
  BY DEF Review
<1>2. CASE End(p)
  BY <1>1, <1>2, <1>u, PlainEnd
<1>3. CASE ~ End(p)
  <2> DEFINE o == [op[p] EXCEPT !.pc = "verdict"]
  <2>1. /\ f # None /\ f.semantics # None
        /\ op[p].verdict = "approved" => MayApprove(f)
        /\ Go(p, "verdict") /\ UNCHANGED lock
    BY <1>3 DEF Review
  <2>2. f \in Package /\ f.semantics \in Interpretation
    BY <2>1, <1>f DEF Package
  <2>3. f.semantics.model \in Model
    BY <2>2 DEF Interpretation
  <2>4. op[p].verdict = "approved" => f.semantics.fits /\ f.annotation.key # None
    BY <2>1, <2>3, PackageAssumption DEF MayApprove, Verifies, EvidenceHolds
  <2>5. "verdict" \in Locked
    BY DEF Locked, ReviewPcs
  <2>6. o.pc = "verdict" /\ o.kind = "review" /\ o.pkg = c /\ o.verdict = op[p].verdict
    BY <1>f, <1>k, <2>5, Moved
  <2>7. OpOK(o, source, f, index[c], crashes = 0)
    <3> HIDE DEF o
    <3> QED
      BY <1>f, <1>k, <2>2, <2>4, <2>6, PackageAssumption
      DEF OpOK, ConvertPcs, AnnotatePcs, ReviewPcs
  <2>8. crashes = 0 => SetOK("verdict", f, index[c])
    BY <1>f DEF SetOK
  <2> QED
    BY <1>1, <1>u, <2>1, <2>5, <2>7, <2>8, GoStep
<1> QED
  BY <1>2, <1>3

LEMMA WriteVerdictOK ==
  ASSUME IInv, NEW p \in Process, WriteVerdict(p)
  PROVE  IInv'
<1> DEFINE c == op[p].pkg
<1> DEFINE old == folder[c].semantics
<1> DEFINE sem == [old EXCEPT !.status = op[p].verdict]
<1> DEFINE f == [folder[c] EXCEPT !.semantics = sem]
<1> DEFINE o == [op[p] EXCEPT !.pc = "sync"]
<1>1. op[p].pc = "verdict" /\ op[p].pc \in ReviewPcs /\ op[p].pc \in Locked
  BY DEF WriteVerdict, ReviewPcs, Locked
<1>k. op[p].kind = "review" /\ op[p].verdict \in {"approved", "rejected"}
  BY <1>1, ReviewPc
<1>f. /\ op[p] \in Command /\ c \in Content /\ folder \in [Content -> Package \cup {None}]
      /\ FolderOK(c, folder[c])
      /\ OpOK(op[p], source, folder[c], index[c], crashes = 0)
      /\ crashes = 0 => SetOK("verdict", folder[c], index[c])
  BY <1>1, HolderFacts
<1>2. /\ folder[c] \in Package /\ old \in Interpretation
      /\ op[p].verdict = "approved" => old.fits /\ folder[c].annotation.key # None
  BY <1>1, <1>f DEF OpOK
<1>3. folder[c] # None /\ old # None
  BY <1>2, PackageAssumption
<1>4. folder' = [folder EXCEPT ![c] = f]
  BY <1>f DEF WriteVerdict
<1>5. /\ sem \in Interpretation /\ sem.whole = old.whole /\ sem.fits = old.fits
      /\ sem.status = op[p].verdict
  BY <1>2, <1>k DEF Interpretation, Status
<1> HIDE DEF sem
<1>6. /\ f \in Package /\ f.from = folder[c].from /\ f.version = folder[c].version
      /\ f.params = folder[c].params /\ f.semantics = sem
      /\ f.annotation = folder[c].annotation
  BY <1>2, <1>5 DEF Package
<1> HIDE DEF f
<1>7. FolderOK(c, f)
  BY <1>2, <1>3, <1>5, <1>6, <1>f DEF FolderOK
<1>8. crashes = 0 => SetOK("sync", f, index[c])
  <2>1. crashes = 0 => (folder[c].annotation.key # None => old.whole)
    BY <1>3, <1>f DEF SetOK, KeyOK
  <2>2. crashes = 0 => index[c] = Entry(folder[c])
    BY <1>3, <1>f DEF SetOK
  <2>3. Entry(f) = Entry(folder[c])
    BY <1>6 DEF Entry
  <2>4. crashes = 0 => KeyOK(f) /\ ApprovedOK(f)
    BY <1>2, <1>5, <1>6, <2>1 DEF KeyOK, ApprovedOK
  <2> QED
    BY <2>2, <2>3, <2>4 DEF SetOK
<1>9. "sync" \in Locked
  BY DEF Locked, ReviewPcs
<1>10. o.pc = "sync" /\ o.kind = "review" /\ o.pkg = c /\ o.verdict = op[p].verdict
  BY <1>f, <1>k, <1>9, Moved
<1>11. OpOK(o, source, f, index[c], crashes = 0)
  <2> HIDE DEF o
  <2> QED
    BY <1>k, <1>6, <1>10, PackageAssumption DEF OpOK, ConvertPcs, AnnotatePcs, ReviewPcs
<1>12. Go(p, "sync") /\ UNCHANGED <<source, index, lock, ops, crashes>>
  BY DEF WriteVerdict
<1> QED
  BY <1>1, <1>4, <1>6, <1>7, <1>8, <1>9, <1>11, <1>12, WriteStep

LEMMA SyncMetaOK ==
  ASSUME IInv, NEW p \in Process, SyncMeta(p)
  PROVE  IInv'
<1> DEFINE c == op[p].pkg
<1> DEFINE note == [folder[c].annotation EXCEPT !.status = op[p].verdict]
<1> DEFINE f == [folder[c] EXCEPT !.annotation = note]
<1> DEFINE o == [op[p] EXCEPT !.pc = "syncindex"]
<1>1. op[p].pc = "sync" /\ op[p].pc \in ReviewPcs /\ op[p].pc \in Locked
  BY DEF SyncMeta, ReviewPcs, Locked
<1>k. op[p].kind = "review" /\ op[p].verdict \in {"approved", "rejected"}
  BY <1>1, ReviewPc
<1>f. /\ op[p] \in Command /\ c \in Content /\ folder \in [Content -> Package \cup {None}]
      /\ index[c] \in IndexEntry \cup {None}
      /\ FolderOK(c, folder[c])
      /\ OpOK(op[p], source, folder[c], index[c], crashes = 0)
      /\ crashes = 0 => SetOK("sync", folder[c], index[c])
  BY <1>1, HolderFacts
<1>2. folder[c] \in Package /\ folder[c] # None
  BY <1>1, <1>f, PackageAssumption DEF OpOK
<1>3. folder[c].annotation \in Note
  BY <1>2 DEF Package
<1>4. folder' = [folder EXCEPT ![c] = f]
  BY <1>f DEF SyncMeta
<1>5. note \in Note /\ note.status = op[p].verdict /\ note.key = folder[c].annotation.key
  BY <1>3, <1>k DEF Note, Status
<1> HIDE DEF note
<1>6. /\ f \in Package /\ f.from = folder[c].from /\ f.version = folder[c].version
      /\ f.params = folder[c].params /\ f.semantics = folder[c].semantics
      /\ f.annotation = note
  BY <1>2, <1>5 DEF Package
<1> HIDE DEF f
<1>7. FolderOK(c, f)
  BY <1>2, <1>6, <1>f DEF FolderOK
<1>8. crashes = 0 => SetOK("syncindex", f, index[c])
  BY <1>2, <1>5, <1>6, <1>f DEF SetOK, KeyOK, ApprovedOK
<1>9. crashes = 0 =>
        /\ index[c] \in IndexEntry /\ index[c].version = f.version /\ index[c].params = f.params
        /\ index[c].key = f.annotation.key
  BY <1>2, <1>5, <1>6, <1>f, EntryType DEF SetOK, Entry
<1>10. "syncindex" \in Locked
  BY DEF Locked, ReviewPcs
<1>11. o.pc = "syncindex" /\ o.kind = "review" /\ o.pkg = c /\ o.verdict = op[p].verdict
  BY <1>f, <1>k, <1>10, Moved
<1>12. OpOK(o, source, f, index[c], crashes = 0)
  <2> HIDE DEF o
  <2> QED
    BY <1>k, <1>5, <1>6, <1>9, <1>11, PackageAssumption
    DEF OpOK, ConvertPcs, AnnotatePcs, ReviewPcs
<1>13. Go(p, "syncindex") /\ UNCHANGED <<source, index, lock, ops, crashes>>
  BY DEF SyncMeta
<1> QED
  BY <1>1, <1>4, <1>6, <1>7, <1>8, <1>10, <1>12, <1>13, WriteStep

LEMMA SyncIndexOK ==
  ASSUME IInv, NEW p \in Process, SyncIndex(p)
  PROVE  IInv'
<1> DEFINE c == op[p].pkg
<1> DEFINE key == IF index[c] = None THEN folder[c].annotation.key ELSE index[c].key
<1> DEFINE e == Mirrored(folder[c], index[c], key, op[p].verdict)
<1> DEFINE o == [op[p] EXCEPT !.pc = "skill"]
<1>1. op[p].pc = "syncindex" /\ op[p].pc \in ReviewPcs /\ op[p].pc \in Locked
  BY DEF SyncIndex, ReviewPcs, Locked
<1>k. op[p].kind = "review" /\ op[p].verdict \in Status
  BY <1>1, ReviewPc DEF Status
<1>f. /\ op[p] \in Command /\ op \in [Process -> Command]
      /\ c \in Content /\ folder \in [Content -> Package \cup {None}]
      /\ index \in [Content -> IndexEntry \cup {None}]
      /\ index[c] \in IndexEntry \cup {None} /\ FolderOK(c, folder[c])
      /\ OpOK(op[p], source, folder[c], index[c], crashes = 0)
      /\ crashes = 0 => SetOK("syncindex", folder[c], index[c])
  BY <1>1, HolderFacts
<1>2. /\ folder[c] \in Package /\ folder[c].annotation.status = op[p].verdict
      /\ crashes = 0 => /\ index[c] \in IndexEntry /\ index[c].version = folder[c].version
                        /\ index[c].params = folder[c].params
                        /\ index[c].key = folder[c].annotation.key
  BY <1>1, <1>f DEF OpOK
<1>3. key \in Model \cup {None} /\ (crashes = 0 => key = folder[c].annotation.key)
  BY <1>2, <1>f DEF IndexEntry, Package, Note
<1>5. index' = [index EXCEPT ![c] = e]
  BY <1>f DEF SyncIndex, Mirror, Mirrored
<1> HIDE DEF key
<1>4. /\ e \in IndexEntry
      /\ crashes = 0 => e = [version |-> folder[c].version, params |-> folder[c].params,
                             key |-> key, status |-> op[p].verdict]
  BY <1>k, <1>2, <1>3, <1>f, MirrorOK
<1> HIDE DEF e
<1>6. crashes = 0 => e = Entry(folder[c])
  BY <1>2, <1>3, <1>4 DEF Entry
<1>7. crashes = 0 => SetOK("skill", folder[c], e)
  BY <1>6, <1>f DEF SetOK
<1>8. folder' = [folder EXCEPT ![c] = folder[c]] /\ op' = [op EXCEPT ![p] = o]
  BY <1>f DEF SyncIndex, Go
<1>9. "skill" \in Locked
  BY DEF Locked, ReviewPcs
<1>10. /\ o \in Command /\ o.pc = "skill" /\ o.kind = "review" /\ o.pkg = c
       /\ o.verdict = op[p].verdict
  BY <1>f, <1>k, <1>9, Moved
<1> HIDE DEF o
<1>r. op[p].verdict \in {"approved", "rejected"}
  BY <1>1, ReviewPc
<1>11. OpOK(o, source, folder[c], e, crashes = 0)
  BY <1>r, <1>2, <1>10, PackageAssumption DEF OpOK, ConvertPcs, AnnotatePcs, ReviewPcs
<1>12. UNCHANGED <<source, lock, ops, crashes>>
  BY DEF SyncIndex
<1>13. crashes' = 0 => SetOK(IF o.pc \in Locked THEN o.pc ELSE "idle", folder[c], e)
  BY <1>7, <1>9, <1>10, <1>12
<1>14. OpOK(o, source, folder[c], e, crashes' = 0)
  BY <1>11, <1>12
<1>15. crashes' \in {crashes, crashes + 1} /\ source' = source /\ ops' = ops
       /\ lock' = lock /\ o.pc \in Locked /\ o.pkg = op[p].pkg
  BY <1>9, <1>10, <1>12
<1> QED
  BY <1>1, <1>2, <1>4, <1>5, <1>8, <1>10, <1>13, <1>14, <1>15, <1>f, LockedStep

LEMMA RegenerateSkillOK ==
  ASSUME IInv, NEW p \in Process, RegenerateSkill(p)
  PROVE  IInv'
<1> DEFINE c == op[p].pkg
<1> DEFINE f == [folder[c] EXCEPT !.skill = Render(folder[c].semantics)]
<1>1. op[p].pc = "skill" /\ op[p].pc \in Locked
  BY DEF RegenerateSkill, ReviewPcs, Locked
<1>f. /\ c \in Content /\ folder \in [Content -> Package \cup {None}]
      /\ index = [index EXCEPT ![c] = index[c]] /\ index[c] \in IndexEntry \cup {None}
      /\ FolderOK(c, folder[c])
      /\ OpOK(op[p], source, folder[c], index[c], crashes = 0)
      /\ crashes = 0 => SetOK("skill", folder[c], index[c])
  BY <1>1, HolderFacts
<1>2. folder[c] \in Package /\ folder[c] # None
  BY <1>1, <1>f, PackageAssumption DEF OpOK
<1>3. folder[c].semantics \in Interpretation \cup {None}
  BY <1>2 DEF Package
<1>4. Render(folder[c].semantics) \in 0 .. MaxOps \cup {None}
  BY <1>3 DEF Render, Interpretation
<1>5. folder' = [folder EXCEPT ![c] = f]
  BY <1>f DEF RegenerateSkill
<1>6. /\ f \in Package /\ f.from = folder[c].from /\ f.version = folder[c].version
      /\ f.params = folder[c].params /\ f.semantics = folder[c].semantics
      /\ f.annotation = folder[c].annotation
  BY <1>2, <1>4 DEF Package
<1> HIDE DEF f
<1>7. FolderOK(c, f)
  BY <1>2, <1>6, <1>f DEF FolderOK
<1>8. crashes = 0 => SetOK("idle", f, index[c])
  BY <1>2, <1>6, <1>f DEF SetOK, KeyOK, ApprovedOK, Entry
<1>9. End(p) /\ UNCHANGED <<source, index, ops, crashes>>
  BY DEF RegenerateSkill
<1> QED
  BY <1>1, <1>5, <1>6, <1>7, <1>8, <1>9, <1>f, EndStep

LEMMA MissesFileOK ==
  ASSUME IInv, NEW p \in Process, MissesFile(p)
  PROVE  IInv'
<1>1. op[p].pc \in Locked /\ op[p].pc \notin {"meta", "record", "mirror", "syncindex"}
  BY DEF MissesFile, Locked, AnnotatePcs, ReviewPcs
<1> QED
  BY <1>1, PlainEnd, HolderFacts DEF MissesFile

-----------------------------------------------------------------------------
(* The steps of a command without a lock, the source and deaths.            *)

LEMMA UnlockedStep ==
  ASSUME IInv, NEW p \in Process, op[p].pc \notin Locked,
         NEW o \in Command, o.pc \notin Locked, op' = [op EXCEPT ![p] = o],
         UNCHANGED <<source, folder, index, lock>>,
         ops' \in 0 .. MaxOps, crashes' \in {crashes, crashes + 1},
         OpOK(o, source, folder[o.pkg], index[o.pkg], crashes' = 0)
  PROVE  IInv'
<1>t. Types /\ LocksAreHeld
  BY DEF IInv
<1>n. (crashes' = 0 => crashes = 0) /\ crashes' \in Nat
  BY <1>t DEF Types
<1>o. /\ op'[p] = o
      /\ \A q \in Process : q # p => op'[q] = op[q]
  BY <1>t DEF Types
<1>1. Types'
  BY <1>t, <1>n DEF Types
<1>2. LocksAreHeld'
  BY <1>t, <1>o DEF LocksAreHeld
<1>3. \A q \in Process :
        OpOK(op'[q], source', folder'[op'[q].pkg], index'[op'[q].pkg], crashes' = 0)
  <2> SUFFICES ASSUME NEW q \in Process
               PROVE  OpOK(op'[q], source', folder'[op'[q].pkg], index'[op'[q].pkg], crashes' = 0)
    OBVIOUS
  <2>1. CASE q = p
    BY <2>1, <1>o
  <2>2. CASE q # p
    <3>1. OpOK(op[q], source, folder[op[q].pkg], index[op[q].pkg], crashes = 0)
      BY DEF IInv
    <3>2. OpOK(op[q], source, folder[op[q].pkg], index[op[q].pkg], crashes' = 0)
      BY <3>1, <1>n, DeathOK
    <3> QED
      BY <2>2, <3>2, <1>o
  <2> QED
    BY <2>1, <2>2
<1>4. crashes' = 0 => \A d \in Content : SetOK(At(d)', folder'[d], index'[d])
  <2> SUFFICES ASSUME crashes' = 0, NEW d \in Content
               PROVE  SetOK(At(d)', folder'[d], index'[d])
    OBVIOUS
  <2>1. lock[d] # None => lock[d] \in Process /\ lock[d] # p
    BY <1>t DEF Types, LocksAreHeld
  <2>2. At(d)' = At(d)
    BY <2>1, <1>o DEF At
  <2>3. SetOK(At(d), folder[d], index[d])
    BY <1>n DEF IInv
  <2> QED
    BY <2>2, <2>3
<1> QED
  BY <1>1, <1>2, <1>3, <1>4 DEF IInv

LEMMA ProcessFacts ==
  ASSUME IInv, NEW p \in Process
  PROVE  /\ op[p] \in Command /\ op \in [Process -> Command] /\ ops \in 0 .. MaxOps
         /\ source \in Content /\ source \in Nat /\ crashes \in Nat
         /\ OpOK(op[p], source, folder[op[p].pkg], index[op[p].pkg], crashes = 0)
BY PackageAssumption DEF IInv, Types

LEMMA ProbeOK ==
  ASSUME IInv, NEW p \in Process, Probe(p)
  PROVE  IInv'
<1> DEFINE o == [op[p] EXCEPT !.pc = "lock", !.pkg = source]
<1>1. op[p].pc = "probe" /\ op[p].pc \notin Locked
  BY DEF Probe, Locked, ConvertPcs, AnnotatePcs, ReviewPcs
<1>f. /\ op[p] \in Command /\ op \in [Process -> Command] /\ ops \in 0 .. MaxOps
      /\ source \in Content /\ source \in Nat
      /\ OpOK(op[p], source, folder[op[p].pkg], index[op[p].pkg], crashes = 0)
  BY ProcessFacts
<1>2. op[p].kind = "convert" /\ op[p].version \in Version /\ op[p].params \in Params
  BY <1>1, <1>f DEF OpOK
<1>3. op' = [op EXCEPT ![p] = o]
  BY <1>f DEF Probe
<1>4. /\ o \in Command /\ o.pc = "lock" /\ o.kind = "convert" /\ o.pkg = source
      /\ o.version = op[p].version /\ o.params = op[p].params
  BY <1>f, <1>2 DEF Command
<1> HIDE DEF o
<1>5. o.pc \notin Locked
  BY <1>4 DEF Locked, ConvertPcs, AnnotatePcs, ReviewPcs
<1>6. OpOK(o, source, folder[o.pkg], index[o.pkg], crashes' = 0)
  BY <1>2, <1>4, <1>f, PackageAssumption DEF OpOK, ConvertPcs, AnnotatePcs, ReviewPcs
<1>7. UNCHANGED <<source, folder, index, lock, ops, crashes>>
  BY DEF Probe
<1> QED
  BY <1>1, <1>3, <1>4, <1>5, <1>6, <1>7, <1>f, UnlockedStep

LEMMA BeginOK ==
  ASSUME IInv, NEW p \in Process, NEW o \in Command, Begin(p, o), o.pc \notin Locked,
         OpOK(o, source, folder[o.pkg], index[o.pkg], crashes = 0)
  PROVE  IInv'
<1>1. op[p].pc \notin Locked
  BY DEF Begin, Locked, ConvertPcs, AnnotatePcs, ReviewPcs
<1>2. /\ op' = [op EXCEPT ![p] = o] /\ UNCHANGED <<source, folder, index, lock, crashes>>
      /\ ops' = ops + 1 /\ ops < MaxOps
  BY DEF Begin
<1>3. ops' \in 0 .. MaxOps
  BY <1>2, ProcessFacts, PackageAssumption
<1>4. OpOK(o, source, folder[o.pkg], index[o.pkg], crashes' = 0)
  BY <1>2
<1> QED
  BY <1>1, <1>2, <1>3, <1>4, UnlockedStep

LEMMA NoOpType == NoOp \in Command
BY PackageAssumption DEF NoOp, Command

LEMMA BeginConvertOK ==
  ASSUME IInv, NEW p \in Process, NEW v \in Version, NEW a \in Params, NEW force \in BOOLEAN,
         BeginConvert(p, v, a, force)
  PROVE  IInv'
<1> DEFINE o == [NoOp EXCEPT !.kind = "convert", !.pc = "probe", !.version = v,
                             !.params = a, !.force = force]
<1>1. /\ o \in Command /\ o.pc = "probe" /\ o.kind = "convert" /\ o.version = v /\ o.params = a
  BY NoOpType, ZenonT(60) DEF Command
<1>2. Begin(p, o)
  BY DEF BeginConvert
<1> HIDE DEF o
<1>3. o.pc \notin Locked
  BY <1>1 DEF Locked, ConvertPcs, AnnotatePcs, ReviewPcs
<1>4. OpOK(o, source, folder[o.pkg], index[o.pkg], crashes = 0)
  BY <1>1 DEF OpOK, ConvertPcs, AnnotatePcs, ReviewPcs
<1> QED
  BY <1>1, <1>2, <1>3, <1>4, BeginOK

LEMMA BeginAnnotateOK ==
  ASSUME IInv, NEW p \in Process, NEW c \in Content, NEW m \in Model, NEW force \in BOOLEAN,
         BeginAnnotate(p, c, m, force)
  PROVE  IInv'
<1> DEFINE o == [NoOp EXCEPT !.kind = "annotate", !.pc = "lock", !.pkg = c,
                             !.model = m, !.force = force]
<1>1. o \in Command /\ o.pc = "lock" /\ o.kind = "annotate" /\ o.pkg = c /\ o.model = m
  BY NoOpType, ZenonT(60) DEF Command
<1>2. Begin(p, o)
  BY DEF BeginAnnotate
<1> HIDE DEF o
<1>3. o.pc \notin Locked
  BY <1>1 DEF Locked, ConvertPcs, AnnotatePcs, ReviewPcs
<1>4. OpOK(o, source, folder[o.pkg], index[o.pkg], crashes = 0)
  BY <1>1, PackageAssumption DEF OpOK, ConvertPcs, AnnotatePcs, ReviewPcs
<1> QED
  BY <1>1, <1>2, <1>3, <1>4, BeginOK

LEMMA BeginReviewOK ==
  ASSUME IInv, NEW p \in Process, NEW c \in Content, NEW verdict \in {"approved", "rejected"},
         BeginReview(p, c, verdict)
  PROVE  IInv'
<1> DEFINE o == [NoOp EXCEPT !.kind = "review", !.pc = "lock", !.pkg = c,
                             !.verdict = verdict]
<1>1. o \in Command /\ o.pc = "lock" /\ o.kind = "review" /\ o.pkg = c /\ o.verdict = verdict
  BY NoOpType, ZenonT(60) DEF Command
<1>2. Begin(p, o)
  BY DEF BeginReview
<1> HIDE DEF o
<1>3. o.pc \notin Locked
  BY <1>1 DEF Locked, ConvertPcs, AnnotatePcs, ReviewPcs
<1>4. OpOK(o, source, folder[o.pkg], index[o.pkg], crashes = 0)
  BY <1>1, PackageAssumption DEF OpOK, ConvertPcs, AnnotatePcs, ReviewPcs
<1> QED
  BY <1>1, <1>2, <1>3, <1>4, BeginOK

LEMMA CrashOK ==
  ASSUME IInv, NEW p \in Process, Crash(p)
  PROVE  IInv'
<1>1. End(p) /\ UNCHANGED <<source, folder, index, ops>> /\ crashes' = crashes + 1
  BY DEF Crash
<1>2. crashes' # 0
  BY <1>1, ProcessFacts
<1>3. CASE op[p].pc \in Locked
  BY <1>1, <1>2, <1>3, PlainEnd
<1>4. CASE op[p].pc \notin Locked
  <2>1. lock' = lock
    <3>1. lock \in [Content -> Process \cup {None}] /\ \A c \in Content : lock[c] # p
      BY <1>4 DEF IInv, Types, LocksAreHeld
    <3> QED
      BY <1>1, <3>1 DEF End, Leave
  <2>2. NoOp.pc = "idle" /\ NoOp.pc \notin Locked /\ NoOp.kind = None
    BY DEF NoOp, Locked, ConvertPcs, AnnotatePcs, ReviewPcs
  <2>3. OpOK(NoOp, source, folder[NoOp.pkg], index[NoOp.pkg], crashes' = 0)
    BY <2>2, PackageAssumption DEF OpOK, ConvertPcs, AnnotatePcs, ReviewPcs
  <2>4. ops' \in 0 .. MaxOps
    BY <1>1, ProcessFacts
  <2> QED
    BY <1>1, <1>4, <2>1, <2>2, <2>3, <2>4, NoOpType, UnlockedStep DEF End
<1> QED
  BY <1>3, <1>4

LEMMA ChangeSourceOK ==
  ASSUME IInv, ChangeSource
  PROVE  IInv'
<1>t. Types /\ LocksAreHeld
  BY DEF IInv
<1>1. source \in Nat /\ source' \in Content /\ source' \in Nat /\ source <= source'
  BY <1>t, PackageAssumption DEF ChangeSource, Types
<1>2. UNCHANGED <<folder, index, lock, op, ops, crashes>>
  BY DEF ChangeSource
<1>3. Types' /\ LocksAreHeld'
  BY <1>t, <1>1, <1>2 DEF Types, LocksAreHeld
<1>4. \A p \in Process :
        OpOK(op[p], source', folder[op[p].pkg], index[op[p].pkg], crashes = 0)
  <2> SUFFICES ASSUME NEW p \in Process
               PROVE  OpOK(op[p], source', folder[op[p].pkg], index[op[p].pkg], crashes = 0)
    OBVIOUS
  <2>1. op[p] \in Command /\ (op[p].pc \in Locked => op[p].pkg \in Content)
    BY <1>t DEF Types, LocksAreHeld
  <2>2. OpOK(op[p], source, folder[op[p].pkg], index[op[p].pkg], crashes = 0)
    BY DEF IInv
  <2> QED
    BY <1>1, <2>1, <2>2, SourceOK
<1> QED
  BY <1>2, <1>3, <1>4 DEF IInv, At

LEMMA LockOK ==
  ASSUME IInv, NEW p \in Process, Lock(p)
  PROVE  IInv'
<1> DEFINE c == op[p].pkg
<1> DEFINE o == [op[p] EXCEPT !.pc = op[p].kind]
<1>t. Types /\ LocksAreHeld
  BY DEF IInv
<1>f. /\ op[p] \in Command /\ op \in [Process -> Command] /\ source \in Nat
      /\ OpOK(op[p], source, folder[c], index[c], crashes = 0)
  BY ProcessFacts
<1>1. op[p].pc = "lock" /\ lock[c] = None /\ lock' = [lock EXCEPT ![c] = p]
      /\ UNCHANGED <<source, folder, index, ops, crashes>>
  BY DEF Lock
<1>2. c \in Content /\ op[p].kind \in {"convert", "annotate", "review"} /\ p # None
  BY <1>1, <1>f, PackageAssumption DEF OpOK, Command
<1>3. op[p].kind \in Locked
  BY <1>2 DEF Locked, ConvertPcs, AnnotatePcs, ReviewPcs
<1>4. op' = [op EXCEPT ![p] = o]
  BY <1>f DEF Lock, Go
<1>5. /\ o \in Command /\ o.pc = op[p].kind /\ o.kind = op[p].kind /\ o.pkg = c
      /\ o.version = op[p].version /\ o.params = op[p].params /\ o.model = op[p].model
      /\ o.verdict = op[p].verdict
  BY <1>f, <1>3, Moved
<1> HIDE DEF o
<1>o. /\ op'[p] = o
      /\ \A q \in Process : q # p => op'[q] = op[q]
  BY <1>4, <1>f
<1>l. /\ lock'[c] = p
      /\ \A d \in Content : d # c => lock'[d] = lock[d]
  BY <1>1, <1>2, <1>t DEF Types
<1>6. Types'
  BY <1>t, <1>1, <1>2, <1>4, <1>5 DEF Types
<1>7. LocksAreHeld'
  <2>1. op[p].pc \notin Locked
    BY <1>1 DEF Locked, ConvertPcs, AnnotatePcs, ReviewPcs
  <2>2. \A q \in Process : op'[q].pc \in Locked => op'[q].pkg \in Content /\ lock'[op'[q].pkg] = q
    <3> SUFFICES ASSUME NEW q \in Process, op'[q].pc \in Locked
                 PROVE  op'[q].pkg \in Content /\ lock'[op'[q].pkg] = q
      OBVIOUS
    <3>1. CASE q = p
      BY <3>1, <1>o, <1>l, <1>5, <1>2
    <3>2. CASE q # p
      <4>1. op[q].pc \in Locked /\ op'[q] = op[q]
        BY <3>2, <1>o
      <4>2. op[q].pkg \in Content /\ lock[op[q].pkg] = q /\ q # None
        BY <4>1, <1>t, PackageAssumption DEF LocksAreHeld
      <4> QED
        BY <4>1, <4>2, <1>1, <1>l
    <3> QED
      BY <3>1, <3>2
  <2>3. \A d \in Content, q \in Process : lock'[d] = q => op'[q].pc \in Locked /\ op'[q].pkg = d
    BY <2>1, <1>o, <1>l, <1>5, <1>2, <1>3, <1>t DEF LocksAreHeld
  <2> QED
    BY <2>2, <2>3 DEF LocksAreHeld
<1>8. OpOK(o, source, folder[c], index[c], crashes = 0)
  BY <1>f, <1>1, <1>2, <1>5 DEF OpOK, ConvertPcs, AnnotatePcs, ReviewPcs
<1>9. \A q \in Process :
        OpOK(op'[q], source', folder'[op'[q].pkg], index'[op'[q].pkg], crashes' = 0)
  <2> SUFFICES ASSUME NEW q \in Process
               PROVE  OpOK(op'[q], source', folder'[op'[q].pkg], index'[op'[q].pkg], crashes' = 0)
    OBVIOUS
  <2>1. CASE q = p
    BY <2>1, <1>1, <1>o, <1>5, <1>8
  <2>2. CASE q # p
    BY <2>2, <1>1, <1>o DEF IInv
  <2> QED
    BY <2>1, <2>2
<1>10. crashes' = 0 => \A d \in Content : SetOK(At(d)', folder'[d], index'[d])
  <2> SUFFICES ASSUME crashes = 0, NEW d \in Content
               PROVE  SetOK(At(d)', folder[d], index[d])
    BY <1>1
  <2>1. SetOK(At(d), folder[d], index[d])
    BY DEF IInv
  <2>2. CASE d = c
    <3>1. At(d) = "idle"
      BY <2>2, <1>1 DEF At
    <3>2. At(d)' = op[p].kind
      BY <2>2, <1>l, <1>2, <1>o, <1>5 DEF At
    <3> QED
      BY <2>1, <3>1, <3>2, <1>2 DEF SetOK
  <2>3. CASE d # c
    <3>1. lock'[d] = lock[d] /\ (lock[d] # None => lock[d] \in Process /\ lock[d] # p)
      <4>1. op[p].pc \notin Locked
        BY <1>1 DEF Locked, ConvertPcs, AnnotatePcs, ReviewPcs
      <4> QED
        BY <4>1, <2>3, <1>l, <1>t DEF LocksAreHeld, Types
    <3>2. At(d)' = At(d)
      BY <3>1, <1>o DEF At
    <3> QED
      BY <2>1, <3>2
  <2> QED
    BY <2>2, <2>3
<1> QED
  BY <1>1, <1>6, <1>7, <1>9, <1>10 DEF IInv

-----------------------------------------------------------------------------
(* The invariant.                                                           *)

LEMMA InitOK == Init => IInv
<1> SUFFICES ASSUME Init PROVE IInv
  OBVIOUS
<1>1. NoOp \in Command /\ NoOp.pc = "idle" /\ NoOp.pc \notin Locked /\ NoOp.kind = None
  BY NoOpType DEF NoOp, Locked, ConvertPcs, AnnotatePcs, ReviewPcs
<1>2. Types
  BY <1>1, PackageAssumption DEF Init, Types
<1>3. LocksAreHeld
  BY <1>1, PackageAssumption DEF Init, LocksAreHeld
<1>4. \A c \in Content : FolderOK(c, folder[c]) /\ SetOK(At(c), folder[c], index[c])
  BY DEF Init, FolderOK, SetOK
<1>5. \A p \in Process : OpOK(op[p], source, folder[op[p].pkg], index[op[p].pkg], crashes = 0)
  <2> SUFFICES ASSUME NEW p \in Process
               PROVE  OpOK(op[p], source, folder[op[p].pkg], index[op[p].pkg], crashes = 0)
    OBVIOUS
  <2>1. op[p] = NoOp
    BY DEF Init
  <2> HIDE DEF NoOp
  <2> QED
    BY <1>1, <2>1, PackageAssumption DEF OpOK, ConvertPcs, AnnotatePcs, ReviewPcs
<1> QED
  BY <1>2, <1>3, <1>4, <1>5 DEF IInv

LEMMA NextOK == IInv /\ [Next]_vars => IInv'
<1> SUFFICES ASSUME IInv, [Next]_vars PROVE IInv'
  OBVIOUS
<1>1. CASE UNCHANGED vars
  BY <1>1 DEF vars, IInv, Types, LocksAreHeld, At
<1>2. CASE ChangeSource
  BY <1>2, ChangeSourceOK
<1>3. CASE \E p \in Process, v \in Version, a \in Params, force \in BOOLEAN :
             BeginConvert(p, v, a, force)
  BY <1>3, BeginConvertOK
<1>4. CASE \E p \in Process, c \in Content, m \in Model, force \in BOOLEAN :
             BeginAnnotate(p, c, m, force)
  BY <1>4, BeginAnnotateOK
<1>5. CASE \E p \in Process, c \in Content, verdict \in {"approved", "rejected"} :
             BeginReview(p, c, verdict)
  BY <1>5, BeginReviewOK
<1>6. CASE \E p \in Process : Crash(p)
  BY <1>6, CrashOK
<1>7. CASE \E p \in Process : Step(p)
  <2> PICK p \in Process : Step(p)
    BY <1>7
  <2>1. CASE Lock(p) \/ Probe(p) \/ ProbeAgain(p) \/ CacheHit(p) \/ Extract(p) \/ Stage(p)
    BY <2>1, LockOK, ProbeOK, ProbeAgainOK, CacheHitOK, ExtractOK, StageOK
  <2>2. CASE Inherit(p) \/ Remove(p) \/ Rename(p) \/ Record(p)
    BY <2>2, InheritOK, RemoveOK, RenameOK, RecordOK
  <2>3. CASE Annotate(p) \/ WriteSemantics(p) \/ WriteMeta(p) \/ MirrorAnnotation(p)
    BY <2>3, AnnotateOK, WriteSemanticsOK, WriteMetaOK, MirrorAnnotationOK
  <2>4. CASE Review(p) \/ WriteVerdict(p) \/ SyncMeta(p) \/ SyncIndex(p) \/ RegenerateSkill(p)
          \/ MissesFile(p)
    BY <2>4, ReviewOK, WriteVerdictOK, SyncMetaOK, SyncIndexOK, RegenerateSkillOK, MissesFileOK
  <2> QED
    BY <2>1, <2>2, <2>3, <2>4 DEF Step
<1> QED
  BY <1>1, <1>2, <1>3, <1>4, <1>5, <1>6, <1>7 DEF Next

\* Every reachable state satisfies the inductive invariant.
THEOREM PackageInvariant == Spec => []IInv
BY InitOK, NextOK, PTL DEF Spec

-----------------------------------------------------------------------------
(* The properties.                                                          *)

LEMMA IsTrue == IInv => PackageIsTrue
<1> SUFFICES ASSUME IInv PROVE PackageIsTrue
  OBVIOUS
<1>t. Types /\ LocksAreHeld
  BY DEF IInv
<1>f. \A c \in Content : folder[c] # None => folder[c] \in Package
  BY <1>t DEF Types
<1>1. TypeOK
  <2>1. \A c \in Content : folder[c] # None =>
          /\ folder[c].version \in Version /\ folder[c].params \in Params
          /\ folder[c].annotation.key \in Model \cup {None}
          /\ folder[c].skill \in 0 .. MaxOps \cup {None}
    BY <1>f DEF Package, Note
  <2>2. \A p \in Process : op[p].tries \in 0 .. Attempts - 1
    BY <1>t DEF Types, Command
  <2>3. \A p \in Process :
          op[p].pc \notin {"idle", "probe", "lock"} <=> \E c \in Content : lock[c] = p
    <3> SUFFICES ASSUME NEW p \in Process
                 PROVE  op[p].pc \notin {"idle", "probe", "lock"} <=> \E c \in Content : lock[c] = p
      OBVIOUS
    <3>1. op[p].pc \in Locked \cup {"idle", "probe", "lock"}
      BY <1>t DEF Types, Command
    <3>2. op[p].pc \in Locked => op[p].pc \notin {"idle", "probe", "lock"}
      BY DEF Locked, ConvertPcs, AnnotatePcs, ReviewPcs
    <3> QED
      BY <3>1, <3>2, <1>t DEF LocksAreHeld
  <2> QED
    BY <2>1, <2>2, <2>3, <1>t DEF TypeOK, Types
<1>2. PackageIsItsSource /\ ApprovedFits
  BY DEF IInv, FolderOK, PackageIsItsSource, ApprovedFits
<1>3. ASSUME crashes = 0 PROVE HitMatchesRequest /\ OnlyCompleteApproved /\ IndexAgrees
  <2>1. \A c \in Content : SetOK(At(c), folder[c], index[c])
    BY <1>3 DEF IInv
  <2>2. OnlyCompleteApproved
    BY <2>1 DEF OnlyCompleteApproved, SetOK, ApprovedOK
  <2>3. IndexAgrees
    <3>1. \A c \in Content : lock[c] = None => At(c) = "idle"
      BY DEF At
    <3> QED
      BY <2>1, <3>1 DEF IndexAgrees, SetOK
  <2>4. HitMatchesRequest
    BY <1>3 DEF IInv, OpOK, HitMatchesRequest
  <2> QED
    BY <2>2, <2>3, <2>4
<1> QED
  BY <1>1, <1>2, <1>3 DEF PackageIsTrue

\* A package is made of one content of its source, and what is approved in it
\* has its evidence there, whatever dies; and without a death the index, the
\* cache and the approval say what its files say (_convert_one, record,
\* update_annotation, _approve_unlocked).
THEOREM PackagesAreTrue == Spec => []PackageIsTrue
BY PackageInvariant, IsTrue, PTL

\* The steps of another command leave this one where it is.
LEMMA OnlyRecordEnds ==
  ASSUME IInv, Next, NEW p \in Process, op[p].pc = "record", op'[p].pc = "idle",
         crashes' = crashes
  PROVE  Record(p)
<1>t. op \in [Process -> Command] /\ crashes \in Nat
  BY DEF IInv, Types
<1>0. op[p].pc # "idle" /\ op'[p] # op[p]
  OBVIOUS
<1>1. \A q \in Process : ~ Crash(q)
  BY <1>t DEF Crash
<1>2. ~ ChangeSource
  BY <1>0 DEF ChangeSource
<1>3. ASSUME NEW q \in Process, NEW o, Begin(q, o) PROVE FALSE
  <2>1. q # p
    BY <1>3 DEF Begin
  <2> QED
    BY <1>0, <1>3, <1>t, <2>1 DEF Begin
<1>4. \A q \in Process, v \in Version, a \in Params, force \in BOOLEAN :
        ~ BeginConvert(q, v, a, force)
  BY <1>3 DEF BeginConvert
<1>5. \A q \in Process, c \in Content, m \in Model, force \in BOOLEAN :
        ~ BeginAnnotate(q, c, m, force)
  BY <1>3 DEF BeginAnnotate
<1>6. \A q \in Process, c \in Content, verdict \in {"approved", "rejected"} :
        ~ BeginReview(q, c, verdict)
  BY <1>3 DEF BeginReview
<1>7. PICK q \in Process : Step(q)
  BY <1>1, <1>2, <1>4, <1>5, <1>6 DEF Next
<1>8. \A r \in Process : r # q => op'[r] = op[r]
  BY <1>7, <1>t DEF Step, Lock, Probe, ProbeAgain, CacheHit, Extract, Stage, Inherit, Remove,
     Rename, Record, Annotate, WriteSemantics, WriteMeta, MirrorAnnotation, Review,
     WriteVerdict, SyncMeta, SyncIndex, RegenerateSkill, MissesFile, Go, End, TryAgain
<1>9. q = p
  BY <1>0, <1>8
<1> QED
  BY <1>7, <1>9 DEF Step, Lock, Probe, ProbeAgain, CacheHit, Extract, Stage, Inherit, Remove,
     Rename, Annotate, WriteSemantics, WriteMeta, MirrorAnnotation, Review,
     WriteVerdict, SyncMeta, SyncIndex, RegenerateSkill, MissesFile

LEMMA MadeIsVerifiedStep ==
  ASSUME IInv, [Next]_vars, NEW p \in Process,
         op[p].pc = "record", op'[p].pc = "idle", crashes' = crashes
  PROVE  LET package == folder[op[p].pkg]
         IN /\ \/ Verifies(package)
               \/ package.semantics.status = "draft" /\ ~ package.semantics.fits
            /\ package.whole /\ package.skill = Render(package.semantics)
            /\ AnnotationAgrees(package.semantics, package.annotation)
            /\ index'[op[p].pkg] = Entry(package)
<1> DEFINE c == op[p].pkg
<1>1. Record(p)
  BY OnlyRecordEnds DEF vars
<1>2. op[p].pc \in Locked
  BY DEF Locked, ConvertPcs
<1>3. /\ c \in Content /\ index \in [Content -> IndexEntry \cup {None}]
      /\ OpOK(op[p], source, folder[c], index[c], crashes = 0)
  BY <1>2, HolderFacts
<1>4. folder[c] \in Package /\ Good(folder[c])
  BY <1>3 DEF OpOK
<1>5. index'[c] = Entry(folder[c])
  BY <1>1, <1>3 DEF Record, Recorded
<1>6. folder[c].semantics # None => folder[c].semantics.fits \in BOOLEAN
  BY <1>4 DEF Package, Interpretation
<1> QED
  BY <1>4, <1>5, <1>6 DEF Good, Verifies, Complete, EvidenceHolds

\* A converted package that is put in place is complete: its view and its
\* annotation block say what its interpretation says, an inherited one too, and
\* the index records it as it is (_inherit_semantics, record).
THEOREM PackagesAreVerified == Spec => MadeIsVerified
<1>1. IInv /\ [Next]_vars =>
        [\A p \in Process : op[p].pc = "record" /\ op'[p].pc = "idle" /\ crashes' = crashes =>
           LET package == folder[op[p].pkg]
           IN /\ \/ Verifies(package)
                 \/ package.semantics.status = "draft" /\ ~ package.semantics.fits
              /\ package.whole /\ package.skill = Render(package.semantics)
              /\ AnnotationAgrees(package.semantics, package.annotation)
              /\ index'[op[p].pkg] = Entry(package)]_vars
  BY MadeIsVerifiedStep
<1> QED
  BY <1>1, PackageInvariant, PTL DEF Spec, MadeIsVerified
=============================================================================
