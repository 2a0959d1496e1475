-------------------------- MODULE PackageProperties --------------------------
(***************************************************************************)
(* What the writers of the converted packages must get right.              *)
(***************************************************************************)
EXTENDS PackageStore

\* The files of a package and the steps of the commands.
TypeOK ==
  /\ source \in Content /\ lock \in [Content -> Process \cup {None}]
  /\ \A c \in Content : folder[c] # None =>
       /\ folder[c].version \in Version /\ folder[c].params \in Params
       /\ folder[c].annotation.key \in Model \cup {None}
       /\ folder[c].skill \in 0 .. MaxOps \cup {None}
  /\ \A p \in Process :
       /\ op[p].tries \in 0 .. Attempts - 1
       /\ op[p].pc \notin {"idle", "probe", "lock"} <=> \E c \in Content : lock[c] = p

-----------------------------------------------------------------------------

\* A package holds what its name says, although the source is saved again
\* while it is waited for, probed, extracted and hashed (_convert_one,
\* _SourceChangedDuringConversion).
PackageIsItsSource ==
  \A c \in Content : folder[c] # None => folder[c].from = c

\* What convert answers from its cache is the package it would make now: the
\* probe compares the options "to prevent a stale hit" (cache.py).
HitMatchesRequest ==
  \A p \in Process : op[p].pc = "hit" =>
    folder[op[p].pkg].version = op[p].version /\ folder[op[p].pkg].params = op[p].params

\* What is approved has its evidence in this very package, even when a newer
\* converter reads the workbook otherwise (_inherit_semantics).
ApprovedFits ==
  \A c \in Content : folder[c] # None /\ folder[c].semantics # None =>
    (folder[c].semantics.status = "approved" => folder[c].semantics.fits)

\* Only a complete annotation is ever approved (review.py).
OnlyCompleteApproved ==
  \A c \in Content : folder[c] # None /\ folder[c].semantics # None =>
    (folder[c].semantics.status = "approved" => folder[c].semantics.whole)

\* Where no command is at work, the index says of a package what its files say
\* (update_annotation, record).
IndexAgrees ==
  \A c \in Content : lock[c] = None /\ folder[c] # None => index[c] = Entry(folder[c])

\* A package is its source, and what is approved fits it, whatever dies; and as
\* long as no command died between its writes, the index and the cache agree
\* with the files, and only a complete annotation is approved.
PackageIsTrue ==
  /\ TypeOK
  /\ PackageIsItsSource /\ ApprovedFits
  /\ crashes = 0 => HitMatchesRequest /\ OnlyCompleteApproved /\ IndexAgrees

\* A package that is made is complete: its view and its annotation block say
\* what its interpretation says, an inherited one too, and only a draft may
\* point at evidence the new extraction no longer holds. The index records it
\* as it is (_inherit_semantics, record).
MadeIsVerified ==
  [][\A p \in Process : op[p].pc = "record" /\ op'[p].pc = "idle" /\ crashes' = crashes =>
       LET package == folder[op[p].pkg]
       IN /\ \/ Verifies(package)
             \/ package.semantics.status = "draft" /\ ~ package.semantics.fits
          /\ package.whole /\ package.skill = Render(package.semantics)
          /\ AnnotationAgrees(package.semantics, package.annotation)
          /\ index'[op[p].pkg] = Entry(package)]_vars
=============================================================================
