------------------------ MODULE AuditBundleProperties ------------------------
(***************************************************************************)
(* What the writers and the readers of the audit bundles must get right.   *)
(***************************************************************************)
EXTENDS AuditBundles

\* The commands and the lock of the package.
TypeOK ==
  /\ input \in 0 .. MaxInputs
  /\ \A s \in Scope : files[s].facts # None => files[s].facts.input \in 0 .. input
  /\ \A p \in Process :
       /\ op[p].at \in 1 .. Len(Order) + 1
       /\ lock = p <=> op[p].pc \in {"prepare", "review", "convert", "hit", "make", "publish",
                                     "restore", "mirror"}

\* A reader, which takes no lock, is only ever given a bundle that was committed
\* as it is, never files of two commits (load_validated_audit_bundle).
LoadedWasCommitted ==
  \A p \in Process : op[p].pc = "loaded" =>
    \E b \in committed : \A name \in {"facts", "context", "brief"} : b[name] = op[p].new[name]

\* A writer that fails leaves a package that can be read: every scope is as it
\* was before, or as it should be (_restore_files).
WholeWhenFree ==
  lock = None => \A s \in Scope : files[s] = NoFiles \/ Whole(s)

\* What prepare answers, stored or made, is whole, is the package as it is now
\* converted, and is what the models and the retriever that are asked for make,
\* even after a death between two of its files or before the index was written.
AnswerFitsTheCommand ==
  \A p \in Process : op[p].kind = "prepare" /\ op[p].pc \in {"hit", "mirror"} =>
    LET b == files[op[p].scope]
    IN /\ Whole(op[p].scope)
       /\ b.facts.input = input /\ b.facts.model = op[p].model
       /\ b.context.retriever = op[p].retriever
       /\ b.brief.model = op[p].model

\* A brief that carries a verdict carries it together with its facts, from one
\* review: no stage made later slips under an approval (review_audit_package).
ReviewedTogether ==
  \A b \in committed : b.brief.review.status # "draft" => b.facts.review = b.brief.review

\* The index never vouches for a document with a recipe that did not make it,
\* whichever deaths and reviews it went through (the recipe witness of a review).
RecipesAreTrue ==
  \A s \in Scope : index[s] # None /\ Whole(s) =>
    LET b == files[s]
        r == index[s]
    IN /\ r.facts = b.facts => r.factsRecipe \in {None, <<b.facts.model, b.facts.input>>}
       /\ r.context = b.context =>
            r.standardsRecipe \in {None, StandardsRecipe(b.facts, b.context.retriever)}
       /\ r.brief = b.brief =>
            r.briefRecipe \in {None, BriefRecipe(b.facts, b.context, b.brief.model)}

\* A bundle is one bundle: for the readers without a lock, for the models and
\* the retriever that were asked for, for its reviewer, for the index, and after
\* a failed write.
BundlesAreTrue ==
  /\ TypeOK
  /\ LoadedWasCommitted /\ AnswerFitsTheCommand
  /\ ReviewedTogether /\ RecipesAreTrue
  /\ crashes = 0 => WholeWhenFree
=============================================================================
