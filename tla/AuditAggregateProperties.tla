---------------------- MODULE AuditAggregateProperties ----------------------
(***************************************************************************)
(* What the aggregation of the committed sheets must get right.            *)
(***************************************************************************)
EXTENDS AuditAggregate

\* The steps of a worker and the lock it shares with the writers.
AggregateTypeOK ==
  \A w \in Worker :
    /\ job[w].selection \in Selection \cup {None}
    /\ DOMAIN job[w].capture.scopes \subseteq job[w].capture.sheets
    /\ lock = w <=> job[w].pc \in {"brief", "marker", "undobrief", "undocommit"}

\* An aggregate is published about the sheets as they are: the manifest and the
\* bundles it was made from are the ones of that moment, although they were
\* captured before the model was called (aggregate_audit_package).
PublishedIsCurrent ==
  [][\A w \in Worker : job[w].pc = "marker" /\ job'[w].pc = "answer" =>
       /\ job[w].brief.inputs.input = input /\ job[w].brief.inputs.committed = CommittedSheets
       /\ \A s \in DOMAIN job[w].brief.inputs.scopes :
            Whole(s) /\ job[w].brief.inputs.scopes[s] = files[s].marker]_allVars

\* What a loader or the cache answers was true of the sheets in the step that
\* decided it, and is a brief that was published, never a brief beside the
\* commit of another (load_audit_aggregate).
AnswerIsCurrent ==
  [][\A w \in Worker : job[w].pc \in {"compare", "cache"} /\ job'[w].pc = "answer" =>
       /\ job'[w].brief.inputs.input = input
       /\ job'[w].brief.inputs.committed = CommittedSheets
       /\ \A s \in DOMAIN job'[w].brief.inputs.scopes :
            files[s].marker = job'[w].brief.inputs.scopes[s]]_allVars

\* A selection of every committed sheet leaves none out.
AllMeansAll ==
  \A w \in Worker : job[w].pc = "answer" /\ job[w].selection = All =>
    DOMAIN job[w].brief.inputs.scopes = job[w].brief.inputs.committed

\* Nothing that a reviewer rejected, and nothing that is not ready, goes into
\* what is published (_load_snapshot).
NothingRejected ==
  \A x \in Selection : agg[x].commit # None =>
    \A s \in DOMAIN agg[x].commit.inputs.scopes :
      LET marker == agg[x].commit.inputs.scopes[s]
      IN marker.brief.ready /\ "rejected" \notin {marker.facts.review.status, marker.brief.review.status}

\* A failed publication leaves the pair that was there, and no answer mixes two.
PairWhenFree ==
  lock = None => \A x \in Selection : agg[x] = NoAggregate \/ Pair(agg[x].brief, agg[x].commit)

\* An aggregate is about the sheets as they are when it is published and when it
\* is answered, about all that were asked for and nothing rejected, and is one
\* pair after a failure.
AggregatesAreTrue ==
  /\ [](/\ AggregateTypeOK
        /\ NothingRejected /\ AllMeansAll
        /\ crashes = 0 => PairWhenFree)
  /\ PublishedIsCurrent /\ AnswerIsCurrent
=============================================================================
