------------------------- MODULE ConversationProofs -------------------------
(***************************************************************************)
(* Machine-checked proofs about the conversation, for every package, every *)
(* set of runs on a thread and every limit.                                *)
(*                                                                         *)
(* The argument.  The run that holds the thread's lock is the only one     *)
(* past its bind and before its end (Locks), so the channels of the last   *)
(* checkpoint are its own (RunOK): bound to its bundle, with observations  *)
(* whose supplements it made and whose records cover what the turn may     *)
(* cite (TurnStateOK).  A run enters the history in one step, from         *)
(* "written", and every run of the history has passed it (Histories).      *)
(* The last part is about the audit agent, whose turn the conversation     *)
(* extends.                                                                *)
(***************************************************************************)
EXTENDS ConversationProperties, SequenceTheorems, FiniteSetTheorems, TLAPS

\* The points at which a run holds the lock of the thread; from Bind to the
\* commit the channels are those of its turn.
Outside == {"start", "waiting", "done", "failed", "lost"}
Inside  == Pcs \ Outside
Turning == Inside \ {"bind", "written", "returning"}

IsSeq(s) == s \in Seq(Range(s))

\* PlanHasItsBasis and RawAfterLedger, of any observations.
PlanBasis(observations) ==
  \A k \in Successes(observations, "procedure_planning") :
    LET arg == observations[k].input.arg
        before == SubSeq(observations, 1, k - 1)
    IN /\ arg.basis \subseteq ShownBy(before)
       /\ \A ref \in arg.research : ref \in RefsOf(before)
       /\ "standards_research" \in Enabled => HasStandardsBasis(arg)

RawBasis(observations) ==
  LET inspected == Successes(observations, "workbook_inspection")
      Arg(k) == observations[k].input.arg
  IN /\ \A j, k \in inspected : Arg(j).sheet = Arg(k).sheet
     /\ \A k \in inspected : Arg(k).source = "raw" =>
          \E j \in inspected : j < k /\ Arg(j).source = "ledger" /\ Arg(j).sheet = Arg(k).sheet

\* The state of a turn; the records it may cite are records it has shown.
TurnStateOK(state) ==
  /\ DOMAIN state = DOMAIN NoTurn
  /\ IsSeq(state.observations)
  /\ state.observed \subseteq Record
  /\ state.observed \subseteq ShownBy(state.observations)
  /\ PlanBasis(state.observations) /\ RawBasis(state.observations)

\* The channels, and what a process holds.
ThreadOK(t) ==
  /\ DOMAIN t = DOMAIN NewThread
  /\ t.bound \in Bundle \cup {0}
  /\ t.step \in 0 .. MaxSteps
  /\ IsSeq(t.history) /\ Len(t.history) <= MaxHistory
  /\ TurnStateOK(t.turn)

StateOK(r) ==
  /\ DOMAIN r = DOMAIN Idle
  /\ r.pc \in Pcs
  /\ r.bundle \in Bundle \cup {0}
  /\ r.child \in Nat
  /\ r.research \in 0 .. MaxResearch
  /\ r.planning \in 0 .. MaxPlanning
  /\ r.inspection \in 0 .. MaxInspection

Types ==
  /\ package \in Bundle
  /\ packageLock \in Invocation \cup {None} /\ threadLock \in Invocation \cup {None}
  /\ ThreadOK(thread)
  /\ run = [i \in Invocation |-> run[i]]
  /\ \A i \in Invocation : StateOK(run[i])

Locks ==
  \A i \in Invocation :
    /\ run[i].pc \in Inside <=> threadLock = i
    /\ run[i].pc \in {"pinned", "write"} <=> packageLock = i

\* A turn record of the history.
TurnOK(turn) ==
  /\ turn.response.selected \subseteq ShownBy(turn.observations)
  /\ \A ref \in turn.refs : ref.by = turn.invocation /\ ref \in RefsOf(turn.observations)
  /\ ResponseStands(turn, turn.observations)

Histories ==
  /\ \A k \in DOMAIN thread.history :
       LET turn == thread.history[k]
       IN /\ turn.turn_index = k /\ TurnOK(turn)
          /\ turn.invocation \in Invocation
          /\ run[turn.invocation].pc \in {"returning", "done", "lost"}
  /\ \A j, k \in DOMAIN thread.history :
       thread.history[j].invocation = thread.history[k].invocation => j = k
  /\ \A i \in Invocation : run[i].pc = "done" =>
       \E k \in DOMAIN thread.history : thread.history[k].invocation = i

\* What the decision of a turn asks for, and the model calls that are left.
Asking == {"tool", "research", "planning", "inspection", "reading"}

DecisionOK(r, t) ==
  /\ r.pc = "tool" => t.decision.tool \in Requests(Query, Record)
  /\ r.pc = "research" => t.decision.tool.name = "standards_research"
  /\ r.pc = "planning" => t.decision.tool.name = "procedure_planning"
  /\ r.pc \in {"inspection", "reading"} =>
       t.decision.tool \in [name : {"workbook_inspection"},
                            arg : [sheet : Sheet, source : Source, spelling : Spelling]]
  /\ r.pc = "reading" =>
       InspectionAllowed(t.decision.tool.arg, r.inspection, t.turn.observations)
  /\ r.pc \in Asking => t.step + r.child < MaxSteps
  /\ r.pc = "decide" =>
       \/ t.step + r.child < MaxSteps
       \/ Last(t.turn.observations).tool \in Silent

\* What run i, in state r, knows of the channels t and of bundle b.
RunOK(i, r, t, b) ==
  /\ r.pc \in {"start", "waiting", "bind", "bootstrap"} => r.child = 0
  /\ r.pc = "bootstrap" => t.step = 0
  /\ r.pc \in Turning \cup {"written"} => t.bound = r.bundle /\ Len(t.history) < MaxHistory
  /\ r.pc \in Turning => \A ref \in RefsOf(t.turn.observations) : ref.by = i
  /\ DecisionOK(r, t)
  /\ r.pc \in {"commit", "pinned", "write"} =>
       t.answer.response.selected \subseteq ShownBy(t.turn.observations)
  /\ r.pc = "write" => b = r.bundle
  /\ r.pc = "written" =>
       LET turn == Last(r.history)
       IN /\ r.history = Append(t.history, turn)
          /\ turn.turn_index = Len(t.history) + 1 /\ turn.invocation = i /\ TurnOK(turn)
  /\ r.pc = "returning" =>
       /\ r.history = t.history /\ t.history # <<>>
       /\ Last(t.history).invocation = i

RunsHold == \A i \in Invocation : RunOK(i, run[i], thread, package)

\* The invariant.
Inv == Types /\ Locks /\ Histories /\ RunsHold

-----------------------------------------------------------------------------
(* Sequences.                                                               *)

\* What a sequence is, and what appending to it leaves.
LEMMA SeqFacts ==
  ASSUME NEW s, IsSeq(s)
  PROVE  Len(s) \in Nat /\ DOMAIN s = 1 .. Len(s)
  BY LenProperties DEF IsSeq

LEMMA AppendFacts ==
  ASSUME NEW s, IsSeq(s), NEW e
  PROVE  /\ IsSeq(Append(s, e)) /\ Append(s, e) # <<>>
         /\ Len(Append(s, e)) = Len(s) + 1
         /\ DOMAIN Append(s, e) = 1 .. Len(s) + 1
         /\ \A k \in DOMAIN s : Append(s, e)[k] = s[k]
         /\ Append(s, e)[Len(s) + 1] = e
         /\ Last(Append(s, e)) = e
<1> DEFINE S == Range(s) \cup {e}
<1>1. s \in Seq(S)
  BY SeqMonotonic DEF IsSeq
<1>2. /\ Append(s, e) \in Seq(S) /\ Append(s, e) # <<>>
      /\ Len(Append(s, e)) = Len(s) + 1
      /\ \A k \in 1 .. Len(s) : Append(s, e)[k] = s[k]
      /\ Append(s, e)[Len(s) + 1] = e
  BY <1>1, AppendProperties
<1>3. IsSeq(Append(s, e))
  BY <1>2, SeqOfRange DEF IsSeq
<1> QED
  BY <1>2, <1>3, SeqFacts DEF Last

LEMMA EmptyFacts == IsSeq(<<>>) /\ Len(<<>>) = 0 /\ DOMAIN <<>> = {}
  BY EmptySeq, SeqFacts DEF IsSeq

\* The prefixes of a sequence stay when it grows.
LEMMA PrefixFacts ==
  ASSUME NEW s, IsSeq(s), NEW e
  PROVE  /\ \A k \in DOMAIN s : SubSeq(Append(s, e), 1, k - 1) = SubSeq(s, 1, k - 1)
         /\ SubSeq(Append(s, e), 1, Len(s) + 1 - 1) = s
<1>1. /\ Len(s) \in Nat /\ DOMAIN s = 1 .. Len(s)
      /\ \A k \in 1 .. Len(s) : Append(s, e)[k] = s[k]
  BY SeqFacts, AppendFacts
<1>2. ASSUME NEW k \in DOMAIN s
      PROVE  SubSeq(Append(s, e), 1, k - 1) = SubSeq(s, 1, k - 1)
  <2>1. k - 1 \in Int /\ \A n \in 1 .. k - 1 : Append(s, e)[n] = s[n] /\ s[n] \in Range(s)
    BY <1>1, <1>2 DEF Range
  <2>2. /\ SubSeq(Append(s, e), 1, k - 1) \in Seq(Range(s))
        /\ SubSeq(s, 1, k - 1) \in Seq(Range(s))
        /\ Len(SubSeq(Append(s, e), 1, k - 1)) = Len(SubSeq(s, 1, k - 1))
        /\ Len(SubSeq(s, 1, k - 1)) = k - 1
        /\ \A n \in 1 .. k - 1 : SubSeq(Append(s, e), 1, k - 1)[n] = Append(s, e)[n]
        /\ \A n \in 1 .. k - 1 : SubSeq(s, 1, k - 1)[n] = s[n]
    <3>1. 1 \in Int /\ (\A n \in 1 .. k - 1 : Append(s, e)[n] \in Range(s))
                    /\ (\A n \in 1 .. k - 1 : s[n] \in Range(s))
      BY <2>1
    <3>2. \A n \in 1 .. k - 1 : 1 + n - 1 = n
      BY <2>1
    <3>3. k - 1 - 1 + 1 = k - 1 /\ k >= 1
      BY <1>1, <1>2
    <3>4. /\ SubSeq(Append(s, e), 1, k - 1) \in Seq(Range(s))
          /\ Len(SubSeq(Append(s, e), 1, k - 1)) = IF 1 <= k - 1 THEN k - 1 - 1 + 1 ELSE 0
          /\ \A n \in 1 .. k - 1 - 1 + 1 :
               SubSeq(Append(s, e), 1, k - 1)[n] = Append(s, e)[1 + n - 1]
      BY <2>1, <3>1, SubSeqProperties
    <3>5. /\ SubSeq(s, 1, k - 1) \in Seq(Range(s))
          /\ Len(SubSeq(s, 1, k - 1)) = IF 1 <= k - 1 THEN k - 1 - 1 + 1 ELSE 0
          /\ \A n \in 1 .. k - 1 - 1 + 1 : SubSeq(s, 1, k - 1)[n] = s[1 + n - 1]
      BY <2>1, <3>1, SubSeqProperties
    <3> QED
      BY <1>1, <1>2, <3>2, <3>3, <3>4, <3>5
  <2> QED
    BY <2>1, <2>2, SeqEqual
<1>3. SubSeq(Append(s, e), 1, Len(s)) = s
  <2>1. /\ SubSeq(Append(s, e), 1, Len(s)) \in Seq(Range(s))
        /\ Len(SubSeq(Append(s, e), 1, Len(s))) = IF 1 <= Len(s) THEN Len(s) - 1 + 1 ELSE 0
        /\ \A n \in 1 .. Len(s) - 1 + 1 :
             SubSeq(Append(s, e), 1, Len(s))[n] = Append(s, e)[1 + n - 1]
    <3>1. 1 \in Int /\ Len(s) \in Int /\ \A n \in 1 .. Len(s) : Append(s, e)[n] \in Range(s)
      BY <1>1 DEF Range
    <3> QED BY <3>1, SubSeqProperties
  <2>2. \A n \in 1 .. Len(s) : SubSeq(Append(s, e), 1, Len(s))[n] = s[n]
    BY <1>1, <2>1
  <2> QED
    BY <1>1, <2>1, <2>2, SeqEqual DEF IsSeq
<1> QED
  BY <1>1, <1>2, <1>3

-----------------------------------------------------------------------------
(* The observations of a turn.                                              *)

LEMMA ShownAppend ==
  ASSUME NEW s, IsSeq(s), NEW o
  PROVE  ShownBy(Append(s, o)) = ShownBy(s) \cup o.result.shows
<1>1. /\ DOMAIN Append(s, o) = DOMAIN s \cup {Len(s) + 1}
      /\ \A k \in DOMAIN s : Append(s, o)[k] = s[k]
      /\ Append(s, o)[Len(s) + 1] = o
  BY AppendFacts, SeqFacts
<1>2. ASSUME NEW x, x \in ShownBy(Append(s, o)) PROVE x \in ShownBy(s) \cup o.result.shows
  <2>1. PICK k \in DOMAIN Append(s, o) : x \in Append(s, o)[k].result.shows
    BY <1>2 DEF ShownBy
  <2>2. CASE k \in DOMAIN s
    BY <1>1, <2>1, <2>2 DEF ShownBy
  <2>3. CASE k = Len(s) + 1
    BY <1>1, <2>1, <2>3
  <2> QED BY <1>1, <2>2, <2>3
<1>3. ASSUME NEW x, x \in ShownBy(s) PROVE x \in ShownBy(Append(s, o))
  <2>1. PICK k \in DOMAIN s : x \in s[k].result.shows
    BY <1>3 DEF ShownBy
  <2>2. k \in DOMAIN Append(s, o) /\ x \in Append(s, o)[k].result.shows
    BY <1>1, <2>1
  <2> QED BY <2>2 DEF ShownBy
<1>4. ASSUME NEW x, x \in o.result.shows PROVE x \in ShownBy(Append(s, o))
  <2>1. Len(s) + 1 \in DOMAIN Append(s, o) /\ x \in Append(s, o)[Len(s) + 1].result.shows
    BY <1>1, <1>4
  <2> QED BY <2>1 DEF ShownBy
<1> QED BY <1>2, <1>3, <1>4

\* The successes of one tool after one more observation, and what they show.
LEMMA SuccessesAppend ==
  ASSUME NEW s, IsSeq(s), NEW o, NEW tool
  PROVE  /\ \A k \in Successes(s, tool) :
              k \in DOMAIN s /\ k \in Successes(Append(s, o), tool) /\ Append(s, o)[k] = s[k]
         /\ \A k \in Successes(Append(s, o), tool) :
              \/ k \in Successes(s, tool)
              \/ k = Len(s) + 1 /\ o.tool = tool /\ ~ o.result.error
<1>1. /\ DOMAIN Append(s, o) = DOMAIN s \cup {Len(s) + 1}
      /\ \A k \in DOMAIN s : Append(s, o)[k] = s[k]
      /\ Append(s, o)[Len(s) + 1] = o
  BY AppendFacts, SeqFacts
<1> QED BY <1>1 DEF Successes

LEMMA RefsAppend ==
  ASSUME NEW s, IsSeq(s), NEW o, NEW ref \in RefsOf(Append(s, o))
  PROVE  \/ ref \in RefsOf(s)
         \/ o.tool \in Supplements /\ ~ o.result.error /\ ref \in o.result.refs
<1> PICK k \in UNION {Successes(Append(s, o), tool) : tool \in Supplements} :
         ref \in Append(s, o)[k].result.refs
  BY DEF RefsOf
<1> PICK tool \in Supplements : k \in Successes(Append(s, o), tool)
  OBVIOUS
<1>1. CASE k \in Successes(s, tool)
  <2>1. ref \in s[k].result.refs
    BY <1>1, SuccessesAppend
  <2>2. k \in UNION {Successes(s, name) : name \in Supplements}
    BY <1>1
  <2> QED BY <2>1, <2>2 DEF RefsOf
<1>2. CASE o.tool = tool /\ ~ o.result.error /\ k = Len(s) + 1
  BY <1>2, AppendFacts
<1> QED BY <1>1, <1>2, SuccessesAppend

\* An observation that is no successful supplement changes no basis.
LEMMA BasisKept ==
  ASSUME NEW s, IsSeq(s), NEW o,
         PlanBasis(s), o.tool = "procedure_planning" => o.result.error
  PROVE  PlanBasis(Append(s, o))
<1> SUFFICES ASSUME NEW k \in Successes(Append(s, o), "procedure_planning")
             PROVE  LET arg == Append(s, o)[k].input.arg
                        before == SubSeq(Append(s, o), 1, k - 1)
                    IN /\ arg.basis \subseteq ShownBy(before)
                       /\ \A ref \in arg.research : ref \in RefsOf(before)
                       /\ "standards_research" \in Enabled => HasStandardsBasis(arg)
  BY DEF PlanBasis
<1>1. k \in Successes(s, "procedure_planning")
  BY SuccessesAppend
<1>2. k \in DOMAIN s /\ Append(s, o)[k] = s[k]
  BY <1>1, SuccessesAppend
<1>3. SubSeq(Append(s, o), 1, k - 1) = SubSeq(s, 1, k - 1)
  BY <1>2, PrefixFacts
<1> QED BY <1>1, <1>2, <1>3 DEF PlanBasis

\* A plan that binds to what was observed before it has its basis.
LEMMA PlanAdded ==
  ASSUME NEW s, IsSeq(s), NEW o,
         PlanBasis(s),
         o.input.arg.basis \subseteq ShownBy(s),
         \A ref \in o.input.arg.research : ref \in RefsOf(s),
         "standards_research" \in Enabled => HasStandardsBasis(o.input.arg)
  PROVE  PlanBasis(Append(s, o))
<1> SUFFICES ASSUME NEW k \in Successes(Append(s, o), "procedure_planning")
             PROVE  LET arg == Append(s, o)[k].input.arg
                        before == SubSeq(Append(s, o), 1, k - 1)
                    IN /\ arg.basis \subseteq ShownBy(before)
                       /\ \A ref \in arg.research : ref \in RefsOf(before)
                       /\ "standards_research" \in Enabled => HasStandardsBasis(arg)
  BY DEF PlanBasis
<1>1. CASE k \in Successes(s, "procedure_planning")
  <2>1. k \in DOMAIN s /\ Append(s, o)[k] = s[k]
    BY <1>1, SuccessesAppend, AppendFacts
  <2>2. SubSeq(Append(s, o), 1, k - 1) = SubSeq(s, 1, k - 1)
    BY <2>1, PrefixFacts
  <2> QED BY <1>1, <2>1, <2>2 DEF PlanBasis
<1>2. CASE k = Len(s) + 1
  <2>1. Append(s, o)[k] = o /\ SubSeq(Append(s, o), 1, k - 1) = s
    BY <1>2, AppendFacts, PrefixFacts
  <2> QED BY <2>1
<1>3. k \in Successes(s, "procedure_planning") \/ k = Len(s) + 1
  BY SuccessesAppend
<1> QED BY <1>1, <1>2, <1>3

LEMMA RawKept ==
  ASSUME NEW s, IsSeq(s), NEW o,
         RawBasis(s), o.tool = "workbook_inspection" => o.result.error
  PROVE  RawBasis(Append(s, o))
<1> DEFINE S == Successes(s, "workbook_inspection")
           T == Successes(Append(s, o), "workbook_inspection")
<1>1. ASSUME NEW k \in S PROVE k \in T /\ Append(s, o)[k] = s[k]
  <2>1. k \in T /\ k \in DOMAIN s
    BY SuccessesAppend
  <2> QED BY <2>1, AppendFacts
<1>2. ASSUME NEW k \in T PROVE k \in S
  BY SuccessesAppend
<1>3. /\ \A j, k \in S : s[j].input.arg.sheet = s[k].input.arg.sheet
      /\ \A k \in S : s[k].input.arg.source = "raw" =>
           \E j \in S : j < k /\ s[j].input.arg.source = "ledger"
                     /\ s[j].input.arg.sheet = s[k].input.arg.sheet
  BY DEF RawBasis
<1> HIDE DEF S, T
<1>4. ASSUME NEW j \in T, NEW k \in T
      PROVE  Append(s, o)[j].input.arg.sheet = Append(s, o)[k].input.arg.sheet
  <2>1. j \in S /\ k \in S /\ Append(s, o)[j] = s[j] /\ Append(s, o)[k] = s[k]
    BY <1>1, <1>2
  <2> QED BY <1>3, <2>1
<1>5. ASSUME NEW k \in T, Append(s, o)[k].input.arg.source = "raw"
      PROVE  \E j \in T : j < k /\ Append(s, o)[j].input.arg.source = "ledger"
                      /\ Append(s, o)[j].input.arg.sheet = Append(s, o)[k].input.arg.sheet
  <2>1. k \in S /\ Append(s, o)[k] = s[k]
    BY <1>1, <1>2
  <2>2. PICK j \in S : j < k /\ s[j].input.arg.source = "ledger"
                      /\ s[j].input.arg.sheet = s[k].input.arg.sheet
    BY <1>3, <1>5, <2>1
  <2>3. j \in T /\ Append(s, o)[j] = s[j]
    BY <1>1, <2>2
  <2> QED BY <2>1, <2>2, <2>3
<1> QED BY <1>4, <1>5 DEF RawBasis, T

\* An inspection that was allowed has its ledger, on the sheet of the turn.
LEMMA InspectionAdded ==
  ASSUME NEW s, IsSeq(s), NEW o, RawBasis(s),
         o.input.arg \in [sheet : Sheet, source : Source, spelling : Spelling],
         SameSheet(o.input.arg, s), LedgerFirst(o.input.arg, s)
  PROVE  RawBasis(Append(s, o))
<1> DEFINE T == Append(s, o)
           inspected == Successes(T, "workbook_inspection")
           n == Len(s) + 1
           arg == o.input.arg
<1>1. /\ Len(s) \in Nat /\ DOMAIN s = 1 .. Len(s) /\ T[n] = o
      /\ \A k \in DOMAIN s : T[k] = s[k]
  BY SeqFacts, AppendFacts
<1>2. /\ \A k \in Successes(s, "workbook_inspection") : k \in DOMAIN s /\ k \in inspected
      /\ \A k \in inspected : k \in Successes(s, "workbook_inspection") \/ k = n
  BY SuccessesAppend
<1>3. \A k \in Successes(s, "workbook_inspection") : s[k].input.arg.sheet = arg.sheet
  BY DEF SameSheet, InspectedBefore
<1>4. arg.source = "raw" => \E k \in Successes(s, "workbook_inspection") :
        s[k].input.arg.source = "ledger" /\ s[k].input.arg.sheet = arg.sheet
  <2> SUFFICES ASSUME arg.source = "raw"
               PROVE  \E k \in Successes(s, "workbook_inspection") :
                        s[k].input.arg.source = "ledger" /\ s[k].input.arg.sheet = arg.sheet
    OBVIOUS
  <2>1. PICK k \in Successes(s, "workbook_inspection") :
          s[k].input.arg = [arg EXCEPT !.source = "ledger"]
    BY DEF LedgerFirst, InspectedBefore
  <2>2. [arg EXCEPT !.source = "ledger"].source = "ledger"
        /\ [arg EXCEPT !.source = "ledger"].sheet = arg.sheet
    OBVIOUS
  <2> QED BY <2>1, <2>2
<1> HIDE DEF T
<1>5. \A j, k \in inspected : T[j].input.arg.sheet = T[k].input.arg.sheet
  BY <1>1, <1>2, <1>3 DEF RawBasis
<1>6. ASSUME NEW k \in inspected, T[k].input.arg.source = "raw"
      PROVE  \E j \in inspected : j < k /\ T[j].input.arg.source = "ledger"
                                  /\ T[j].input.arg.sheet = T[k].input.arg.sheet
  <2>1. CASE k = n
    <3>1. PICK j \in Successes(s, "workbook_inspection") :
            s[j].input.arg.source = "ledger" /\ s[j].input.arg.sheet = arg.sheet
      BY <1>1, <1>4, <1>6, <2>1
    <3> QED BY <1>1, <1>2, <2>1, <3>1
  <2>2. CASE k \in Successes(s, "workbook_inspection")
    <3>1. PICK j \in Successes(s, "workbook_inspection") :
            j < k /\ s[j].input.arg.source = "ledger"
            /\ s[j].input.arg.sheet = s[k].input.arg.sheet
      BY <1>1, <1>2, <1>6, <2>2 DEF RawBasis
    <3> QED BY <1>1, <1>2, <2>2, <3>1
  <2> QED BY <1>2, <2>1, <2>2
<1> QED BY <1>5, <1>6 DEF RawBasis, T

-----------------------------------------------------------------------------
(* Turn states.                                                             *)

\* An observation that is no supplement, with records it lets the turn cite.
LEMMA ObservationAdded ==
  ASSUME NEW state, TurnStateOK(state), NEW o, o.tool \notin Supplements,
         NEW next, DOMAIN next = DOMAIN NoTurn,
         next.observations = Append(state.observations, o),
         next.observed \subseteq state.observed \cup (o.result.shows \cap Record)
  PROVE  /\ TurnStateOK(next)
         /\ \A ref \in RefsOf(next.observations) : ref \in RefsOf(state.observations)
<1>1. /\ IsSeq(state.observations) /\ state.observed \subseteq Record
      /\ state.observed \subseteq ShownBy(state.observations)
      /\ PlanBasis(state.observations) /\ RawBasis(state.observations)
  BY DEF TurnStateOK
<1>2. IsSeq(next.observations)
  BY <1>1, AppendFacts
<1>3. next.observed \subseteq Record /\ next.observed \subseteq ShownBy(next.observations)
  BY <1>1, ShownAppend
<1>4. o.tool # "procedure_planning" /\ o.tool # "workbook_inspection"
  BY DEF Supplements
<1>5. PlanBasis(next.observations) /\ RawBasis(next.observations)
  BY <1>1, <1>4, BasisKept, RawKept
<1>6. \A ref \in RefsOf(next.observations) : ref \in RefsOf(state.observations)
  BY <1>1, RefsAppend
<1> QED BY <1>2, <1>3, <1>5, <1>6 DEF TurnStateOK

LEMMA NoTurnOK == TurnStateOK(NoTurn) /\ RefsOf(NoTurn.observations) = {}
<1>1. NoTurn.observations = <<>> /\ NoTurn.observed = {}
  BY DEF NoTurn
<1>2. \A tool : Successes(<<>>, tool) = {}
  BY EmptyFacts DEF Successes
<1>3. RefsOf(<<>>) = {}
  BY <1>2 DEF RefsOf
<1>4. PlanBasis(<<>>) /\ RawBasis(<<>>)
  BY <1>2 DEF PlanBasis, RawBasis
<1> QED BY <1>1, <1>3, <1>4, EmptyFacts DEF TurnStateOK

\* What a search, an opening or a trace shows are records.
LEMMA AnswersShowRecords ==
  ASSUME NEW state, state.observed \subseteq Record, NEW request \in Requests(Query, Record)
  PROVE  ObservedFrom(Answered(request, state))
           \subseteq Answered(request, state).shows \cap Record
<1> DEFINE observed == state.observed
<1>1. /\ ToolError.error /\ ToolError.shows = {}
      /\ \A records : /\ Shows(request, records).shows = records
                       /\ ~ Shows(request, records).error
  BY DEF ToolError, Shows
<1>2. ExecuteTool(request, observed).shows \subseteq Record
  <2>1. CASE request.name \in {"audit_search", "assertion_procedures"}
    <3>1. request.arg \in Query
      BY <2>1 DEF Requests
    <3> QED BY <1>1, <2>1, <3>1, AgentAssumption DEF ExecuteTool
  <2>2. CASE request.name \notin {"audit_search", "assertion_procedures"}
             /\ request.arg \notin observed
    BY <1>1, <2>2 DEF ExecuteTool, Authorized
  <2>3. CASE request.name \notin {"audit_search", "assertion_procedures"}
             /\ request.arg \in observed
    <3> DEFINE linked == IF request.name = "trace" THEN Traced[request.arg] ELSE {}
    <3>1. ExecuteTool(request, observed) = Shows(request, {request.arg} \cup linked)
      BY <2>3 DEF ExecuteTool, Authorized
    <3>2. linked \subseteq Record
      BY <2>3, AgentAssumption
    <3> QED BY <1>1, <2>3, <3>1, <3>2
  <2> QED BY <2>1, <2>2, <2>3
<1> QED BY <1>1, <1>2 DEF Answered, ObservedFrom

LEMMA ToolTurn ==
  ASSUME NEW state, TurnStateOK(state), NEW decision,
         decision.tool \in Requests(Query, Record)
  PROVE  LET next == ApplyToolTurn(state, decision)
         IN /\ TurnStateOK(next)
            /\ \A ref \in RefsOf(next.observations) : ref \in RefsOf(state.observations)
<1> DEFINE request == decision.tool
           result == Answered(request, state)
           next == ApplyToolTurn(state, decision)
<1>1. DOMAIN state = {"observations", "used_tools", "observed", "discovery_complete"}
  BY DEF TurnStateOK, NoTurn
<1>2. CASE decision.final # None
  <2> DEFINE o == Feedback("agent_protocol")
  <2>1. next = [state EXCEPT !.observations = Append(@, o)]
    BY <1>2 DEF ApplyToolTurn
  <2>2. /\ DOMAIN next = DOMAIN NoTurn /\ next.observed = state.observed
        /\ next.observations = Append(state.observations, o)
    BY <1>1, <2>1 DEF NoTurn
  <2>3. o.tool \notin Supplements
    BY DEF Feedback, Observation, Supplements
  <2> HIDE DEF next, o
  <2> QED BY <2>2, <2>3, ObservationAdded DEF next
<1>3. CASE decision.final = None
  <2> DEFINE o == Observation(request.name, request, result)
  <2>1. next = [observations |-> Append(state.observations, o),
                used_tools |-> Append(state.used_tools, request.name),
                observed |-> state.observed \cup ObservedFrom(result),
                discovery_complete |-> state.discovery_complete /\ DiscoveryComplete(result)]
    BY <1>3 DEF ApplyToolTurn
  <2>2. /\ DOMAIN next = DOMAIN NoTurn
        /\ next.observed = state.observed \cup ObservedFrom(result)
        /\ next.observations = Append(state.observations, o)
    BY <2>1 DEF NoTurn
  <2>3. o.tool \notin Supplements /\ o.result = result
    BY DEF Observation, Supplements, Requests
  <2>4. ObservedFrom(result) \subseteq result.shows \cap Record
    BY AnswersShowRecords DEF TurnStateOK
  <2> HIDE DEF next, o, result
  <2> QED BY <2>2, <2>3, <2>4, ObservationAdded DEF next
<1> QED BY <1>2, <1>3

\* A turn starts with observations of the package and of earlier evidence.
LEMMA FocusedTurnOK ==
  ASSUME NEW history
  PROVE  LET state == FocusedTurnState(history)
         IN TurnStateOK(state) /\ RefsOf(state.observations) = {}
<1> DEFINE o1 == Observation("brief", None, BriefResult)
           o2 == Observation("assertion_procedures", None, BriefResult)
           first == [NoTurn EXCEPT !.observations = Append(<<>>, o1)]
<1>1. /\ o1.tool \notin Supplements /\ o2.tool \notin Supplements
      /\ o2.result = BriefResult /\ BriefResult.shows = Brief /\ ~ BriefResult.error
  BY DEF Observation, Supplements, BriefResult
<1>2. TurnStateOK(first) /\ RefsOf(first.observations) = {} /\ first.observations = <<o1>>
  <2>1. /\ DOMAIN first = DOMAIN NoTurn /\ first.observed = {} /\ first.observations = <<o1>>
        /\ first.observations = Append(NoTurn.observations, o1)
    BY DEF NoTurn
  <2> HIDE DEF first, o1
  <2> QED BY <1>1, <2>1, NoTurnOK, ObservationAdded
<1>3. TurnStateOK(NewTurnState) /\ RefsOf(NewTurnState.observations) = {}
  <2>1. /\ DOMAIN NewTurnState = DOMAIN NoTurn
        /\ NewTurnState.observed = ObservedFrom(BriefResult)
        /\ NewTurnState.observations = <<o1, o2>>
    BY DEF NewTurnState, NoTurn, Bootstrap
  <2>2. NewTurnState.observed = Brief
    BY <1>1, <2>1 DEF ObservedFrom
  <2>3. NewTurnState.observations = Append(first.observations, o2)
    BY <1>2, <2>1
  <2>4. Brief \subseteq Record
    BY AgentAssumption
  <2> HIDE DEF first, o1, o2
  <2> QED BY <1>1, <1>2, <2>1, <2>2, <2>3, <2>4, ObservationAdded
<1>4. CASE history = <<>>
  BY <1>3, <1>4 DEF FocusedTurnState
<1>5. CASE history # <<>>
  <2> DEFINE o == Focus(FocusRecords(history))
             next == FocusedTurnState(history)
  <2>1. next = [NewTurnState EXCEPT !.observations = Append(@, o),
                                    !.observed = @ \cup FocusRecords(history)]
    BY <1>5 DEF FocusedTurnState
  <2>2. /\ DOMAIN next = DOMAIN NoTurn
        /\ next.observed = NewTurnState.observed \cup FocusRecords(history)
        /\ next.observations = Append(NewTurnState.observations, o)
    BY <2>1 DEF NewTurnState, NoTurn
  <2>3. o.tool \notin Supplements /\ o.result.shows = FocusRecords(history)
    BY DEF Focus, FocusResult, Observation, Supplements
  <2>4. FocusRecords(history) \subseteq Record
    BY DEF FocusRecords
  <2>5. TurnStateOK(next) /\ \A ref \in RefsOf(next.observations) : ref \in {}
    <3> HIDE DEF next, o
    <3>1. next.observed \subseteq NewTurnState.observed \cup (o.result.shows \cap Record)
      BY <2>2, <2>3, <2>4
    <3>2. /\ TurnStateOK(next)
          /\ \A ref \in RefsOf(next.observations) : ref \in RefsOf(NewTurnState.observations)
      BY <1>3, <2>2, <2>3, <3>1, ObservationAdded
    <3> QED BY <1>3, <3>2
  <2> QED BY <2>5
<1> QED BY <1>4, <1>5

-----------------------------------------------------------------------------
(* Steps.                                                                   *)

LEMMA Points ==
  /\ Outside \cap Inside = {} /\ Outside \cup Inside = Pcs /\ Turning \subseteq Inside
  /\ Asking \cup {"bind", "bootstrap", "decide", "finalize", "store_blocked", "commit", "pinned",
                  "write", "written", "returning"} = Inside
  BY DEF Outside, Inside, Turning, Pcs, Asking

\* The fields of a process that moves on.
LEMMA StateFields ==
  ASSUME NEW r, StateOK(r), NEW pc
  PROVE  LET q == [r EXCEPT !.pc = pc]
         IN /\ pc \in Pcs => StateOK(q)
            /\ q.pc = pc /\ q.bundle = r.bundle /\ q.child = r.child /\ q.history = r.history
            /\ q.research = r.research /\ q.planning = r.planning
            /\ q.inspection = r.inspection
<1>1. DOMAIN r = {"pc", "bundle", "witness", "child", "research", "planning", "inspection",
                  "history"}
  BY DEF StateOK, Idle
<1> QED BY <1>1 DEF StateOK

\* The run with the lock keeps the history: no other run is in its way.
LEMMA InsideStep ==
  ASSUME Inv, NEW i \in Invocation, NEW r, NEW t,
         run[i].pc \in Inside \ {"returning"}, r.pc \in Inside \ {"returning"},
         run' = [run EXCEPT ![i] = r], thread' = t,
         package' = package, threadLock' = threadLock,
         packageLock' \in Invocation \cup {None},
         \A j \in Invocation \ {i} : packageLock' = j <=> packageLock = j,
         packageLock' = i <=> r.pc \in {"pinned", "write"},
         StateOK(r), ThreadOK(t), t.history = thread.history, RunOK(i, r, t, package)
  PROVE  Inv'
<1>1. /\ run'[i] = r /\ \A j \in Invocation \ {i} : run'[j] = run[j]
      /\ run' = [j \in Invocation |-> run'[j]]
  BY DEF Inv, Types
<1>2. threadLock = i /\ \A j \in Invocation \ {i} : run[j].pc \notin Inside
  BY DEF Inv, Locks
<1>3. Types'
  BY <1>1 DEF Inv, Types, ThreadOK, TurnStateOK, StateOK
<1>4. Locks'
  BY <1>1, <1>2 DEF Inv, Locks
<1>5. Histories'
  <2>1. \A k \in DOMAIN t.history :
          /\ t.history[k].turn_index = k /\ TurnOK(t.history[k])
          /\ t.history[k].invocation \in Invocation
          /\ run'[t.history[k].invocation].pc \in {"returning", "done", "lost"}
    BY <1>1, Points DEF Inv, Histories, Outside
  <2>2. \A j \in Invocation : run'[j].pc = "done" =>
          \E k \in DOMAIN t.history : t.history[k].invocation = j
    BY <1>1, Points DEF Inv, Histories, Outside
  <2>3. \A j, k \in DOMAIN t.history :
          t.history[j].invocation = t.history[k].invocation => j = k
    BY DEF Inv, Histories
  <2> QED BY <2>1, <2>2, <2>3 DEF Histories, TurnOK
<1>6. RunsHold'
  <2>1. ASSUME NEW j \in Invocation \ {i} PROVE RunOK(j, run[j], t, package)
    <3>1. run[j].pc \notin Inside /\ RunOK(j, run[j], thread, package)
      BY <1>2 DEF Inv, RunsHold
    <3>2. run[j].pc \in {"start", "waiting", "done", "failed", "lost"}
      BY <3>1, Points DEF Inv, Types, StateOK, Outside
    <3> QED BY <3>1, <3>2 DEF RunOK, DecisionOK, Turning, Inside, Outside, Asking
  <2> QED BY <1>1, <2>1 DEF RunsHold
<1> QED BY <1>3, <1>4, <1>5, <1>6 DEF Inv

\* A run that ends lets its locks go.
LEMMA EndStep ==
  ASSUME Inv, NEW i \in Invocation, NEW pc \in {"done", "failed", "lost"}, Ends(i, pc),
         run[i].pc \notin {"done", "lost"},
         run[i].pc = "returning" => pc # "failed",
         pc = "done" => run[i].pc = "returning"
  PROVE  Inv'
<1> DEFINE r == [run[i] EXCEPT !.pc = pc]
<1>1. /\ run' = [run EXCEPT ![i] = r]
      /\ threadLock' = IF threadLock = i THEN None ELSE threadLock
      /\ packageLock' = IF packageLock = i THEN None ELSE packageLock
      /\ package' = package /\ thread' = thread
  BY DEF Ends, Goto
<1>2. StateOK(run[i]) /\ None \notin Invocation
  BY ConversationAssumption DEF Inv, Types
<1>3. StateOK(r) /\ r.pc = pc
  BY <1>2, StateFields DEF Pcs
<1> HIDE DEF r
<1>4. /\ run'[i] = r /\ \A j \in Invocation \ {i} : run'[j] = run[j]
      /\ run' = [j \in Invocation |-> run'[j]]
  BY <1>1 DEF Inv, Types
<1>5. Types'
  BY <1>1, <1>2, <1>3, <1>4 DEF Inv, Types, ThreadOK, TurnStateOK, StateOK
<1>6. pc \notin Inside /\ pc \notin {"pinned", "write"}
  BY DEF Inside, Outside
<1>7. Locks'
  BY <1>1, <1>2, <1>3, <1>4, <1>6 DEF Inv, Locks
<1>8. Histories'
  <2>1. ASSUME NEW k \in DOMAIN thread.history
        PROVE  run'[thread.history[k].invocation].pc \in {"returning", "done", "lost"}
    BY <1>3, <1>4 DEF Inv, Histories
  <2>2. pc = "done" => \E k \in DOMAIN thread.history : thread.history[k].invocation = i
    <3>1. CASE pc = "done"
      <4>1. /\ thread.history # <<>> /\ Last(thread.history).invocation = i
            /\ IsSeq(thread.history)
        BY <3>1 DEF Inv, RunsHold, RunOK, Types, ThreadOK
      <4>2. Len(thread.history) \in DOMAIN thread.history
        BY <4>1, EmptySeq DEF IsSeq
      <4> QED BY <4>1, <4>2 DEF Last
    <3> QED BY <3>1
  <2>3. \A j \in Invocation : run'[j].pc = "done" =>
          \E k \in DOMAIN thread.history : thread.history[k].invocation = j
    BY <1>3, <1>4, <2>2 DEF Inv, Histories
  <2> QED BY <1>1, <2>1, <2>3 DEF Inv, Histories, TurnOK
<1>9. RunsHold'
  <2>1. RunOK(i, r, thread, package)
    BY <1>3, <1>6 DEF RunOK, DecisionOK, Turning, Inside, Outside, Asking
  <2> QED BY <1>1, <1>4, <2>1 DEF Inv, RunsHold
<1> QED BY <1>5, <1>7, <1>8, <1>9 DEF Inv

\* What holds of a run with the lock of the thread.
LEMMA Holder ==
  ASSUME Inv, NEW i \in Invocation
  PROVE  /\ StateOK(run[i]) /\ ThreadOK(thread) /\ TurnStateOK(thread.turn)
         /\ RunOK(i, run[i], thread, package)
         /\ DOMAIN thread = {"bound", "history", "turn", "decision", "answer", "step"}
         /\ DOMAIN thread.turn = {"observations", "used_tools", "observed",
                                  "discovery_complete"}
         /\ run[i].pc \notin {"pinned", "write"} => packageLock # i
         /\ IsSeq(thread.history) /\ IsSeq(thread.turn.observations)
         /\ packageLock \in Invocation \cup {None} /\ None \notin Invocation
  BY ConversationAssumption
     DEF Inv, Types, Locks, RunsHold, ThreadOK, TurnStateOK, NewThread, NoTurn

\* A node that returns, with the lock of the package where it was.
LEMMA ReturnsStep ==
  ASSUME Inv, NEW i \in Invocation, NEW t, NEW pc \in Inside \ {"pinned", "write", "returning"},
         run[i].pc \in Inside \ {"pinned", "write", "returning"},
         Returns(i, t, pc), ThreadOK(t), t.history = thread.history,
         RunOK(i, [run[i] EXCEPT !.pc = pc], t, package)
  PROVE  Inv'
<1> DEFINE r == [run[i] EXCEPT !.pc = pc]
<1>1. StateOK(r) /\ r.pc = pc
  BY Holder, StateFields, Points
<1>2. /\ run' = [run EXCEPT ![i] = r] /\ thread' = t /\ package' = package
      /\ packageLock' = packageLock /\ threadLock' = threadLock
  BY DEF Returns, Goto
<1>3. packageLock # i /\ packageLock \in Invocation \cup {None}
  BY Holder
<1> HIDE DEF r
<1> QED BY <1>1, <1>2, <1>3, InsideStep DEF r

LEMMA BindStep ==
  ASSUME Inv, NEW i \in Invocation, Bind(i)
  PROVE  Inv'
<1> USE Holder
<1>1. run[i].pc = "bind"
  BY DEF Bind
<1>2. CASE thread.bound \notin {0, run[i].bundle} \/ Len(thread.history) >= MaxHistory
  BY <1>1, <1>2, EndStep DEF Bind, Fail
<1>3. CASE ~ (thread.bound \notin {0, run[i].bundle} \/ Len(thread.history) >= MaxHistory)
  <2> DEFINE t == [NewThread EXCEPT !.bound = run[i].bundle, !.history = thread.history]
             pc == IF run[i].bundle \in Ready THEN "bootstrap" ELSE "store_blocked"
             r == [run[i] EXCEPT !.pc = pc]
  <2>1. Returns(i, t, pc)
    BY <1>3 DEF Bind
  <2>2. /\ t.bound = run[i].bundle /\ t.history = thread.history /\ t.turn = NoTurn
        /\ t.step = 0 /\ DOMAIN t = DOMAIN NewThread
    BY DEF NewThread
  <2>3. Len(thread.history) \in Nat /\ Len(thread.history) < MaxHistory
    BY <1>3, SeqFacts, ConversationAssumption
  <2>4. ThreadOK(t)
    BY <2>2, <2>3, NoTurnOK, AgentAssumption DEF ThreadOK, StateOK
  <2>5. r.pc = pc /\ r.bundle = run[i].bundle /\ r.child = 0
    BY <1>1, StateFields DEF RunOK
  <2>6. RunOK(i, r, t, package)
    <3> HIDE DEF r, t
    <3> QED BY <2>2, <2>3, <2>5, NoTurnOK DEF RunOK, DecisionOK, Asking
  <2> HIDE DEF t
  <2> QED BY <1>1, <2>1, <2>2, <2>4, <2>6, ReturnsStep, Points
<1> QED BY <1>2, <1>3

LEMMA BootstrapStep ==
  ASSUME Inv, NEW i \in Invocation, BootstrapTurn(i)
  PROVE  Inv'
<1> USE Holder
<1> DEFINE t == [thread EXCEPT !.turn = FocusedTurnState(thread.history)]
           r == [run[i] EXCEPT !.pc = "decide"]
<1>1. run[i].pc = "bootstrap" /\ Returns(i, t, "decide")
  BY DEF BootstrapTurn
<1>2. /\ t.bound = thread.bound /\ t.history = thread.history /\ t.step = thread.step
      /\ t.turn = FocusedTurnState(thread.history) /\ DOMAIN t = DOMAIN thread
  OBVIOUS
<1>3. ThreadOK(t)
  BY <1>2, FocusedTurnOK DEF ThreadOK
<1>4. r.pc = "decide" /\ r.bundle = run[i].bundle /\ r.child = run[i].child
  BY StateFields
<1>5. /\ run[i].child = 0 /\ thread.step = 0
      /\ thread.bound = run[i].bundle /\ Len(thread.history) < MaxHistory
  BY <1>1, Points DEF RunOK, Turning
<1>6. RunOK(i, r, t, package)
  <2>1. RefsOf(t.turn.observations) = {}
    BY <1>2, FocusedTurnOK
  <2> HIDE DEF r, t
  <2> QED BY <1>2, <1>4, <1>5, <2>1, AgentAssumption DEF RunOK, DecisionOK, Asking
<1> HIDE DEF t
<1> QED BY <1>1, <1>2, <1>3, <1>6, ReturnsStep, Points

\* What a decision asks for, by the node it goes to.
LEMMA DecisionRoutes ==
  ASSUME NEW step, NEW child, NEW refs, NEW decision \in ConversationDecisions(step, child, refs)
  PROVE  LET pc == Route(decision)
         IN /\ pc \in {"finalize", "tool", "research", "planning", "inspection"}
            /\ pc # "finalize" => ~ MustFinalize(step, child)
            /\ pc = "tool" => decision.tool \in Requests(Query, Record)
            /\ pc = "research" => decision.tool.name = "standards_research"
            /\ pc = "planning" => decision.tool.name = "procedure_planning"
            /\ pc = "inspection" =>
                 decision.tool \in [name : {"workbook_inspection"},
                                    arg : [sheet : Sheet, source : Source, spelling : Spelling]]
<1> DEFINE pc == Route(decision)
<1>1. /\ pc \in {"finalize", "tool", "research", "planning", "inspection"}
      /\ pc # "finalize" => decision.action = "tool"
      /\ pc = "research" => decision.tool.name = "standards_research"
      /\ pc = "planning" => decision.tool.name = "procedure_planning"
      /\ pc = "inspection" => decision.tool.name = "workbook_inspection"
      /\ pc = "tool" => decision.tool.name \notin Supplements
  BY DEF Route, Supplements
<1>2. CASE decision.action # "tool"
  BY <1>1, <1>2
<1>3. CASE decision.action = "tool"
  <2>1. ~ MustFinalize(step, child)
    BY <1>3 DEF ConversationDecisions, ConversationFinal
  <2>2. [name |-> "audit_get", arg |-> Unknown] \in Requests(Query, Record)
    BY DEF Requests
  <2>3. decision.tool \in Requests(Query, Record) \cup SupplementRequest(refs)
    BY <1>3, <2>1, <2>2 DEF ConversationDecisions, ConversationFinal, Muddled
  <2>4. decision.tool \in Requests(Query, Record) =>
          decision.tool.name \in {"audit_search", "assertion_procedures", "audit_get", "trace"}
    BY DEF Requests
  <2>5. decision.tool \in SupplementRequest(refs) =>
          /\ decision.tool.name \in Supplements
          /\ decision.tool.name = "workbook_inspection" =>
               decision.tool \in [name : {"workbook_inspection"},
                                  arg : [sheet : Sheet, source : Source, spelling : Spelling]]
    BY DEF SupplementRequest, Supplements
  <2> QED BY <1>1, <2>1, <2>3, <2>4, <2>5
<1> QED BY <1>2, <1>3

LEMMA DecideStep ==
  ASSUME Inv, NEW i \in Invocation, Decide(i)
  PROVE  Inv'
<1> USE Holder
<1>1. run[i].pc = "decide"
  BY DEF Decide
<1>2. CASE Fail(i)
  BY <1>1, <1>2, EndStep DEF Fail
<1>3. CASE /\ ~ (thread.step + run[i].child >= MaxSteps)
           /\ \E decision \in ConversationDecisions(thread.step + 1, run[i].child, KnownRefs) :
                Returns(i, [thread EXCEPT !.decision = decision, !.step = @ + 1], Route(decision))
  <2> PICK decision \in ConversationDecisions(thread.step + 1, run[i].child, KnownRefs) :
           Returns(i, [thread EXCEPT !.decision = decision, !.step = @ + 1], Route(decision))
    BY <1>3
  <2> DEFINE t == [thread EXCEPT !.decision = decision, !.step = @ + 1]
             pc == Route(decision)
             r == [run[i] EXCEPT !.pc = pc]
  <2>1. Returns(i, t, pc)
    OBVIOUS
  <2>2. /\ t.bound = thread.bound /\ t.history = thread.history /\ t.step = thread.step + 1
        /\ t.turn = thread.turn /\ t.decision = decision /\ DOMAIN t = DOMAIN thread
    OBVIOUS
  <2>3. thread.step \in Nat /\ run[i].child \in Nat /\ MaxSteps \in Nat
    BY AgentAssumption DEF ThreadOK, StateOK
  <2>4. t.step \in 0 .. MaxSteps
    BY <1>3, <2>2, <2>3
  <2>5. ThreadOK(t)
    BY <2>2, <2>4 DEF ThreadOK
  <2>6. r.pc = pc /\ r.bundle = run[i].bundle /\ r.child = run[i].child
    BY StateFields
  <2>7. /\ thread.bound = run[i].bundle /\ Len(thread.history) < MaxHistory
        /\ \A ref \in RefsOf(thread.turn.observations) : ref.by = i
    BY <1>1, Points DEF RunOK, Turning
  <2>8. /\ pc \in {"finalize", "tool", "research", "planning", "inspection"}
        /\ pc # "finalize" => ~ MustFinalize(thread.step + 1, run[i].child)
        /\ pc = "tool" => decision.tool \in Requests(Query, Record)
        /\ pc = "research" => decision.tool.name = "standards_research"
        /\ pc = "planning" => decision.tool.name = "procedure_planning"
        /\ pc = "inspection" =>
             decision.tool \in [name : {"workbook_inspection"},
                                arg : [sheet : Sheet, source : Source, spelling : Spelling]]
    BY DecisionRoutes
  <2>9. pc # "finalize" => t.step + r.child < MaxSteps
    BY <2>2, <2>3, <2>6, <2>8 DEF MustFinalize
  <2> HIDE DEF t, r, pc
  <2>10. RunOK(i, r, t, package)
    BY <2>2, <2>6, <2>7, <2>8, <2>9 DEF RunOK, DecisionOK, Asking
  <2> QED BY <1>1, <2>1, <2>2, <2>5, <2>8, <2>10, ReturnsStep, Points DEF Asking, r
<1> QED BY <1>2, <1>3 DEF Decide

LEMMA ToolStep ==
  ASSUME Inv, NEW i \in Invocation, ExecuteToolTurn(i)
  PROVE  Inv'
<1> USE Holder
<1>1. run[i].pc = "tool"
  BY DEF ExecuteToolTurn
<1>2. CASE ~ Accepted(i)
  BY <1>1, <1>2, EndStep DEF ExecuteToolTurn, Fail
<1>3. CASE Accepted(i)
  <2> DEFINE t == [thread EXCEPT !.turn = ApplyToolTurn(@, thread.decision), !.decision = None]
             r == [run[i] EXCEPT !.pc = "decide"]
  <2>1. Returns(i, t, "decide")
    BY <1>3 DEF ExecuteToolTurn
  <2>2. /\ t.bound = thread.bound /\ t.history = thread.history /\ t.step = thread.step
        /\ t.turn = ApplyToolTurn(thread.turn, thread.decision) /\ DOMAIN t = DOMAIN thread
    OBVIOUS
  <2>3. /\ thread.decision.tool \in Requests(Query, Record)
        /\ thread.step + run[i].child < MaxSteps
        /\ thread.bound = run[i].bundle /\ Len(thread.history) < MaxHistory
        /\ \A ref \in RefsOf(thread.turn.observations) : ref.by = i
    BY <1>1, Points DEF RunOK, DecisionOK, Asking, Turning
  <2>4. /\ TurnStateOK(t.turn)
        /\ \A ref \in RefsOf(t.turn.observations) : ref \in RefsOf(thread.turn.observations)
    BY <2>2, <2>3, ToolTurn
  <2>5. ThreadOK(t)
    BY <2>2, <2>4 DEF ThreadOK
  <2>6. r.pc = "decide" /\ r.bundle = run[i].bundle /\ r.child = run[i].child
    BY StateFields
  <2> HIDE DEF t, r
  <2>7. RunOK(i, r, t, package)
    BY <2>2, <2>3, <2>4, <2>6 DEF RunOK, DecisionOK, Asking
  <2> QED BY <1>1, <2>1, <2>2, <2>5, <2>7, ReturnsStep, Points DEF Asking, r
<1> QED BY <1>2, <1>3

\* What a supplement may come to: model calls within the budget, an attempt
\* within the allowance, and references that are the run's own.
OutcomeOK(outcome, i, count, most, budget) ==
  /\ outcome.calls \in {0, 1} /\ outcome.counted \in {0, 1}
  /\ outcome.calls = 1 => budget > 0
  /\ outcome.counted = 1 => count < most
  /\ ~ outcome.result.error => \A ref \in outcome.result.refs : ref.by = i

LEMMA OutcomeFields ==
  /\ \A result, calls, counted :
       LET outcome == Outcome(result, calls, counted)
       IN outcome.result = result /\ outcome.calls = calls /\ outcome.counted = counted
  /\ \A refs, input : ~ Supplied(refs, input).error /\ Supplied(refs, input).refs = refs
  /\ \A kind, what, i : Ref(kind, what, i).by = i
  /\ ToolError.error
  BY DEF Outcome, Supplied, Ref, ToolError

LEMMA RefusalOK ==
  ASSUME NEW i, NEW count, NEW most, NEW budget
  PROVE  OutcomeOK(Refusal, i, count, most, budget)
  BY OutcomeFields DEF OutcomeOK, Refusal

LEMMA ResearchOK ==
  ASSUME NEW request, NEW i, NEW count \in Nat, NEW budget \in Int,
         NEW outcome \in ResearchOutcomes(request, i, count, budget)
  PROVE  OutcomeOK(outcome, i, count, MaxResearch, budget)
<1>1. CASE "standards_research" \notin Enabled \/ count >= MaxResearch \/ budget <= 0
  BY <1>1, RefusalOK DEF ResearchOutcomes
<1>2. CASE ~ ("standards_research" \notin Enabled \/ count >= MaxResearch \/ budget <= 0)
  <2>1. count < MaxResearch /\ budget > 0
    BY <1>2, ConversationAssumption
  <2>2. CASE outcome = Outcome(ToolError, 0, 1)
    BY <2>1, <2>2, OutcomeFields DEF OutcomeOK
  <2>3. CASE outcome \in ResearchResults(request.arg, i)
    <3>1. CASE outcome = Outcome(Supplied({}, request.arg), 0, 1)
      BY <2>1, <3>1, OutcomeFields DEF OutcomeOK
    <3>2. CASE outcome = Outcome(ToolError, 1, 1)
      BY <2>1, <3>2, OutcomeFields DEF OutcomeOK
    <3>3. CASE \E chosen \in Selections(Hits[request.arg]) :
                 outcome = Outcome(Supplied({Ref("research", p, i) : p \in chosen}, request.arg), 1, 1)
      <4> PICK chosen \in Selections(Hits[request.arg]) :
               outcome = Outcome(Supplied({Ref("research", p, i) : p \in chosen}, request.arg), 1, 1)
        BY <3>3
      <4> DEFINE refs == {Ref("research", p, i) : p \in chosen}
      <4>1. \A ref \in refs : ref.by = i
        BY OutcomeFields
      <4> HIDE DEF refs
      <4>2. outcome = Outcome(Supplied(refs, request.arg), 1, 1)
        BY DEF refs
      <4> QED BY <2>1, <4>1, <4>2, OutcomeFields DEF OutcomeOK
    <3> QED BY <2>3, <3>1, <3>2, <3>3 DEF ResearchResults
  <2> QED BY <1>2, <2>2, <2>3 DEF ResearchOutcomes
<1> QED BY <1>1, <1>2

LEMMA PlanningOK ==
  ASSUME NEW request, NEW i, NEW count \in Nat, NEW budget \in Int, NEW observed, NEW research,
         NEW outcome \in PlanningOutcomes(request, i, count, budget, observed, research)
  PROVE  /\ OutcomeOK(outcome, i, count, MaxPlanning, budget)
         /\ ~ outcome.result.error =>
              /\ PlanningBinds(request.arg, observed, research)
              /\ "standards_research" \in Enabled => HasStandardsBasis(request.arg)
<1> DEFINE refused == \/ "procedure_planning" \notin Enabled
                      \/ count >= MaxPlanning
                      \/ budget <= 0
                      \/ ~PlanningBinds(request.arg, observed, research)
                      \/ ~HasStandardsBasis(request.arg) /\ "standards_research" \in Enabled
           refs == {Ref("plan", request.arg, i)}
<1>1. CASE refused
  <2>1. outcome = Refusal /\ Refusal.result.error
    BY <1>1, OutcomeFields DEF PlanningOutcomes, Refusal
  <2> QED BY <2>1, RefusalOK
<1>2. CASE ~ refused
  <2>1. count < MaxPlanning /\ budget > 0
    BY <1>2, ConversationAssumption
  <2>2. \A ref \in refs : ref.by = i
    BY OutcomeFields
  <2>3. outcome \in {Outcome(ToolError, 0, 1), Outcome(ToolError, 1, 1),
                    Outcome(Supplied(refs, request.arg), 1, 1),
                    Outcome(Supplied(refs, request.arg), 0, 1)}
    BY <1>2 DEF PlanningOutcomes, PlanResults, PlanResult
  <2>4. OutcomeOK(outcome, i, count, MaxPlanning, budget)
    <3> HIDE DEF refs
    <3> QED BY <2>1, <2>2, <2>3, OutcomeFields DEF OutcomeOK
  <2> QED BY <1>2, <2>4
<1> QED BY <1>1, <1>2

\* The observation a supplement leaves.
Left(outcome) == Observation(thread.decision.tool.name, thread.decision.tool, outcome.result)

\* The counts of a run, and how many requests of each kind a turn may make.
Allowance(counter) ==
  CASE counter = "research" -> MaxResearch
    [] counter = "planning" -> MaxPlanning
    [] counter = "inspection" -> MaxInspection

\* A supplement with its basis, within the budget and its allowance.
LEMMA SupplementStep ==
  ASSUME Inv, NEW i \in Invocation, NEW outcome,
         NEW counter \in {"research", "planning", "inspection"},
         run[i].pc \in {"research", "planning", "inspection", "reading"},
         Supplement(i, outcome, counter),
         OutcomeOK(outcome, i, run[i][counter], Allowance(counter), ChildModelCallBudget(i)),
         PlanBasis(Append(thread.turn.observations, Left(outcome))),
         RawBasis(Append(thread.turn.observations, Left(outcome)))
  PROVE  Inv'
<1> USE Holder
<1> DEFINE o == Left(outcome)
           s == thread.turn.observations
           t == [thread EXCEPT
                   !.turn.observations = Append(@, o),
                   !.turn.used_tools = Append(@, o.tool),
                   !.turn.discovery_complete =
                      @ /\ (o.tool # "procedure_planning" => ~ o.result.error),
                   !.decision = None]
           r == [run[i] EXCEPT !.pc = "decide", !.witness = Append(@, o),
                               !.child = @ + outcome.calls, ![counter] = @ + outcome.counted]
<1>1. /\ run' = [run EXCEPT ![i] = r] /\ thread' = t /\ package' = package
      /\ packageLock' = packageLock /\ threadLock' = threadLock
  <2>1. run' = [run EXCEPT ![i] = r]
    BY DEF Supplement, Left
  <2> QED BY <2>1 DEF Supplement, Left
<1>2. /\ t.bound = thread.bound /\ t.history = thread.history /\ t.step = thread.step
      /\ DOMAIN t = DOMAIN thread
      /\ t.turn.observations = Append(s, o) /\ t.turn.observed = thread.turn.observed
      /\ DOMAIN t.turn = DOMAIN thread.turn
  OBVIOUS
<1>3. TurnStateOK(t.turn)
  <2>1. IsSeq(Append(s, o)) /\ ShownBy(s) \subseteq ShownBy(Append(s, o))
    BY AppendFacts, ShownAppend
  <2> HIDE DEF t, o
  <2> QED BY <1>2, <2>1 DEF TurnStateOK, o
<1>4. ThreadOK(t)
  <2> HIDE DEF t
  <2> QED BY <1>2, <1>3 DEF ThreadOK
<1>5. /\ thread.step + run[i].child < MaxSteps
      /\ thread.bound = run[i].bundle /\ Len(thread.history) < MaxHistory
      /\ \A ref \in RefsOf(s) : ref.by = i
  BY Points DEF RunOK, DecisionOK, Asking, Turning, Inside, Outside, Pcs
<1>6. \A ref \in RefsOf(Append(s, o)) : ref.by = i
  <2>1. o.result = outcome.result
    BY DEF Left, Observation
  <2> HIDE DEF o
  <2> QED BY <1>5, <2>1, RefsAppend DEF OutcomeOK
<1>7. /\ thread.step \in Nat /\ run[i].child \in Nat /\ MaxSteps \in Nat
      /\ outcome.calls \in {0, 1} /\ outcome.counted \in {0, 1}
      /\ outcome.calls = 1 => MaxSteps - thread.step - run[i].child - 1 > 0
  <2>1. thread.step \in Nat /\ run[i].child \in Nat /\ MaxSteps \in Nat
    BY AgentAssumption DEF ThreadOK, StateOK
  <2>2. /\ outcome.calls \in {0, 1} /\ outcome.counted \in {0, 1}
        /\ outcome.calls = 1 => ChildModelCallBudget(i) > 0
    BY DEF OutcomeOK
  <2> QED BY <2>1, <2>2 DEF ChildModelCallBudget
<1>8. DOMAIN run[i] = {"pc", "bundle", "witness", "child", "research", "planning", "inspection",
                       "history"}
  BY DEF StateOK, Idle
<1>9. /\ r.pc = "decide" /\ r.bundle = run[i].bundle /\ r.child = run[i].child + outcome.calls
      /\ DOMAIN r = DOMAIN run[i]
      /\ r[counter] = run[i][counter] + outcome.counted
      /\ \A other \in {"research", "planning", "inspection"} \ {counter} :
           r[other] = run[i][other]
  BY <1>8
<1>10. /\ run[i].research \in 0 .. MaxResearch /\ run[i].planning \in 0 .. MaxPlanning
       /\ run[i].inspection \in 0 .. MaxInspection
       /\ {MaxResearch, MaxPlanning, MaxInspection} \subseteq Nat
  BY ConversationAssumption DEF StateOK
<1>11. r[counter] \in 0 .. Allowance(counter)
  <2>1. run[i][counter] \in 0 .. Allowance(counter) /\ Allowance(counter) \in Nat
    BY <1>10 DEF Allowance
  <2>2. outcome.counted = 1 => run[i][counter] < Allowance(counter)
    BY DEF OutcomeOK
  <2> QED BY <1>7, <1>9, <2>1, <2>2
<1>12. StateOK(r)
  <2>1. /\ r.research \in 0 .. MaxResearch /\ r.planning \in 0 .. MaxPlanning
        /\ r.inspection \in 0 .. MaxInspection
    <3> HIDE DEF r
    <3> QED BY <1>9, <1>10, <1>11 DEF Allowance
  <2>2. r.child \in Nat
    BY <1>7, <1>9
  <2> HIDE DEF r
  <2> QED BY <1>9, <2>1, <2>2 DEF StateOK, Pcs
<1>13. r.child + t.step < MaxSteps /\ t.step + r.child < MaxSteps
  <2> HIDE DEF r, t
  <2> QED BY <1>2, <1>5, <1>7, <1>9
<1> HIDE DEF r, t
<1>14. RunOK(i, r, t, package)
  BY <1>2, <1>5, <1>6, <1>9, <1>13 DEF RunOK, DecisionOK, Asking
<1>15. run[i].pc \in Inside \ {"returning"} /\ r.pc \in Inside \ {"returning"}
  BY <1>9 DEF Inside, Outside, Pcs
<1>16. packageLock # i
  OBVIOUS
<1> QED BY <1>1, <1>2, <1>4, <1>9, <1>12, <1>14, <1>15, <1>16, InsideStep

LEMMA ResearchStep ==
  ASSUME Inv, NEW i \in Invocation, ExecuteResearch(i)
  PROVE  Inv'
<1> USE Holder
<1>1. run[i].pc = "research"
  BY DEF ExecuteResearch
<1>2. CASE Fail(i)
  BY <1>1, <1>2, EndStep DEF Fail
<1>3. ASSUME NEW outcome, Supplement(i, outcome, "research"),
             \/ outcome = Refusal
             \/ outcome \in ResearchOutcomes(thread.decision.tool, i, run[i].research,
                                             ChildModelCallBudget(i))
      PROVE  Inv'
  <2>1. run[i].research \in Nat /\ ChildModelCallBudget(i) \in Int
    BY AgentAssumption, ConversationAssumption DEF StateOK, ThreadOK, ChildModelCallBudget
  <2>2. OutcomeOK(outcome, i, run[i].research, MaxResearch, ChildModelCallBudget(i))
    BY <1>3, <2>1, RefusalOK, ResearchOK
  <2>3. Left(outcome).tool = "standards_research"
    BY <1>1 DEF Left, Observation, RunOK, DecisionOK
  <2>4. PlanBasis(thread.turn.observations) /\ RawBasis(thread.turn.observations)
    BY DEF TurnStateOK
  <2>5. /\ PlanBasis(Append(thread.turn.observations, Left(outcome)))
        /\ RawBasis(Append(thread.turn.observations, Left(outcome)))
    BY <2>3, <2>4, BasisKept, RawKept
  <2>6. Allowance("research") = MaxResearch
    BY DEF Allowance
  <2> QED BY <1>1, <1>3, <2>2, <2>5, <2>6, SupplementStep
<1> QED BY <1>2, <1>3 DEF ExecuteResearch

LEMMA PlanStep ==
  ASSUME Inv, NEW i \in Invocation, ExecutePlan(i)
  PROVE  Inv'
<1> USE Holder
<1> DEFINE s == thread.turn.observations
           research == OfKind(RefsOf(s), "research")
           request == thread.decision.tool
<1>1. run[i].pc = "planning"
  BY DEF ExecutePlan
<1>2. CASE Fail(i)
  BY <1>1, <1>2, EndStep DEF Fail
<1>3. ASSUME NEW outcome, Supplement(i, outcome, "planning"),
             \/ outcome = Refusal
             \/ outcome \in PlanningOutcomes(request, i, run[i].planning,
                                             ChildModelCallBudget(i), thread.turn.observed,
                                             research)
      PROVE  Inv'
  <2>1. run[i].planning \in Nat /\ ChildModelCallBudget(i) \in Int
    BY AgentAssumption, ConversationAssumption DEF StateOK, ThreadOK, ChildModelCallBudget
  <2>2. Refusal.result.error
    BY OutcomeFields DEF Refusal
  <2>3. /\ OutcomeOK(outcome, i, run[i].planning, MaxPlanning, ChildModelCallBudget(i))
        /\ ~ outcome.result.error =>
             /\ PlanningBinds(request.arg, thread.turn.observed, research)
             /\ "standards_research" \in Enabled => HasStandardsBasis(request.arg)
    BY <1>3, <2>1, <2>2, RefusalOK, PlanningOK
  <2>4. /\ Left(outcome).tool = "procedure_planning" /\ Left(outcome).input = request
        /\ Left(outcome).result = outcome.result
    BY <1>1 DEF Left, Observation, RunOK, DecisionOK
  <2>5. /\ PlanBasis(s) /\ RawBasis(s) /\ thread.turn.observed \subseteq ShownBy(s)
    BY DEF TurnStateOK
  <2>6. PlanBasis(Append(s, Left(outcome)))
    <3>1. CASE outcome.result.error
      BY <2>4, <2>5, <3>1, BasisKept
    <3>2. CASE ~ outcome.result.error
      <4>1. /\ request.arg.basis \subseteq ShownBy(s)
            /\ \A ref \in request.arg.research : ref \in RefsOf(s)
            /\ "standards_research" \in Enabled => HasStandardsBasis(request.arg)
        BY <2>3, <2>5, <3>2 DEF PlanningBinds, OfKind
      <4> QED BY <2>4, <2>5, <4>1, PlanAdded
    <3> QED BY <3>1, <3>2
  <2>7. RawBasis(Append(s, Left(outcome)))
    BY <2>4, <2>5, RawKept
  <2>8. Allowance("planning") = MaxPlanning
    BY DEF Allowance
  <2> QED BY <1>1, <1>3, <2>3, <2>6, <2>7, <2>8, SupplementStep
<1> QED BY <1>2, <1>3 DEF ExecutePlan

LEMMA InspectionStep ==
  ASSUME Inv, NEW i \in Invocation, ExecuteInspection(i)
  PROVE  Inv'
<1> USE Holder
<1> DEFINE s == thread.turn.observations
           request == thread.decision.tool
           count == run[i].inspection
<1>1. run[i].pc = "inspection"
  BY DEF ExecuteInspection
<1>2. CASE Fail(i)
  BY <1>1, <1>2, EndStep DEF Fail
<1>3. ASSUME NEW outcome, Supplement(i, outcome, "inspection"),
             outcome \in {Refusal, Outcome(ToolError, 0, InspectionCounted(count))}
      PROVE  Inv'
  <2>1. OutcomeOK(outcome, i, count, MaxInspection, ChildModelCallBudget(i))
    <3>1. CASE outcome = Refusal
      BY <3>1, RefusalOK
    <3>2. CASE outcome = Outcome(ToolError, 0, InspectionCounted(count))
      <4>1. /\ InspectionCounted(count) \in {0, 1}
            /\ InspectionCounted(count) = 1 => count < MaxInspection
        BY DEF InspectionCounted
      <4> QED BY <3>2, <4>1, OutcomeFields DEF OutcomeOK
    <3> QED BY <1>3, <3>1, <3>2
  <2>2. outcome.result.error
    BY <1>3, OutcomeFields DEF Refusal
  <2>3. /\ Left(outcome).result.error
        /\ PlanBasis(s) /\ RawBasis(s)
    BY <2>2 DEF Left, Observation, TurnStateOK
  <2>4. PlanBasis(Append(s, Left(outcome))) /\ RawBasis(Append(s, Left(outcome)))
    BY <2>3, BasisKept, RawKept
  <2>5. Allowance("inspection") = MaxInspection
    BY DEF Allowance
  <2> QED BY <1>1, <1>3, <2>1, <2>4, <2>5, SupplementStep
<1>4. CASE /\ InspectionAllowed(request.arg, count, s)
           /\ Goto(i, "reading") /\ UNCHANGED <<package, packageLock, threadLock, thread>>
  <2> DEFINE r == [run[i] EXCEPT !.pc = "reading"]
  <2>1. /\ r.pc = "reading" /\ StateOK(r) /\ r.bundle = run[i].bundle /\ r.child = run[i].child
        /\ r.inspection = run[i].inspection
    BY StateFields DEF Pcs
  <2>2. /\ run' = [run EXCEPT ![i] = r] /\ thread' = thread /\ package' = package
        /\ packageLock' = packageLock /\ threadLock' = threadLock
    BY <1>4 DEF Goto
  <2> HIDE DEF r
  <2>3. RunOK(i, r, thread, package)
    BY <1>1, <1>4, <2>1 DEF RunOK, DecisionOK, Asking, Turning, Inside, Outside, Pcs
  <2>4. run[i].pc \in Inside \ {"returning"} /\ r.pc \in Inside \ {"returning"}
    BY <1>1, <2>1 DEF Inside, Outside, Pcs
  <2> QED BY <1>1, <2>1, <2>2, <2>3, <2>4, InsideStep
<1> QED BY <1>2, <1>3, <1>4 DEF ExecuteInspection

LEMMA ReadingStep ==
  ASSUME Inv, NEW i \in Invocation, InspectionReturns(i)
  PROVE  Inv'
<1> USE Holder
<1> DEFINE s == thread.turn.observations
           request == thread.decision.tool
<1>1. run[i].pc = "reading"
  BY DEF InspectionReturns
<1>2. CASE Fail(i)
  BY <1>1, <1>2, EndStep DEF Fail
<1>3. ASSUME NEW result \in InspectionResults(request.arg, i),
             Supplement(i, Outcome(result, 0, 1), "inspection")
      PROVE  Inv'
  <2> DEFINE outcome == Outcome(result, 0, 1)
  <2>1. /\ InspectionAllowed(request.arg, run[i].inspection, s)
        /\ request \in [name : {"workbook_inspection"},
                        arg : [sheet : Sheet, source : Source, spelling : Spelling]]
    BY <1>1 DEF RunOK, DecisionOK
  <2>2. outcome.result = result /\ outcome.calls = 0 /\ outcome.counted = 1
    BY OutcomeFields
  <2>3. ~ result.error => \A ref \in result.refs : ref.by = i
    BY OutcomeFields DEF InspectionResults, InspectionResult
  <2>4. Left(outcome).tool = "workbook_inspection" /\ Left(outcome).input = request
    BY <2>1 DEF Left, Observation
  <2> HIDE DEF outcome
  <2>5. OutcomeOK(outcome, i, run[i].inspection, MaxInspection, ChildModelCallBudget(i))
    BY <2>1, <2>2, <2>3 DEF OutcomeOK, InspectionAllowed
  <2>6. PlanBasis(s) /\ RawBasis(s)
    BY DEF TurnStateOK
  <2>7. PlanBasis(Append(s, Left(outcome)))
    BY <2>4, <2>6, BasisKept
  <2>8. RawBasis(Append(s, Left(outcome)))
    BY <2>1, <2>4, <2>6, InspectionAdded DEF InspectionAllowed
  <2>9. Allowance("inspection") = MaxInspection
    BY DEF Allowance
  <2> QED BY <1>1, <1>3, <2>5, <2>7, <2>8, <2>9, SupplementStep DEF outcome
<1> QED BY <1>2, <1>3 DEF InspectionReturns

\* An answer that is refused leaves the records of the turn as they were.
LEMMA RefusedStep ==
  ASSUME Inv, NEW i \in Invocation, run[i].pc = "finalize", NEW t, NEW o,
         DOMAIN t = DOMAIN thread, DOMAIN t.turn = DOMAIN thread.turn,
         t.bound = thread.bound, t.history = thread.history, t.step = thread.step,
         t.turn.observations = Append(thread.turn.observations, o),
         t.turn.observed = thread.turn.observed, o.tool \in Silent,
         Returns(i, t, "decide")
  PROVE  Inv'
<1> USE Holder
<1> DEFINE r == [run[i] EXCEPT !.pc = "decide"]
<1>1. /\ TurnStateOK(t.turn)
      /\ \A ref \in RefsOf(t.turn.observations) : ref \in RefsOf(thread.turn.observations)
  <2>1. o.tool \notin Supplements /\ DOMAIN t.turn = DOMAIN NoTurn
    BY DEF Supplements, Silent, TurnStateOK
  <2> QED BY <2>1, ObservationAdded
<1>2. ThreadOK(t)
  BY <1>1 DEF ThreadOK
<1>3. r.pc = "decide" /\ r.bundle = run[i].bundle
  BY StateFields
<1>4. /\ thread.bound = run[i].bundle /\ Len(thread.history) < MaxHistory
      /\ \A ref \in RefsOf(thread.turn.observations) : ref.by = i
  BY Points DEF RunOK, Turning, Inside, Outside, Pcs
<1>5. Last(t.turn.observations).tool \in Silent
  BY AppendFacts
<1> HIDE DEF r
<1>6. RunOK(i, r, t, package)
  BY <1>1, <1>3, <1>4, <1>5 DEF RunOK, DecisionOK, Asking
<1> QED BY <1>2, <1>6, ReturnsStep, Points DEF r

\* A run that goes to its commit with an answer from records of its turn.
LEMMA AnsweredStep ==
  ASSUME Inv, NEW i \in Invocation, run[i].pc \in {"finalize", "store_blocked"}, NEW t,
         DOMAIN t = DOMAIN thread, t.turn = thread.turn,
         t.bound = thread.bound, t.history = thread.history, t.step = thread.step,
         t.answer.response.selected \subseteq ShownBy(thread.turn.observations),
         Returns(i, t, "commit")
  PROVE  Inv'
<1> USE Holder
<1> DEFINE r == [run[i] EXCEPT !.pc = "commit"]
<1>1. ThreadOK(t)
  BY DEF ThreadOK
<1>2. r.pc = "commit" /\ r.bundle = run[i].bundle
  BY StateFields
<1>3. /\ thread.bound = run[i].bundle /\ Len(thread.history) < MaxHistory
      /\ \A ref \in RefsOf(thread.turn.observations) : ref.by = i
  BY Points DEF RunOK, Turning, Inside, Outside, Pcs
<1> HIDE DEF r
<1>4. RunOK(i, r, t, package)
  BY <1>2, <1>3 DEF RunOK, DecisionOK, Asking
<1> QED BY <1>1, <1>4, ReturnsStep, Points DEF r

LEMMA FinalizeStep ==
  ASSUME Inv, NEW i \in Invocation, Finalize(i)
  PROVE  Inv'
<1> USE Holder
<1> DEFINE decision == BaseDecision(thread.decision)
           refused == [thread EXCEPT !.decision = None]
<1>1. run[i].pc = "finalize"
  BY DEF Finalize
<1>2. CASE Fail(i)
  BY <1>1, <1>2, EndStep DEF Fail
<1>3. CASE Returns(i, [refused EXCEPT !.turn = Refused(@, decision)], "decide")
  <2> DEFINE t == [refused EXCEPT !.turn = Refused(@, decision)]
             o == Feedback(IF decision.tool # None THEN "agent_protocol"
                           ELSE "answer_validation")
  <2>1. /\ DOMAIN t = DOMAIN thread /\ t.bound = thread.bound /\ t.history = thread.history
        /\ t.step = thread.step /\ t.turn = Refused(thread.turn, decision)
    OBVIOUS
  <2>2. /\ DOMAIN t.turn = DOMAIN thread.turn /\ t.turn.observed = thread.turn.observed
        /\ t.turn.observations = Append(thread.turn.observations, o)
    <3> HIDE DEF t
    <3> QED BY <2>1 DEF Refused
  <2>3. o.tool \in Silent
    BY DEF Feedback, Observation, Silent
  <2>4. Returns(i, t, "decide")
    BY <1>3
  <2> HIDE DEF t, o
  <2> QED BY <1>1, <2>1, <2>2, <2>3, <2>4, RefusedStep
<1>4. CASE Returns(i, [refused EXCEPT !.turn.observations = Append(@, Feedback("answer_validation"))],
                   "decide")
  <2> DEFINE o == Feedback("answer_validation")
             t == [refused EXCEPT !.turn.observations = Append(@, o)]
  <2>1. /\ DOMAIN t = DOMAIN thread /\ t.bound = thread.bound /\ t.history = thread.history
        /\ t.step = thread.step
        /\ DOMAIN t.turn = DOMAIN thread.turn /\ t.turn.observed = thread.turn.observed
        /\ t.turn.observations = Append(thread.turn.observations, o)
    OBVIOUS
  <2>2. o.tool \in Silent
    BY DEF Feedback, Observation, Silent
  <2>3. Returns(i, t, "decide")
    BY <1>4
  <2> HIDE DEF t, o
  <2> QED BY <1>1, <2>1, <2>2, <2>3, RefusedStep
<1>5. ASSUME Acceptable(decision, thread.turn), NEW complete \in BOOLEAN,
             Returns(i, [refused EXCEPT
                           !.answer = [response |-> Response(thread.turn, decision,
                                                             run[i].bundle, thread.step, complete),
                                       refs |-> decision.final.refs]], "commit")
      PROVE  Inv'
  <2> DEFINE response == Response(thread.turn, decision, run[i].bundle, thread.step, complete)
             t == [refused EXCEPT !.answer = [response |-> response, refs |-> decision.final.refs]]
  <2>1. /\ DOMAIN t = DOMAIN thread /\ t.bound = thread.bound /\ t.history = thread.history
        /\ t.step = thread.step /\ t.turn = thread.turn /\ t.answer.response = response
    OBVIOUS
  <2>2. response.selected = decision.final.selected
    BY DEF Response
  <2>3. decision.final.selected \subseteq thread.turn.observed
    BY <1>5 DEF Acceptable, PlanIsValid
  <2>4. thread.turn.observed \subseteq ShownBy(thread.turn.observations)
    BY DEF TurnStateOK
  <2>5. Returns(i, t, "commit")
    BY <1>5
  <2> HIDE DEF t, response, decision
  <2>6. t.answer.response.selected \subseteq ShownBy(thread.turn.observations)
    BY <2>1, <2>2, <2>3, <2>4
  <2> QED BY <1>1, <2>1, <2>5, <2>6, AnsweredStep
<1> QED BY <1>2, <1>3, <1>4, <1>5 DEF Finalize

LEMMA BlockedStep ==
  ASSUME Inv, NEW i \in Invocation, StoreBlocked(i)
  PROVE  Inv'
<1> USE Holder
<1> DEFINE t == [thread EXCEPT !.answer = [response |-> BlockedResponse(run[i].bundle),
                                           refs |-> {}]]
<1>1. run[i].pc = "store_blocked" /\ Returns(i, t, "commit")
  BY DEF StoreBlocked
<1>2. /\ DOMAIN t = DOMAIN thread /\ t.bound = thread.bound /\ t.history = thread.history
      /\ t.step = thread.step /\ t.turn = thread.turn
      /\ t.answer.response.selected = {}
  BY DEF BlockedResponse
<1> HIDE DEF t
<1> QED BY <1>1, <1>2, AnsweredStep

LEMMA PinStep ==
  ASSUME Inv, NEW i \in Invocation, PinPackage(i)
  PROVE  Inv'
<1> USE Holder
<1> DEFINE r == [run[i] EXCEPT !.pc = "pinned"]
<1>1. /\ run[i].pc = "commit" /\ packageLock = None /\ packageLock' = i
      /\ run' = [run EXCEPT ![i] = r] /\ thread' = thread /\ package' = package
      /\ threadLock' = threadLock
  BY DEF PinPackage, Goto
<1>2. /\ r.pc = "pinned" /\ StateOK(r) /\ r.bundle = run[i].bundle
  BY StateFields DEF Pcs
<1> HIDE DEF r
<1>3. RunOK(i, r, thread, package)
  BY <1>1, <1>2 DEF RunOK, DecisionOK, Asking, Turning, Inside, Outside, Pcs
<1>4. run[i].pc \in Inside \ {"returning"} /\ r.pc \in Inside \ {"returning"}
  BY <1>1, <1>2 DEF Inside, Outside, Pcs
<1> QED BY <1>1, <1>2, <1>3, <1>4, InsideStep

LEMMA CheckStep ==
  ASSUME Inv, NEW i \in Invocation, CheckBundle(i)
  PROVE  Inv'
<1> USE Holder
<1>1. run[i].pc = "pinned"
  BY DEF CheckBundle
<1>2. CASE Fail(i)
  BY <1>1, <1>2, EndStep DEF Fail
<1>3. CASE /\ package = run[i].bundle /\ Goto(i, "write")
           /\ UNCHANGED <<package, packageLock, threadLock, thread>>
  <2> DEFINE r == [run[i] EXCEPT !.pc = "write"]
  <2>1. /\ run' = [run EXCEPT ![i] = r] /\ thread' = thread /\ package' = package
        /\ packageLock' = packageLock /\ threadLock' = threadLock
    BY <1>3 DEF Goto
  <2>2. /\ r.pc = "write" /\ StateOK(r) /\ r.bundle = run[i].bundle
    BY StateFields DEF Pcs
  <2>3. packageLock = i
    BY <1>1 DEF Inv, Locks
  <2> HIDE DEF r
  <2>4. RunOK(i, r, thread, package)
    BY <1>1, <1>3, <2>2 DEF RunOK, DecisionOK, Asking, Turning, Inside, Outside, Pcs
  <2>5. run[i].pc \in Inside \ {"returning"} /\ r.pc \in Inside \ {"returning"}
    BY <1>1, <2>2 DEF Inside, Outside, Pcs
  <2> QED BY <2>1, <2>2, <2>3, <2>4, <2>5, InsideStep
<1> QED BY <1>2, <1>3 DEF CheckBundle

\* The record of a turn whose answer the commit accepts.
LEMMA RecordOK ==
  ASSUME Inv, NEW i \in Invocation, run[i].pc = "write", Committable(i)
  PROVE  LET turn == TurnRecord(i)
         IN /\ turn.turn_index = Len(thread.history) + 1 /\ turn.invocation = i
            /\ TurnOK(turn) /\ turn.response.bundle = thread.bound
<1> USE Holder
<1> DEFINE turn == TurnRecord(i)
           s == thread.turn.observations
<1>1. /\ turn.turn_index = Len(thread.history) + 1 /\ turn.invocation = i
      /\ turn.response = thread.answer.response /\ turn.refs = thread.answer.refs
      /\ turn.observations = s
  BY DEF TurnRecord
<1>2. /\ ResponseStands(thread.answer, s) /\ thread.answer.response.bundle = thread.bound
  BY DEF Committable
<1>3. ResponseStands(turn, s)
  BY <1>1, <1>2 DEF ResponseStands
<1>4. /\ thread.answer.response.selected \subseteq ShownBy(s)
      /\ \A ref \in RefsOf(s) : ref.by = i
  BY DEF RunOK, Turning, Inside, Outside, Pcs
<1>5. turn.refs \subseteq RefsOf(s)
  BY <1>1, <1>2 DEF ResponseStands, SupplementsSelected
<1> HIDE DEF turn
<1>6. TurnOK(turn)
  BY <1>1, <1>3, <1>4, <1>5 DEF TurnOK
<1> QED BY <1>1, <1>2, <1>6 DEF turn

LEMMA WriteStep ==
  ASSUME Inv, NEW i \in Invocation, WriteTurn(i)
  PROVE  Inv'
<1> USE Holder
<1>1. run[i].pc = "write"
  BY DEF WriteTurn
<1>2. CASE ~ Committable(i)
  BY <1>1, <1>2, EndStep DEF WriteTurn, Fail
<1>3. CASE Committable(i)
  <2> DEFINE turn == TurnRecord(i)
             history == Append(thread.history, turn)
             r == [run[i] EXCEPT !.pc = "written", !.history = history]
  <2>1. /\ run' = [run EXCEPT ![i] = r] /\ thread' = thread /\ package' = package
        /\ threadLock' = threadLock /\ packageLock' = IF packageLock = i THEN None ELSE packageLock
    BY <1>3 DEF WriteTurn
  <2>2. packageLock = i
    BY <1>1 DEF Inv, Locks
  <2>3. /\ packageLock' = None /\ None \notin Invocation
        /\ \A j \in Invocation \ {i} : packageLock' = j <=> packageLock = j
    BY <2>1, <2>2
  <2>4. r.pc = "written" /\ StateOK(r) /\ r.bundle = run[i].bundle /\ r.history = history
    <3>1. DOMAIN run[i] = {"pc", "bundle", "witness", "child", "research", "planning",
                           "inspection", "history"}
      BY DEF StateOK, Idle
    <3>2. /\ r.pc = "written" /\ r.bundle = run[i].bundle /\ r.history = history
          /\ r.child = run[i].child /\ r.research = run[i].research
          /\ r.planning = run[i].planning /\ r.inspection = run[i].inspection
          /\ DOMAIN r = DOMAIN run[i]
      BY <3>1
    <3> HIDE DEF r
    <3> QED BY <3>2 DEF StateOK, Pcs
  <2>5. /\ turn.turn_index = Len(thread.history) + 1 /\ turn.invocation = i /\ TurnOK(turn)
    BY <1>1, <1>3, RecordOK
  <2>6. Last(history) = turn
    BY AppendFacts
  <2>7. /\ thread.bound = run[i].bundle /\ Len(thread.history) < MaxHistory
    BY <1>1 DEF RunOK, Turning, Inside, Outside, Pcs
  <2> HIDE DEF r, turn
  <2>8. RunOK(i, r, thread, package)
    BY <2>4, <2>5, <2>6, <2>7 DEF RunOK, DecisionOK, Asking, Turning, Inside, Outside, Pcs
  <2>9. run[i].pc \in Inside \ {"returning"} /\ r.pc \in Inside \ {"returning"}
    BY <1>1, <2>4 DEF Inside, Outside, Pcs
  <2> QED BY <2>1, <2>3, <2>4, <2>8, <2>9, InsideStep
<1> QED BY <1>2, <1>3

\* The turn enters the history: the first, and the only one, of its run.
LEMMA CheckpointStep ==
  ASSUME Inv, NEW i \in Invocation, CheckpointTurn(i)
  PROVE  Inv'
<1> USE Holder
<1> DEFINE r == [run[i] EXCEPT !.pc = "returning"]
           t == [thread EXCEPT !.history = run[i].history]
           turn == Last(run[i].history)
           n == Len(thread.history) + 1
<1>1. /\ run[i].pc = "written" /\ run' = [run EXCEPT ![i] = r] /\ thread' = t
      /\ package' = package /\ packageLock' = packageLock /\ threadLock' = threadLock
  BY DEF CheckpointTurn, Returns, Goto
<1>2. /\ r.pc = "returning" /\ StateOK(r) /\ r.history = run[i].history
  BY StateFields DEF Pcs
<1>3. /\ run[i].history = Append(thread.history, turn) /\ Len(thread.history) < MaxHistory
      /\ turn.turn_index = n /\ turn.invocation = i /\ TurnOK(turn)
  BY <1>1 DEF RunOK
<1>4. /\ t.history = run[i].history /\ t.turn = thread.turn /\ t.bound = thread.bound
      /\ t.step = thread.step /\ DOMAIN t = DOMAIN thread
  OBVIOUS
<1> HIDE DEF r, t, turn
<1>5. /\ Len(thread.history) \in Nat /\ DOMAIN thread.history = 1 .. Len(thread.history)
      /\ IsSeq(t.history) /\ Len(t.history) = n /\ t.history # <<>>
      /\ DOMAIN t.history = DOMAIN thread.history \cup {n} /\ n \notin DOMAIN thread.history
      /\ \A k \in DOMAIN thread.history : t.history[k] = thread.history[k]
      /\ t.history[n] = turn
  <2>1. Len(thread.history) \in Nat /\ DOMAIN thread.history = 1 .. Len(thread.history)
    BY SeqFacts
  <2>2. /\ IsSeq(t.history) /\ Len(t.history) = n /\ t.history # <<>>
        /\ DOMAIN t.history = 1 .. n /\ t.history[n] = turn
        /\ \A k \in DOMAIN thread.history : t.history[k] = thread.history[k]
    BY <1>3, <1>4, AppendFacts
  <2> QED BY <2>1, <2>2
<1>6. Last(t.history) = turn
  BY <1>3, <1>4, AppendFacts
<1>7. /\ run'[i] = r /\ \A j \in Invocation \ {i} : run'[j] = run[j]
      /\ run' = [j \in Invocation |-> run'[j]]
  BY <1>1 DEF Inv, Types
<1>8. threadLock = i /\ packageLock # i /\ \A j \in Invocation \ {i} : run[j].pc \notin Inside
  BY <1>1 DEF Inv, Locks, Inside, Outside, Pcs
<1>9. Types'
  <2>1. ThreadOK(t)
    BY <1>3, <1>4, <1>5, ConversationAssumption DEF ThreadOK
  <2>2. ThreadOK(thread')
    BY <1>1, <2>1
  <2>3. \A j \in Invocation : StateOK(run'[j])
    BY <1>2, <1>7 DEF Inv, Types
  <2> QED BY <1>1, <1>7, <2>2, <2>3 DEF Inv, Types, ThreadOK, TurnStateOK, StateOK
<1>10. Locks'
  BY <1>1, <1>2, <1>7, <1>8 DEF Inv, Locks, Inside, Outside, Pcs
<1>11. \A k \in DOMAIN thread.history : thread.history[k].invocation # i
  BY <1>1 DEF Inv, Histories
<1>12. Histories'
  <2>1. \A k \in DOMAIN t.history :
          /\ t.history[k].turn_index = k /\ TurnOK(t.history[k])
          /\ t.history[k].invocation \in Invocation
          /\ run'[t.history[k].invocation].pc \in {"returning", "done", "lost"}
    <3>1. ASSUME NEW k \in DOMAIN thread.history
          PROVE  /\ t.history[k].turn_index = k /\ TurnOK(t.history[k])
                 /\ t.history[k].invocation \in Invocation
                 /\ run'[t.history[k].invocation].pc \in {"returning", "done", "lost"}
      BY <1>2, <1>5, <1>7 DEF Inv, Histories
    <3>2. run'[i].pc = "returning" /\ t.history[n] = turn
      BY <1>2, <1>5, <1>7
    <3> QED BY <1>3, <1>5, <3>1, <3>2
  <2>2. \A j, k \in DOMAIN t.history :
          t.history[j].invocation = t.history[k].invocation => j = k
    BY <1>3, <1>5, <1>11 DEF Inv, Histories
  <2>3. \A j \in Invocation : run'[j].pc = "done" =>
          \E k \in DOMAIN t.history : t.history[k].invocation = j
    BY <1>2, <1>5, <1>7 DEF Inv, Histories
  <2> QED BY <1>1, <2>1, <2>2, <2>3 DEF Histories, TurnOK
<1>13. RunsHold'
  <2>1. RunOK(i, r, t, package)
    BY <1>2, <1>3, <1>4, <1>5, <1>6
       DEF RunOK, DecisionOK, Asking, Turning, Inside, Outside, Pcs
  <2>2. ASSUME NEW j \in Invocation \ {i} PROVE RunOK(j, run[j], t, package)
    <3>1. run[j].pc \notin Inside /\ RunOK(j, run[j], thread, package)
      BY <1>8 DEF Inv, RunsHold
    <3>2. run[j].pc \in {"start", "waiting", "done", "failed", "lost"}
      BY <3>1, Points DEF Inv, Types, StateOK, Outside
    <3> QED BY <3>1, <3>2 DEF RunOK, DecisionOK, Turning, Inside, Outside, Asking
  <2> QED BY <1>1, <1>7, <2>1, <2>2 DEF RunsHold
<1> QED BY <1>9, <1>10, <1>12, <1>13 DEF Inv

LEMMA ReturnStep ==
  ASSUME Inv, NEW i \in Invocation, ReturnTurn(i)
  PROVE  Inv'
<1> DEFINE turn == Last(run[i].history)
           n == Len(thread.history)
<1>1. run[i].pc = "returning"
  BY DEF ReturnTurn
<1>2. run[i].history = thread.history /\ thread.history # <<>> /\ IsSeq(thread.history)
  BY <1>1, Holder DEF RunOK
<1>3. n \in DOMAIN thread.history /\ turn = thread.history[n]
  BY <1>2, EmptySeq DEF IsSeq, Last
<1>4. ResponseStands(turn, turn.observations)
  BY <1>3 DEF Inv, Histories, TurnOK
<1>5. Ends(i, "done")
  BY <1>4 DEF ReturnTurn
<1> QED BY <1>1, <1>5, EndStep

-----------------------------------------------------------------------------
(* The steps outside the lock, and the theorems.                            *)

\* What the end of a run, its start and the environment leave of the others.
LEMMA PrepareStep ==
  ASSUME Inv, NEW i \in Invocation, Prepare(i)
  PROVE  Inv'
<1> DEFINE r == [run[i] EXCEPT !.pc = "waiting", !.bundle = package]
<1>1. /\ run[i].pc = "start" /\ run' = [run EXCEPT ![i] = r]
      /\ UNCHANGED <<package, packageLock, threadLock, thread>>
  BY DEF Prepare
<1>2. /\ StateOK(run[i]) /\ package \in Bundle /\ run[i].child = 0
      /\ DOMAIN run[i] = {"pc", "bundle", "witness", "child", "research", "planning",
                          "inspection", "history"}
  BY <1>1 DEF Inv, Types, StateOK, Idle, RunsHold, RunOK
<1>3. /\ r.pc = "waiting" /\ r.child = 0 /\ r.bundle = package /\ DOMAIN r = DOMAIN run[i]
      /\ r.research = run[i].research /\ r.planning = run[i].planning
      /\ r.inspection = run[i].inspection
  BY <1>2
<1> HIDE DEF r
<1>4. StateOK(r)
  BY <1>2, <1>3 DEF StateOK, Pcs
<1>5. /\ run'[i] = r /\ \A j \in Invocation \ {i} : run'[j] = run[j]
      /\ run' = [j \in Invocation |-> run'[j]]
  BY <1>1 DEF Inv, Types
<1>6. Types'
  BY <1>1, <1>4, <1>5 DEF Inv, Types, ThreadOK, TurnStateOK, StateOK
<1>7. Locks'
  BY <1>1, <1>3, <1>5 DEF Inv, Locks, Inside, Outside, Pcs
<1>8. Histories'
  <2>1. ASSUME NEW k \in DOMAIN thread.history
        PROVE  run'[thread.history[k].invocation].pc \in {"returning", "done", "lost"}
    BY <1>1, <1>5 DEF Inv, Histories
  <2>2. \A j \in Invocation : run'[j].pc = "done" =>
          \E k \in DOMAIN thread.history : thread.history[k].invocation = j
    BY <1>3, <1>5 DEF Inv, Histories
  <2> QED BY <1>1, <2>1, <2>2 DEF Inv, Histories, TurnOK
<1>9. RunsHold'
  <2>1. RunOK(i, r, thread, package)
    BY <1>3 DEF RunOK, DecisionOK, Asking, Turning, Inside, Outside, Pcs
  <2> QED BY <1>1, <1>5, <2>1 DEF Inv, RunsHold
<1> QED BY <1>6, <1>7, <1>8, <1>9 DEF Inv

LEMMA LockStep ==
  ASSUME Inv, NEW i \in Invocation, LockThread(i)
  PROVE  Inv'
<1> DEFINE r == [run[i] EXCEPT !.pc = "bind"]
<1>1. /\ run[i].pc = "waiting" /\ threadLock = None /\ threadLock' = i
      /\ run' = [run EXCEPT ![i] = r]
      /\ UNCHANGED <<package, packageLock, thread>>
  BY DEF LockThread, Goto
<1>2. StateOK(run[i]) /\ run[i].child = 0 /\ None \notin Invocation
  BY <1>1, ConversationAssumption DEF Inv, Types, RunsHold, RunOK
<1>3. r.pc = "bind" /\ r.child = 0 /\ StateOK(r)
  BY <1>2, StateFields DEF Pcs
<1> HIDE DEF r
<1>4. /\ run'[i] = r /\ \A j \in Invocation \ {i} : run'[j] = run[j]
      /\ run' = [j \in Invocation |-> run'[j]]
  BY <1>1 DEF Inv, Types
<1>5. Types'
  BY <1>1, <1>3, <1>4 DEF Inv, Types, ThreadOK, TurnStateOK, StateOK
<1>6. Locks'
  BY <1>1, <1>2, <1>3, <1>4 DEF Inv, Locks, Inside, Outside, Pcs
<1>7. Histories'
  <2>1. ASSUME NEW k \in DOMAIN thread.history
        PROVE  run'[thread.history[k].invocation].pc \in {"returning", "done", "lost"}
    BY <1>1, <1>4 DEF Inv, Histories
  <2>2. \A j \in Invocation : run'[j].pc = "done" =>
          \E k \in DOMAIN thread.history : thread.history[k].invocation = j
    BY <1>3, <1>4 DEF Inv, Histories
  <2> QED BY <1>1, <2>1, <2>2 DEF Inv, Histories, TurnOK
<1>8. RunsHold'
  <2>1. RunOK(i, r, thread, package)
    BY <1>3 DEF RunOK, DecisionOK, Asking, Turning, Inside, Outside, Pcs
  <2> QED BY <1>1, <1>4, <2>1 DEF Inv, RunsHold
<1> QED BY <1>5, <1>6, <1>7, <1>8 DEF Inv

LEMMA CrashStep ==
  ASSUME Inv, NEW i \in Invocation, Crash(i)
  PROVE  Inv'
  BY EndStep DEF Crash

\* A package is prepared again only while no run compares or writes.
LEMMA PackageStep ==
  ASSUME Inv, PackagePreparedAgain
  PROVE  Inv'
<1>1. /\ packageLock = None /\ package' \in Bundle
      /\ UNCHANGED <<packageLock, threadLock, thread, run>>
  BY DEF PackagePreparedAgain
<1>2. \A i \in Invocation : run[i].pc # "write"
  BY <1>1, ConversationAssumption DEF Inv, Locks
<1>3. Types'
  BY <1>1 DEF Inv, Types, ThreadOK, TurnStateOK, StateOK
<1>4. Locks'
  BY <1>1 DEF Inv, Locks
<1>5. Histories'
  BY <1>1 DEF Inv, Histories, TurnOK
<1>6. RunsHold'
  <2>1. ASSUME NEW i \in Invocation PROVE RunOK(i, run[i], thread, package')
    BY <1>2 DEF Inv, RunsHold, RunOK
  <2> QED BY <1>1, <2>1 DEF RunsHold
<1> QED BY <1>3, <1>4, <1>5, <1>6 DEF Inv

LEMMA Start ==
  ASSUME Init
  PROVE  Inv
<1>1. /\ package = 1 /\ packageLock = None /\ threadLock = None /\ thread = NewThread
      /\ run = [i \in Invocation |-> Idle]
  BY DEF Init
<1>2. /\ NewThread.bound = 0 /\ NewThread.step = 0 /\ NewThread.history = <<>>
      /\ NewThread.turn = NoTurn
  BY DEF NewThread
<1>3. /\ Idle.pc = "start" /\ Idle.bundle = 0 /\ Idle.child = 0 /\ Idle.research = 0
      /\ Idle.planning = 0 /\ Idle.inspection = 0
  BY DEF Idle
<1>4. /\ MaxSteps \in Nat /\ MaxHistory \in Nat /\ 1 \in Bundle /\ None \notin Invocation
      /\ MaxResearch \in Nat /\ MaxPlanning \in Nat /\ MaxInspection \in Nat
  BY AgentAssumption, ConversationAssumption
<1>5. ThreadOK(NewThread)
  BY <1>2, <1>4, EmptyFacts, NoTurnOK DEF ThreadOK
<1>6. StateOK(Idle)
  BY <1>3, <1>4 DEF StateOK, Pcs
<1>7. Types
  BY <1>1, <1>4, <1>5, <1>6 DEF Types
<1>8. Locks
  BY <1>1, <1>3, <1>4 DEF Locks, Inside, Outside
<1>9. Histories
  BY <1>1, <1>2, <1>3, EmptyFacts DEF Histories
<1>10. RunsHold
  BY <1>1, <1>3 DEF RunsHold, RunOK, DecisionOK, Asking, Turning, Inside, Outside, Pcs
<1> QED BY <1>7, <1>8, <1>9, <1>10 DEF Inv

LEMMA Steps ==
  ASSUME Inv, Next
  PROVE  Inv'
<1>1. CASE PackagePreparedAgain
  BY <1>1, PackageStep
<1>2. ASSUME NEW i \in Invocation, Step(i) \/ Crash(i) PROVE Inv'
  BY <1>2, PrepareStep, LockStep, BindStep, BootstrapStep, DecideStep, ToolStep, ResearchStep,
     PlanStep, InspectionStep, ReadingStep, FinalizeStep, BlockedStep, PinStep, CheckStep,
     WriteStep, CheckpointStep, ReturnStep, CrashStep DEF Step
<1> QED BY <1>1, <1>2 DEF Next

\* The invariant: the run that holds the lock of the thread owns the channels
\* of the checkpoint, and every turn of the history has its record's due.
THEOREM ConversationInvariant == Spec => []Inv
<1>1. Init => Inv
  BY Start
<1>2. Inv /\ [Next]_vars => Inv'
  <2>1. ASSUME Inv, UNCHANGED vars PROVE Inv'
    <3>1. Types'
      BY <2>1 DEF vars, Inv, Types, ThreadOK, TurnStateOK, StateOK
    <3>2. Locks'
      BY <2>1 DEF vars, Inv, Locks
    <3>3. Histories'
      BY <2>1 DEF vars, Inv, Histories, TurnOK
    <3>4. RunsHold'
      BY <2>1 DEF vars, Inv, RunsHold
    <3> QED BY <3>1, <3>2, <3>3, <3>4 DEF Inv
  <2> QED BY <2>1, Steps
<1> QED BY <1>1, <1>2, PTL DEF Spec

\* A returned turn is in the history exactly once and a failed one not at
\* all, whatever runs there are on the thread, crashes included, and the
\* channels and allowances keep their types (_commit_turn, _turn_result).
THEOREM HistoryTold == Spec => []HistoryIsTrue
<1>1. Inv => HistoryIsTrue
  <2> SUFFICES ASSUME Inv PROVE HistoryIsTrue
    OBVIOUS
  <2>1. TypeOK
    BY ConversationAssumption DEF Inv, Types, TypeOK, ThreadOK, StateOK, TurnStateOK
  <2>2. \A k \in DOMAIN thread.history : thread.history[k].turn_index = k
    BY DEF Inv, Histories
  <2>3. ASSUME NEW i \in Invocation
        PROVE  LET turns == {k \in DOMAIN thread.history : thread.history[k].invocation = i}
               IN /\ run[i].pc = "done" => Cardinality(turns) = 1
                  /\ run[i].pc = "failed" => turns = {}
                  /\ Cardinality(turns) <= 1
    <3> DEFINE turns == {k \in DOMAIN thread.history : thread.history[k].invocation = i}
    <3>1. run[i].pc = "done" => turns # {}
      BY DEF Inv, Histories
    <3>2. run[i].pc = "failed" => turns = {}
      BY DEF Inv, Histories
    <3>3. \A j, k \in turns : j = k
      BY DEF Inv, Histories
    <3>4. ASSUME NEW k \in turns PROVE Cardinality(turns) = 1
      <4>1. turns = {k}
        BY <3>3
      <4> QED BY <4>1, FS_Singleton
    <3>5. turns = {} => Cardinality(turns) = 0
      BY FS_EmptySet
    <3> QED BY <3>1, <3>2, <3>4, <3>5
  <2> QED BY <2>1, <2>2, <2>3 DEF HistoryIsTrue, HistoryTellsTheTurns
<1> QED BY <1>1, ConversationInvariant, PTL

\* A committed answer selects only records shown, and supplements made, in
\* its own turn: no earlier turn and no question lends it any authority.
THEOREM Grounded == Spec => []TurnsAreGrounded
<1>1. Inv => TurnsAreGrounded
  BY DEF Inv, Histories, TurnOK, TurnsAreGrounded
<1> QED BY <1>1, ConversationInvariant, PTL

\* A plan rests on records shown and research made before it, the raw
\* workbook is read where the ledger was, and a turn stays on one sheet
\* (_planning_binding, _assert_inspection_ledger_first).
THEOREM BasisHeld == Spec => []SupplementsHaveTheirBasis
<1>1. Inv => SupplementsHaveTheirBasis
  BY DEF Inv, Types, ThreadOK, TurnStateOK, PlanBasis, RawBasis,
         SupplementsHaveTheirBasis, PlanHasItsBasis, RawAfterLedger
<1> QED BY <1>1, ConversationInvariant, PTL

\* However many model calls the supplements spend, the main model keeps one
\* to answer with (_child_model_call_budget).
THEOREM FinalCall == Spec => []FinalCallReserved
<1>1. Inv => FinalCallReserved
  BY DEF Inv, RunsHold, RunOK, DecisionOK, FinalCallReserved
<1> QED BY <1>1, ConversationInvariant, PTL

\* Only a commit that is accepted writes the record of a turn.
LEMMA OthersWriteNothing ==
  ASSUME Inv, NEW j \in Invocation, Step(j) \/ Crash(j), ~ (WriteTurn(j) /\ Committable(j)),
         NEW i \in Invocation, run'[i].pc = "written"
  PROVE  run[i].pc = "written"
<1>1. /\ run = [k \in Invocation |-> run[k]]
      /\ DOMAIN run[j] = {"pc", "bundle", "witness", "child", "research", "planning",
                          "inspection", "history"}
  BY DEF Inv, Types, StateOK, Idle
<1>2. ASSUME NEW r, r.pc # "written", run' = [run EXCEPT ![j] = r] PROVE run[i].pc = "written"
  <2>1. CASE i = j
    BY <1>1, <1>2, <2>1
  <2>2. CASE i # j
    BY <1>1, <1>2, <2>2
  <2> QED BY <2>1, <2>2
<1>3. ASSUME NEW pc, pc # "written", Goto(j, pc) PROVE run[i].pc = "written"
  <2> DEFINE r == [run[j] EXCEPT !.pc = pc]
  <2>1. r.pc = pc /\ run' = [run EXCEPT ![j] = r]
    BY <1>1, <1>3 DEF Goto
  <2> HIDE DEF r
  <2> QED BY <1>2, <1>3, <2>1
<1>4. CASE Fail(j)
  BY <1>3, <1>4 DEF Fail, Ends
<1>5. ASSUME NEW outcome, NEW counter \in {"research", "planning", "inspection"},
             Supplement(j, outcome, counter)
      PROVE  run[i].pc = "written"
  <2>1. PICK o : run' = [run EXCEPT ![j].pc = "decide", ![j].witness = Append(@, o),
                                    ![j].child = @ + outcome.calls,
                                    ![j][counter] = @ + outcome.counted]
    BY <1>5 DEF Supplement
  <2> DEFINE r == [run[j] EXCEPT !.pc = "decide", !.witness = Append(@, o),
                                 !.child = @ + outcome.calls, ![counter] = @ + outcome.counted]
  <2>2. run' = [run EXCEPT ![j] = r]
    BY <2>1
  <2>3. r.pc = "decide"
    BY <1>1
  <2> HIDE DEF r
  <2> QED BY <1>2, <2>2, <2>3
<1>6. CASE Prepare(j)
  <2> DEFINE r == [run[j] EXCEPT !.pc = "waiting", !.bundle = package]
  <2>1. r.pc = "waiting" /\ run' = [run EXCEPT ![j] = r]
    BY <1>1, <1>6 DEF Prepare
  <2> HIDE DEF r
  <2> QED BY <1>2, <2>1
<1>7. CASE Decide(j)
  <2>1. ASSUME NEW decision PROVE Route(decision) # "written"
    BY DEF Route
  <2> QED BY <1>3, <1>4, <1>7, <2>1 DEF Decide, Returns
<1>8. CASE ExecuteResearch(j) \/ ExecutePlan(j) \/ ExecuteInspection(j) \/ InspectionReturns(j)
  BY <1>3, <1>4, <1>5, <1>8
     DEF ExecuteResearch, ExecutePlan, ExecuteInspection, InspectionReturns
<1>9. CASE WriteTurn(j)
  BY <1>4, <1>9 DEF WriteTurn
<1>10. CASE Finalize(j) \/ ReturnTurn(j) \/ Crash(j)
  BY <1>3, <1>4, <1>10 DEF Finalize, ReturnTurn, Crash, Ends, Returns
<1>11. CASE LockThread(j) \/ Bind(j) \/ BootstrapTurn(j) \/ ExecuteToolTurn(j)
  BY <1>3, <1>4, <1>11 DEF LockThread, Bind, BootstrapTurn, ExecuteToolTurn, Returns
<1>12. CASE StoreBlocked(j) \/ PinPackage(j) \/ CheckBundle(j) \/ CheckpointTurn(j)
  BY <1>3, <1>4, <1>12 DEF StoreBlocked, PinPackage, CheckBundle, CheckpointTurn, Returns
<1> QED BY <1>6, <1>7, <1>8, <1>9, <1>10, <1>11, <1>12 DEF Step

\* A turn record is written only while the package is the bundle its answer
\* was made from and the thread is bound to: the lock of the package is held
\* from the comparison on (_commit_turn).
THEOREM WrittenUnderBundle == Spec => WrittenUnderItsBundle
<1> DEFINE Written == \A i \in Invocation :
             run[i].pc # "written" /\ run'[i].pc = "written" =>
               LET turn == Last(run'[i].history)
               IN turn.response.bundle = package' /\ turn.response.bundle = thread'.bound
<1>1. ASSUME Inv, Next, NEW i \in Invocation, run[i].pc # "written", run'[i].pc = "written"
      PROVE  LET turn == Last(run'[i].history)
             IN turn.response.bundle = package' /\ turn.response.bundle = thread'.bound
  <2>1. PICK j \in Invocation : Step(j) \/ Crash(j)
    BY <1>1 DEF Next, PackagePreparedAgain
  <2>2. WriteTurn(j) /\ Committable(j)
    BY <1>1, <2>1, OthersWriteNothing
  <2>3. /\ run[j].pc = "write" /\ package' = package /\ thread' = thread
        /\ run' = [run EXCEPT ![j].pc = "written",
                              ![j].history = Append(thread.history, TurnRecord(j))]
    BY <2>2 DEF WriteTurn
  <2>4. /\ run = [k \in Invocation |-> run[k]] /\ IsSeq(thread.history)
        /\ DOMAIN run[j] = {"pc", "bundle", "witness", "child", "research", "planning",
                            "inspection", "history"}
    BY <1>1 DEF Inv, Types, StateOK, Idle, ThreadOK
  <2>5. i = j /\ run'[i].history = Append(thread.history, TurnRecord(j))
    BY <1>1, <2>3, <2>4
  <2>6. Last(run'[i].history) = TurnRecord(j) /\ TurnRecord(j).response.bundle = thread.bound
    <3>1. Last(run'[i].history) = TurnRecord(j)
      BY <2>4, <2>5, AppendFacts
    <3>2. TurnRecord(j).response.bundle = thread.bound
      BY <1>1, <2>2, <2>3, RecordOK
    <3> QED BY <3>1, <3>2
  <2>7. thread.bound = run[j].bundle /\ package = run[j].bundle
    BY <1>1, <2>3 DEF Inv, RunsHold, RunOK, Turning, Inside, Outside, Pcs
  <2> QED BY <2>3, <2>6, <2>7
<1>2. Inv /\ [Next]_vars => [Written]_vars
  BY <1>1
<1> QED BY <1>2, ConversationInvariant, PTL DEF Spec, WrittenUnderItsBundle

-----------------------------------------------------------------------------
(* The audit agent, on the same package.                                    *)
(*                                                                          *)
(* A run of the agent keeps what it has seen in its observations            *)
(* (AgentStateOK), passes an answer on only after judging it against them   *)
(* (AgentSees), and knows the bundle its evidence was read from because an  *)
(* identity never returns (AgentReads).                                     *)

VARIABLE agent    \* the run of the audit agent
Agent == INSTANCE AgentLoop

\* An observation that opens nothing unseen, and a sequence of these.
Opens(o, s) ==
  o.tool \in {"audit_get", "trace"} /\ ~ o.result.error => o.input.arg \in ShownBy(s)

UnseenClosed(s) == \A i \in DOMAIN s : Opens(s[i], SubSeq(s, 1, i - 1))

\* A state that cites nothing it was not shown.
AgentStateOK(state) ==
  /\ DOMAIN state = DOMAIN NewTurnState
  /\ IsSeq(state.observations) /\ IsSeq(state.used_tools)
  /\ state.observed \subseteq Record /\ state.observed \subseteq ShownBy(state.observations)
  /\ UnseenClosed(state.observations)

AgentPcs == {"prepare", "request", "apply", "judge", "unchanged", "hydrate", "recheck",
             "respond", "done", "failed"}
Judged == {"unchanged", "hydrate", "recheck", "respond"}

AgentTypes ==
  /\ package \in Bundle
  /\ DOMAIN agent = DOMAIN Agent!NoAgent
  /\ agent.pc \in AgentPcs /\ agent.step \in 0 .. MaxSteps /\ agent.bundle \in Nat
  /\ AgentStateOK(agent.state)
  /\ Len(agent.state.used_tools) <= 2 + agent.step

\* What a decision may still do.
AgentSees ==
  /\ agent.pc = "apply" =>
       /\ agent.step < MaxSteps
       /\ Len(agent.state.used_tools) <= 1 + agent.step
       /\ \/ agent.decision.final # None
          \/ agent.decision.tool \in Requests(Query, Record)
  /\ agent.pc \in Judged => agent.decision.final.selected \subseteq agent.state.observed

\* The bundles a run has read, and its answer.
AgentReads ==
  /\ agent.bundle <= package
  /\ agent.pc = "recheck" => agent.hydrated \in agent.bundle .. package
  /\ agent.pc = "respond" => agent.hydrated = agent.bundle
  /\ agent.pc # "done" => agent.response = None
  /\ agent.pc = "done" =>
       /\ agent.hydrated = agent.response.bundle
       /\ agent.response.selected \subseteq ShownBy(agent.state.observations)

AgentInv == AgentTypes /\ AgentSees /\ AgentReads

LEMMA AgentShows == \A s : Agent!ShownTo(s) = ShownBy(s)
  BY DEF Agent!ShownTo, ShownBy

LEMMA AgentUnseen == Agent!NothingOpenedUnseen <=> UnseenClosed(agent.state.observations)
  BY AgentShows DEF Agent!NothingOpenedUnseen, UnseenClosed, Opens

LEMMA UnseenAppend ==
  ASSUME NEW s, IsSeq(s), UnseenClosed(s), NEW o, Opens(o, s)
  PROVE  UnseenClosed(Append(s, o))
<1> SUFFICES ASSUME NEW i \in DOMAIN Append(s, o)
             PROVE  Opens(Append(s, o)[i], SubSeq(Append(s, o), 1, i - 1))
  BY DEF UnseenClosed
<1>1. CASE i \in DOMAIN s
  <2>1. Append(s, o)[i] = s[i] /\ SubSeq(Append(s, o), 1, i - 1) = SubSeq(s, 1, i - 1)
    BY <1>1, AppendFacts, PrefixFacts
  <2> QED BY <1>1, <2>1 DEF UnseenClosed
<1>2. CASE i = Len(s) + 1
  <2>1. Append(s, o)[i] = o /\ SubSeq(Append(s, o), 1, i - 1) = s
    BY <1>2, AppendFacts, PrefixFacts
  <2> QED BY <2>1
<1> QED BY <1>1, <1>2, AppendFacts, SeqFacts

\* The agent is instantiated with the turn the conversation extends: what
\* its tools show and its model may answer is the same.
LEMMA AgentSameTurn ==
  /\ Agent!NewTurnState = NewTurnState
  /\ \A state, decision : Agent!ApplyToolTurn(state, decision) = ApplyToolTurn(state, decision)
  /\ \A state, decision : Agent!Refused(state, decision) = Refused(state, decision)
  /\ \A decision, state : Agent!Acceptable(decision, state) =>
                            decision.final.selected \subseteq state.observed
  /\ \A step, calls : Agent!Decisions(step, calls) = Decisions(step, calls)
<1>1. /\ Agent!ToolError = ToolError
      /\ \A request, records : Agent!Shows(request, records) = Shows(request, records)
      /\ \A tool, input, result :
           Agent!Observation(tool, input, result) = Observation(tool, input, result)
      /\ \A result : Agent!ObservedFrom(result) = ObservedFrom(result)
      /\ \A result : Agent!DiscoveryComplete(result) = DiscoveryComplete(result)
  BY DEF Agent!ToolError, ToolError, Agent!Shows, Shows, Agent!Observation, Observation,
         Agent!ObservedFrom, ObservedFrom, Agent!DiscoveryComplete, DiscoveryComplete
<1>2. \A tool : Agent!Feedback(tool) = Feedback(tool)
  BY <1>1 DEF Agent!Feedback, Feedback
<1>3. Agent!NewTurnState = NewTurnState
  BY <1>1 DEF Agent!NewTurnState, NewTurnState, Agent!Bootstrap, Bootstrap,
              Agent!BriefResult, BriefResult
<1>4. \A request, observed : Agent!ExecuteTool(request, observed) = ExecuteTool(request, observed)
  BY <1>1 DEF Agent!ExecuteTool, ExecuteTool, Agent!Authorized, Authorized
<1>5. \A request, state : Agent!Answered(request, state) = Answered(request, state)
  BY <1>1, <1>4 DEF Agent!Answered, Answered, Agent!SeenRequests, SeenRequests,
                    Agent!Silent, Silent
<1>6. \A state, decision : Agent!ApplyToolTurn(state, decision) = ApplyToolTurn(state, decision)
  BY <1>1, <1>2, <1>5, Zenon DEF Agent!ApplyToolTurn, ApplyToolTurn
<1>7. \A state, decision : Agent!Refused(state, decision) = Refused(state, decision)
  BY <1>2, Zenon DEF Agent!Refused, Refused
<1>8. \A decision, state : Agent!Acceptable(decision, state) =>
                              decision.final.selected \subseteq state.observed
  BY DEF Agent!Acceptable, Agent!PlanIsValid
<1>9. \A step, calls : Agent!Decisions(step, calls) = Decisions(step, calls)
  BY Zenon
     DEF Agent!Decisions, Decisions, Agent!Requests, Requests, Agent!FinalDecisions,
         FinalDecisions, Agent!Plans, Plans, Agent!ToolDecisions, ToolDecisions,
         Agent!MuddledDecisions, MuddledDecisions, Agent!MustFinalize, MustFinalize
<1> QED BY <1>3, <1>6, <1>7, <1>8, <1>9

\* What a model may answer: a tool only while a call is left to use it.
LEMMA AgentDecides ==
  ASSUME NEW step, NEW decision \in Decisions(step, 0), decision.action = "tool"
  PROVE  /\ ~ MustFinalize(step, 0)
         /\ decision.final # None \/ decision.tool \in Requests(Query, Record)
<1>1. ~ MustFinalize(step, 0)
  BY DEF Decisions, FinalDecisions
<1>2. [name |-> "audit_get", arg |-> Unknown] \in Requests(Query, Record)
  BY DEF Requests
<1>3. decision \in ToolDecisions(Requests(Query, Record))
                     \cup MuddledDecisions(Requests(Query, Record))
  BY <1>1 DEF Decisions, FinalDecisions
<1> QED BY <1>1, <1>2, <1>3 DEF ToolDecisions, MuddledDecisions

\* What was opened without an error had been shown.
LEMMA AgentOpens ==
  ASSUME NEW state, NEW request \in Requests(Query, Record),
         request.name \in {"audit_get", "trace"}, ~ Answered(request, state).error
  PROVE  request.arg \in state.observed
  BY DEF Answered, ExecuteTool, Authorized, ToolError

\* The state after one observation.
LEMMA AgentObserves ==
  ASSUME NEW state, IsSeq(state.observations), NEW o,
         state.observed \subseteq ShownBy(state.observations),
         UnseenClosed(state.observations), Opens(o, state.observations)
  PROVE  /\ IsSeq(Append(state.observations, o))
         /\ state.observed \cup o.result.shows \subseteq ShownBy(Append(state.observations, o))
         /\ UnseenClosed(Append(state.observations, o))
  BY AppendFacts, ShownAppend, UnseenAppend

LEMMA AgentFeedback ==
  ASSUME NEW state, AgentStateOK(state), NEW tool \in Silent, NEW next,
         next = [state EXCEPT !.observations = Append(@, Feedback(tool))]
  PROVE  AgentStateOK(next) /\ next.used_tools = state.used_tools
<1> DEFINE o == Feedback(tool)
<1>1. DOMAIN state = {"observations", "used_tools", "observed", "discovery_complete"}
  BY DEF AgentStateOK, NewTurnState
<1>2. /\ DOMAIN next = DOMAIN state
      /\ next.observations = Append(state.observations, o)
      /\ next.used_tools = state.used_tools /\ next.observed = state.observed
  BY <1>1
<1>3. Opens(o, state.observations)
  BY DEF Opens, Feedback, Observation, Silent
<1> HIDE DEF o
<1> QED BY <1>2, <1>3, AgentObserves DEF AgentStateOK

LEMMA AgentApplies ==
  ASSUME NEW state, AgentStateOK(state), NEW decision,
         decision.final # None \/ decision.tool \in Requests(Query, Record)
  PROVE  LET next == ApplyToolTurn(state, decision)
         IN /\ AgentStateOK(next)
            /\ Len(next.used_tools) <= Len(state.used_tools) + 1
<1> DEFINE request == decision.tool
           result == Answered(request, state)
           next == ApplyToolTurn(state, decision)
<1>1. Len(state.used_tools) \in Nat
  BY SeqFacts DEF AgentStateOK
<1>2. CASE decision.final # None
  <2>1. next = [state EXCEPT !.observations = Append(@, Feedback("agent_protocol"))]
    BY <1>2 DEF ApplyToolTurn
  <2> HIDE DEF next
  <2>2. AgentStateOK(next) /\ next.used_tools = state.used_tools
    BY <2>1, AgentFeedback DEF Silent
  <2> QED BY <1>1, <2>2 DEF next
<1>3. CASE decision.final = None
  <2> DEFINE o == Observation(request.name, request, result)
  <2>1. next = [observations |-> Append(state.observations, o),
                used_tools |-> Append(state.used_tools, request.name),
                observed |-> state.observed \cup ObservedFrom(result),
                discovery_complete |-> state.discovery_complete /\ DiscoveryComplete(result)]
    BY <1>3 DEF ApplyToolTurn
  <2>2. /\ DOMAIN next = DOMAIN NewTurnState
        /\ next.observed = state.observed \cup ObservedFrom(result)
        /\ next.observations = Append(state.observations, o)
        /\ next.used_tools = Append(state.used_tools, request.name)
    BY <2>1 DEF NewTurnState
  <2>3. o.tool = request.name /\ o.input = request /\ o.result = result
    BY DEF Observation
  <2>4. ObservedFrom(result) \subseteq result.shows \cap Record
    BY <1>3, AnswersShowRecords DEF AgentStateOK
  <2>5. Opens(o, state.observations)
    <3>1. request.name \in {"audit_get", "trace"} /\ ~ result.error => request.arg \in state.observed
      BY <1>3, AgentOpens
    <3> HIDE DEF o, result
    <3> QED BY <2>3, <3>1 DEF Opens, AgentStateOK
  <2> HIDE DEF next, o, result
  <2>6. /\ IsSeq(Append(state.used_tools, request.name))
        /\ Len(Append(state.used_tools, request.name)) = Len(state.used_tools) + 1
    BY AppendFacts DEF AgentStateOK
  <2>7. AgentStateOK(next)
    BY <2>2, <2>3, <2>4, <2>5, <2>6, AgentObserves DEF AgentStateOK
  <2> QED BY <1>1, <2>2, <2>6, <2>7 DEF next
<1> QED BY <1>2, <1>3
LEMMA AgentStart == Agent!Init => AgentInv
<1> SUFFICES ASSUME Agent!Init PROVE AgentInv
  OBVIOUS
<1> DEFINE start == NewTurnState
<1>1. agent = Agent!NoAgent /\ package \in Bundle /\ Bundle \subseteq Nat \ {0} /\ MaxSteps \in Nat \ {0}
  BY ConversationAssumption, AgentAssumption DEF Agent!Init
<1>2. /\ agent.state = start /\ agent.pc = "prepare" /\ agent.bundle = 0 /\ agent.step = 0
      /\ agent.response = None
  BY <1>1, AgentSameTurn DEF Agent!NoAgent
<1>3. /\ start.observations = Bootstrap
      /\ start.used_tools = <<"brief", "assertion_procedures">>
      /\ start.observed = ObservedFrom(BriefResult)
  BY DEF NewTurnState
<1>4. /\ IsSeq(start.observations) /\ IsSeq(start.used_tools) /\ Len(start.used_tools) = 2
  <2>1. ASSUME NEW a, NEW b PROVE IsSeq(<<a, b>>) /\ Len(<<a, b>>) = 2
    <3>1. <<a, b>> \in Seq({a, b})
      OBVIOUS
    <3> QED BY <3>1, SeqOfRange DEF IsSeq
  <2> QED BY <1>3, <2>1 DEF Bootstrap
<1>5. DOMAIN start.observations = 1 .. 2
  BY <1>3 DEF Bootstrap
<1>6. start.observed \subseteq Record /\ start.observed \subseteq ShownBy(start.observations)
  <2>1. start.observed = Brief
    BY <1>3 DEF BriefResult, ObservedFrom
  <2>2. 1 \in DOMAIN start.observations /\ start.observations[1].result.shows = Brief
    BY <1>3, <1>5 DEF Bootstrap, Observation, BriefResult
  <2> QED BY <2>1, <2>2, AgentAssumption DEF ShownBy
<1>7. UnseenClosed(start.observations)
  <2>1. \A i \in 1 .. 2 : start.observations[i].tool \in {"brief", "assertion_procedures"}
    BY <1>3 DEF Bootstrap, Observation
  <2> QED BY <1>5, <2>1 DEF UnseenClosed, Opens
<1>8. AgentStateOK(start)
  BY <1>4, <1>6, <1>7 DEF AgentStateOK
<1> HIDE DEF start
<1> QED BY <1>1, <1>2, <1>4, <1>8 DEF AgentInv, AgentTypes, AgentPcs, AgentSees, Judged, AgentReads

\* A step that moves the run on without looking at its state.
LEMMA AgentMoves ==
  ASSUME AgentInv, package' = package, NEW pc \in {"request", "unchanged", "hydrate", "recheck",
                                                   "respond", "failed"},
         NEW hydrated,
         agent' = [agent EXCEPT !.pc = pc, !.hydrated = hydrated],
         agent.pc \notin {"prepare", "apply", "done"},
         pc \in Judged => agent.decision.final.selected \subseteq agent.state.observed,
         pc = "recheck" => hydrated = package,
         pc = "respond" => hydrated = agent.bundle
  PROVE  AgentInv'
<1>1. DOMAIN agent = {"pc", "bundle", "state", "step", "decision", "hydrated", "response"}
  BY DEF AgentInv, AgentTypes, Agent!NoAgent
<1>2. /\ DOMAIN agent' = DOMAIN agent /\ agent'.pc = pc /\ agent'.hydrated = hydrated
      /\ agent'.bundle = agent.bundle /\ agent'.state = agent.state /\ agent'.step = agent.step
      /\ agent'.decision = agent.decision /\ agent'.response = agent.response
  BY <1>1
<1>3. package \in Nat
  BY ConversationAssumption DEF AgentInv, AgentTypes
<1>4. AgentTypes'
  BY <1>2 DEF AgentInv, AgentTypes, AgentPcs, Agent!NoAgent
<1>5. AgentSees'
  BY <1>2 DEF AgentInv, AgentSees
<1>6. AgentReads'
  BY <1>2, <1>3 DEF AgentInv, AgentReads, AgentTypes
<1> QED BY <1>4, <1>5, <1>6 DEF AgentInv

\* A step that observes something and asks the model again.
LEMMA AgentAsksAgain ==
  ASSUME AgentInv, package' = package, NEW state, AgentStateOK(state),
         Len(state.used_tools) <= 2 + agent.step, agent.pc # "done",
         agent' = [agent EXCEPT !.pc = "request", !.state = state, !.decision = None]
  PROVE  AgentInv'
<1>1. DOMAIN agent = {"pc", "bundle", "state", "step", "decision", "hydrated", "response"}
  BY DEF AgentInv, AgentTypes, Agent!NoAgent
<1>2. /\ DOMAIN agent' = DOMAIN agent /\ agent'.pc = "request"
      /\ agent'.bundle = agent.bundle /\ agent'.state = state /\ agent'.step = agent.step
      /\ agent'.response = agent.response
  BY <1>1
<1> QED BY <1>2 DEF AgentInv, AgentTypes, AgentPcs, Agent!NoAgent, AgentSees, Judged, AgentReads

\* The model answers: a tool only while a call is left to use its result.
LEMMA AgentModelStep ==
  ASSUME AgentInv, Agent!ModelAnswers
  PROVE  AgentInv'
<1>1. PICK decision \in Decisions(agent.step + 1, 0) :
        agent' = [agent EXCEPT !.pc = IF decision.action = "tool" THEN "apply" ELSE "judge",
                               !.step = @ + 1,
                               !.decision = decision]
  BY AgentSameTurn DEF Agent!ModelAnswers
<1>2. /\ agent.pc = "request" /\ agent.step < MaxSteps /\ agent.step \in Nat
      /\ package' = package /\ MaxSteps \in Nat
  BY AgentAssumption DEF Agent!ModelAnswers, AgentInv, AgentTypes
<1>3. DOMAIN agent = {"pc", "bundle", "state", "step", "decision", "hydrated", "response"}
  BY DEF AgentInv, AgentTypes, Agent!NoAgent
<1>4. /\ DOMAIN agent' = DOMAIN agent /\ agent'.step = agent.step + 1
      /\ agent'.pc = IF decision.action = "tool" THEN "apply" ELSE "judge"
      /\ agent'.bundle = agent.bundle /\ agent'.state = agent.state
      /\ agent'.decision = decision /\ agent'.response = agent.response
  BY <1>1, <1>3
<1>5. Len(agent.state.used_tools) \in Nat
  BY SeqFacts DEF AgentInv, AgentTypes, AgentStateOK
<1>6. AgentTypes'
  BY <1>2, <1>4, <1>5 DEF AgentInv, AgentTypes, AgentPcs, Agent!NoAgent
<1>7. AgentSees'
  <2>1. CASE decision.action = "tool"
    <3>1. agent.step + 1 < MaxSteps
      BY <1>2, <2>1, AgentDecides DEF MustFinalize
    <3> QED BY <1>2, <1>4, <1>5, <2>1, <3>1, AgentDecides
            DEF AgentInv, AgentTypes, AgentSees, Judged
  <2>2. CASE decision.action # "tool"
    BY <1>4, <2>2 DEF AgentSees, Judged
  <2> QED BY <2>1, <2>2
<1>8. AgentReads'
  BY <1>2, <1>4 DEF AgentInv, AgentReads
<1> QED BY <1>6, <1>7, <1>8 DEF AgentInv

\* A blocked package is answered without the model; nothing is selected.
LEMMA AgentPrepareStep ==
  ASSUME AgentInv, Agent!Prepare
  PROVE  AgentInv'
<1>1. /\ agent.pc = "prepare" /\ package' = package /\ package \in Nat
  BY ConversationAssumption DEF Agent!Prepare, AgentInv, AgentTypes
<1>2. DOMAIN agent = {"pc", "bundle", "state", "step", "decision", "hydrated", "response"}
  BY DEF AgentInv, AgentTypes, Agent!NoAgent
<1>3. CASE package \in Ready
  <2>1. /\ DOMAIN agent' = DOMAIN agent /\ agent'.pc = "request" /\ agent'.bundle = package
        /\ agent'.state = agent.state /\ agent'.step = agent.step
        /\ agent'.response = agent.response
    BY <1>1, <1>2, <1>3 DEF Agent!Prepare
  <2> QED BY <1>1, <2>1 DEF AgentInv, AgentTypes, AgentPcs, Agent!NoAgent, AgentSees, Judged, AgentReads
<1>4. CASE package \notin Ready
  <2>1. /\ DOMAIN agent' = DOMAIN agent /\ agent'.pc = "done" /\ agent'.bundle = package
        /\ agent'.hydrated = package /\ agent'.state = agent.state /\ agent'.step = agent.step
        /\ agent'.response = Agent!BlockedResponse(package)
    BY <1>1, <1>2, <1>4 DEF Agent!Prepare
  <2>2. agent'.response.bundle = package /\ agent'.response.selected = {}
    BY <2>1 DEF Agent!BlockedResponse
  <2> QED BY <1>1, <2>1, <2>2
          DEF AgentInv, AgentTypes, AgentPcs, Agent!NoAgent, AgentSees, Judged, AgentReads
<1> QED BY <1>3, <1>4

LEMMA AgentApplyStep ==
  ASSUME AgentInv, Agent!Apply
  PROVE  AgentInv'
<1> DEFINE state == ApplyToolTurn(agent.state, agent.decision)
<1>1. /\ agent.pc = "apply" /\ package' = package
      /\ agent' = [agent EXCEPT !.pc = "request", !.state = state, !.decision = None]
  BY AgentSameTurn DEF Agent!Apply
<1>2. /\ AgentStateOK(agent.state) /\ agent.step \in Nat
      /\ Len(agent.state.used_tools) <= 1 + agent.step
      /\ agent.decision.final # None \/ agent.decision.tool \in Requests(Query, Record)
  BY <1>1, AgentAssumption DEF AgentInv, AgentTypes, AgentSees
<1>3. AgentStateOK(state) /\ Len(state.used_tools) <= Len(agent.state.used_tools) + 1
  BY <1>2, AgentApplies
<1> HIDE DEF state
<1>4. Len(state.used_tools) \in Nat /\ Len(agent.state.used_tools) \in Nat
  BY <1>2, <1>3, SeqFacts DEF AgentStateOK
<1>5. Len(state.used_tools) <= 2 + agent.step
  BY <1>2, <1>3, <1>4
<1> QED BY <1>1, <1>3, <1>5, AgentAsksAgain

\* An answer is judged by what the run has seen; a refused one is observed.
LEMMA AgentJudgeStep ==
  ASSUME AgentInv, Agent!Judge
  PROVE  AgentInv'
<1>1. agent.pc = "judge" /\ package' = package /\ AgentStateOK(agent.state)
  BY DEF Agent!Judge, AgentInv, AgentTypes
<1>2. DOMAIN agent = {"pc", "bundle", "state", "step", "decision", "hydrated", "response"}
  BY DEF AgentInv, AgentTypes, Agent!NoAgent
<1>3. CASE Agent!Acceptable(agent.decision, agent.state)
  <2>1. agent' = [agent EXCEPT !.pc = "unchanged"]
    BY <1>3 DEF Agent!Judge
  <2>2. agent' = [agent EXCEPT !.pc = "unchanged", !.hydrated = agent.hydrated]
    BY <1>2, <2>1
  <2>3. agent.decision.final.selected \subseteq agent.state.observed
    BY <1>3, AgentSameTurn
  <2> QED BY <1>1, <2>2, <2>3, AgentMoves
<1>4. CASE ~ Agent!Acceptable(agent.decision, agent.state)
  <2> DEFINE state == Refused(agent.state, agent.decision)
  <2>1. agent' = [agent EXCEPT !.pc = "request", !.state = state, !.decision = None]
    BY <1>4, AgentSameTurn DEF Agent!Judge
  <2>2. AgentStateOK(state) /\ state.used_tools = agent.state.used_tools
    <3>1. PICK tool \in Silent :
            state = [agent.state EXCEPT !.observations = Append(@, Feedback(tool))]
      BY DEF Refused, Silent
    <3> HIDE DEF state
    <3> QED BY <1>1, <3>1, AgentFeedback
  <2> HIDE DEF state
  <2> QED BY <1>1, <2>1, <2>2, AgentAsksAgain DEF AgentInv, AgentTypes
<1> QED BY <1>3, <1>4

\* The bundle is compared before and after the evidence is read.
LEMMA AgentEvidenceStep ==
  ASSUME AgentInv, Agent!ModelFails \/ Agent!CheckBefore \/ Agent!Hydrate \/ Agent!CheckAfter
  PROVE  AgentInv'
<1>1. DOMAIN agent = {"pc", "bundle", "state", "step", "decision", "hydrated", "response"}
  BY DEF AgentInv, AgentTypes, Agent!NoAgent
<1>2. ASSUME NEW pc, agent' = [agent EXCEPT !.pc = pc]
      PROVE  agent' = [agent EXCEPT !.pc = pc, !.hydrated = agent.hydrated]
  BY <1>1, <1>2
<1>3. agent.pc \in Judged => agent.decision.final.selected \subseteq agent.state.observed
  BY DEF AgentInv, AgentSees
<1>4. ASSUME agent.pc \in {"request"} \cup Judged, package' = package,
             agent' = [agent EXCEPT !.pc = "failed"]
      PROVE  AgentInv'
  BY <1>2, <1>4, AgentMoves DEF Judged
<1>5. CASE Agent!ModelFails
  BY <1>4, <1>5 DEF Agent!ModelFails
<1>6. CASE Agent!CheckBefore
  <2>1. agent.pc = "unchanged" /\ package' = package
    BY <1>6 DEF Agent!CheckBefore
  <2>2. CASE package = agent.bundle
    <3>1. agent' = [agent EXCEPT !.pc = "hydrate", !.hydrated = agent.hydrated]
      BY <1>2, <1>6, <2>2 DEF Agent!CheckBefore, Agent!SameBundle
    <3> QED BY <1>3, <2>1, <3>1, AgentMoves DEF Judged
  <2>3. CASE package # agent.bundle
    BY <1>4, <1>6, <2>1, <2>3 DEF Agent!CheckBefore, Agent!SameBundle, Judged
  <2> QED BY <2>2, <2>3
<1>7. CASE Agent!Hydrate
  <2>1. agent.pc = "hydrate" /\ package' = package
    BY <1>7 DEF Agent!Hydrate
  <2>2. CASE agent' = [agent EXCEPT !.pc = "recheck", !.hydrated = package]
    BY <1>3, <2>1, <2>2, AgentMoves DEF Judged
  <2> QED BY <1>4, <1>7, <2>1, <2>2 DEF Agent!Hydrate, Judged
<1>8. CASE Agent!CheckAfter
  <2>1. agent.pc = "recheck" /\ package' = package
    BY <1>8 DEF Agent!CheckAfter
  <2>2. CASE package = agent.bundle
    <3>1. agent' = [agent EXCEPT !.pc = "respond", !.hydrated = agent.hydrated]
      BY <1>2, <1>8, <2>2 DEF Agent!CheckAfter, Agent!SameBundle
    <3>2. agent.hydrated = agent.bundle
      <4>1. agent.hydrated \in agent.bundle .. package /\ agent.bundle \in Nat
        BY <2>1 DEF AgentInv, AgentReads, AgentTypes
      <4> QED BY <2>2, <4>1
    <3> QED BY <1>3, <2>1, <3>1, <3>2, AgentMoves DEF Judged
  <2>3. CASE package # agent.bundle
    BY <1>4, <1>8, <2>1, <2>3 DEF Agent!CheckAfter, Agent!SameBundle, Judged
  <2> QED BY <2>2, <2>3
<1> QED BY <1>5, <1>6, <1>7, <1>8

LEMMA AgentRespondStep ==
  ASSUME AgentInv, Agent!Respond
  PROVE  AgentInv'
<1>1. PICK evidenceComplete \in BOOLEAN :
        agent' = [agent EXCEPT !.pc = "done",
                               !.response = Agent!Response(agent.state, agent.decision,
                                              agent.bundle, agent.step, evidenceComplete)]
  BY DEF Agent!Respond
<1>2. DOMAIN agent = {"pc", "bundle", "state", "step", "decision", "hydrated", "response"}
  BY DEF AgentInv, AgentTypes, Agent!NoAgent
<1> DEFINE response == Agent!Response(agent.state, agent.decision, agent.bundle, agent.step,
                                      evidenceComplete)
<1>3. response.selected = agent.decision.final.selected /\ response.bundle = agent.bundle
  BY DEF Agent!Response
<1> HIDE DEF response
<1>4. /\ DOMAIN agent' = DOMAIN agent /\ agent'.pc = "done" /\ agent'.bundle = agent.bundle
      /\ agent'.hydrated = agent.hydrated /\ agent'.state = agent.state
      /\ agent'.step = agent.step /\ agent'.response = response
  BY <1>1, <1>2 DEF response
<1>5. agent.pc = "respond" /\ package' = package
  BY DEF Agent!Respond
<1>6. /\ agent.hydrated = agent.bundle
      /\ agent.decision.final.selected \subseteq ShownBy(agent.state.observations)
  BY <1>5 DEF AgentInv, AgentReads, AgentSees, Judged, AgentTypes, AgentStateOK
<1> QED BY <1>3, <1>4, <1>5, <1>6
        DEF AgentInv, AgentTypes, AgentPcs, Agent!NoAgent, AgentSees, Judged, AgentReads

\* Everything else leaves the run as it is; the package only moves on.
LEMMA AgentPackageStep ==
  ASSUME AgentInv, Agent!PackagePreparedAgain \/ UNCHANGED Agent!vars
  PROVE  AgentInv'
<1>1. agent' = agent /\ package' \in Bundle /\ package \in Nat /\ package' \in {package, package + 1}
  BY ConversationAssumption DEF Agent!PackagePreparedAgain, Agent!vars, AgentInv, AgentTypes
<1>2. agent.bundle \in Nat /\ agent.bundle <= package
  BY DEF AgentInv, AgentTypes, AgentReads
<1> QED BY <1>1, <1>2 DEF AgentInv, AgentTypes, AgentSees, AgentReads

THEOREM AgentInvariant == Agent!Spec => []AgentInv
<1>1. AgentInv /\ [Agent!Next]_(Agent!vars) => AgentInv'
  BY AgentModelStep, AgentPrepareStep, AgentApplyStep, AgentJudgeStep, AgentEvidenceStep,
     AgentRespondStep, AgentPackageStep DEF Agent!Next, Agent!Run
<1> QED BY <1>1, AgentStart, PTL DEF Agent!Spec

\* An answer of the agent selects only records its own run was shown, its
\* evidence was read from the bundle it names although the package may be
\* prepared again meanwhile, no record is opened before it was shown, and the
\* last model call is never spent on a tool (run_audit_agent).
THEOREM AgentAnswers ==
  Agent!Spec => [](/\ Agent!TypeOK
                   /\ Agent!AnswerIsGrounded /\ Agent!EvidenceFromItsBundle
                   /\ Agent!NothingOpenedUnseen /\ Agent!NoToolAfterLastCall)
<1> DEFINE Holds == /\ Agent!TypeOK
                   /\ Agent!AnswerIsGrounded /\ Agent!EvidenceFromItsBundle
                   /\ Agent!NothingOpenedUnseen /\ Agent!NoToolAfterLastCall
<1>1. ASSUME AgentInv PROVE Holds
  <2>1. agent.pc \in AgentPcs /\ AgentStateOK(agent.state) /\ agent.step \in 0 .. MaxSteps
    BY <1>1 DEF AgentInv, AgentTypes
  <2>2. Len(agent.state.used_tools) \in Nat /\ MaxSteps \in Nat
    BY <2>1, SeqFacts, AgentAssumption DEF AgentStateOK
  <2>3. Agent!TypeOK
    BY <1>1, <2>1, <2>2 DEF AgentInv, AgentTypes, AgentPcs, AgentStateOK, Agent!TypeOK
  <2>4. Agent!AnswerIsGrounded /\ Agent!EvidenceFromItsBundle
    BY <1>1, AgentShows
       DEF AgentInv, AgentReads, Agent!AnswerIsGrounded, Agent!EvidenceFromItsBundle
  <2>5. Agent!NothingOpenedUnseen
    BY <2>1, AgentUnseen DEF AgentStateOK
  <2>6. Agent!NoToolAfterLastCall
    BY <1>1 DEF AgentInv, AgentSees, Agent!NoToolAfterLastCall
  <2> QED BY <2>3, <2>4, <2>5, <2>6
<1> HIDE DEF Holds
<1>2. []Holds <=> [](/\ Agent!TypeOK
                    /\ Agent!AnswerIsGrounded /\ Agent!EvidenceFromItsBundle
                    /\ Agent!NothingOpenedUnseen /\ Agent!NoToolAfterLastCall)
  BY DEF Holds
<1> QED BY <1>1, <1>2, AgentInvariant, PTL
=============================================================================
