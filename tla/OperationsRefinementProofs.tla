--------------------- MODULE OperationsRefinementProofs ---------------------
(***************************************************************************)
(* What TLAPS proves of the refinement: while nothing is terminated, every *)
(* step of the route, the workflow, its activities, the store and the      *)
(* reconciler is a step of KeyedCommand or leaves its state alone.         *)
(***************************************************************************)
EXTENDS OperationsRefinement, OperationsProofs

\* No operator terminates anything.
NoTermination == \A r \in Runs : closed[r] # "terminated"

\* A failure of a single attempt is certain: no attempt of it may still land.
SureInv == \A r \in Runs : decided[r] = "failed" /\ RunAttempts = 1 => zombies[r] = 0

RefInv == TypeOK /\ IInv /\ SendInv /\ NoTermination /\ SureInv

(***************************************************************************)
(* The two invariants the refinement adds.                                 *)
(***************************************************************************)
LEMMA NoTerminationStep ==
  ASSUME MaxTerminations = 0, TypeOK, IInv, NoTermination, [Next]_vars
  PROVE  NoTermination'
<1>1. ASSUME NEW r \in Runs PROVE ~Terminate(r)
  <2>1. IsFiniteSet(Runs)
    BY BoundsAssumption, FS_Interval DEF Runs
  <2>2. Terminated \subseteq Runs
    BY DEF Terminated
  <2>3. Cardinality(Terminated) \in Nat
    BY <2>1, <2>2, FS_Subset, FS_CardinalityType
  <2> QED
    BY <2>3 DEF Terminate
<1>2. ASSUME NEW s \in Sends, RouteStep(s)
      PROVE  closed' = closed \/ closed' = [closed EXCEPT ![latest + 1] = "open"]
  BY <1>2 DEF RouteStep, Find, Describe, BeforeStart, Unreachable, Start, StartOrAttach,
     StartRefused, UpdateAnswered, UpdateLate, UpdateClosed, Refind, runVars
<1>3. ASSUME NEW r \in Runs, WorkflowStep(r)
      PROVE  \/ closed' = closed
             \/ \E how \in {"completed", "failed", "cancelled"} : closed' = [closed EXCEPT ![r] = how]
  BY <1>3 DEF WorkflowStep, CheckRefuses, CheckPasses, InsertReported, PreludeEnds, RunReturns,
     RunRaises, RunLost, FinishReported, Close, Decide
<1>4. ASSUME NEW r \in Runs, ActivityStep(r) \/ OperatorStep(r) \/ RecordStep(r)
      PROVE  closed' = closed
  BY <1>1, <1>4 DEF ActivityStep, BeginAttempt, Land, ZombieLands, InsertCommits, FinishCommits,
     OperatorStep, CancelInsert, CancelEffect, Decide, RecordStep, Prune, Judge, EndLost, runVars
<1>5. CASE UNCHANGED vars
  BY <1>5 DEF vars, runVars, NoTermination
<1> QED
  BY <1>2, <1>3, <1>4, <1>5 DEF Next, NoTermination, TypeOK, RunTypeOK

LEMMA SureStep ==
  ASSUME TypeOK, IInv, SureInv, [Next]_vars
  PROVE  SureInv'
<1> SUFFICES ASSUME NEW q \in Runs, decided'[q] = "failed", RunAttempts = 1 PROVE zombies'[q] = 0
  BY DEF SureInv
<1>0. RunInv(q)
  BY DEF IInv
<1>1. CASE UNCHANGED <<decided, zombies>>
  BY <1>1 DEF SureInv
<1>2. ASSUME NEW s \in Sends, RouteStep(s) PROVE UNCHANGED <<decided, zombies>>
  BY <1>2 DEF RouteStep, Find, Describe, BeforeStart, Unreachable, Start, StartOrAttach,
     StartRefused, UpdateAnswered, UpdateLate, UpdateClosed, Refind, runVars
<1>3. ASSUME NEW r \in Runs, WorkflowStep(r) PROVE zombies'[q] = 0
  <2>1. CASE CheckRefuses(r) \/ CheckPasses(r) \/ FinishReported(r)
    BY <1>1, <2>1 DEF CheckRefuses, CheckPasses, FinishReported, Close
  <2>2. CASE InsertReported(r)
    BY <2>2 DEF InsertReported, Decide, SureInv, TypeOK, RunTypeOK
  \* The prelude ends before the first attempt.
  <2>3. CASE PreludeEnds(r)
    BY <1>0, <2>3 DEF PreludeEnds, Decide, At, SureInv, RunInv, AttemptInv, TypeOK, RunTypeOK
  <2>4. CASE RunReturns(r)
    BY <2>4 DEF RunReturns, Decide, SureInv, TypeOK, RunTypeOK
  \* The only attempt raised, landed or not: none was abandoned before it.
  <2>5. CASE RunRaises(r)
    BY <1>0, <2>5 DEF RunRaises, Decide, SureInv, RunInv, AttemptInv, TypeOK, RunTypeOK
  <2>6. CASE RunLost(r)
    <3>1. /\ At(r, "effect") /\ Abandon(r)
          /\ decided' = decided \/ decided' = [decided EXCEPT ![r] = "maybe"]
      BY <2>6 DEF RunLost, Decide
    <3>2. decided[r] # "failed"
      BY <3>1 DEF At, IInv, RunInv, OutcomeInv
    <3> QED
      BY <3>1, <3>2 DEF Abandon, SureInv, TypeOK, RunTypeOK
  <2> QED
    BY <1>3, <2>1, <2>2, <2>3, <2>4, <2>5, <2>6 DEF WorkflowStep
<1>4. ASSUME NEW r \in Runs, ActivityStep(r) PROVE zombies'[q] = 0
  <2>1. CASE ZombieLands(r)
    BY <2>1 DEF ZombieLands, SureInv, TypeOK, RunTypeOK
  <2> QED
    BY <1>1, <1>4, <2>1 DEF ActivityStep, BeginAttempt, Land, InsertCommits, FinishCommits, runVars
<1>5. ASSUME NEW r \in Runs, OperatorStep(r) PROVE zombies'[q] = 0
  <2>1. CASE CancelInsert(r)
    BY <1>1, <2>1 DEF CancelInsert
  <2>2. CASE CancelEffect(r)
    BY <2>2 DEF CancelEffect, Decide, Abandon, SureInv, TypeOK, RunTypeOK
  <2>3. CASE Terminate(r)
    <3>1. Abandon(r) /\ decided' = decided
      BY <2>3 DEF Terminate
    <3>2. live[r] = "begun" => decided[r] # "failed"
      BY DEF At, IInv, RunInv, AttemptInv, OutcomeInv
    <3> QED
      BY <3>1, <3>2 DEF Abandon, SureInv, TypeOK, RunTypeOK
  <2> QED
    BY <1>5, <2>1, <2>2, <2>3 DEF OperatorStep
<1>6. ASSUME NEW r \in Runs, RecordStep(r) PROVE UNCHANGED <<decided, zombies>>
  BY <1>6 DEF RecordStep, Prune, Judge, EndLost, runVars
<1>7. CASE UNCHANGED vars
  BY <1>1, <1>7 DEF vars, runVars
<1> QED
  BY <1>1, <1>2, <1>3, <1>4, <1>5, <1>6, <1>7 DEF Next

\* The invariant of the refinement.
LEMMA RefInvariance ==
  MaxTerminations = 0 => (Spec => []RefInv)
<1> SUFFICES ASSUME MaxTerminations = 0 PROVE Spec => []RefInv
  OBVIOUS
<1>1. Init => NoTermination /\ SureInv
  BY DEF Init, NoTermination, SureInv
<1>2. TypeOK /\ IInv /\ NoTermination /\ SureInv /\ [Next]_vars => NoTermination' /\ SureInv'
  BY NoTerminationStep, SureStep
<1>3. Spec => [](NoTermination /\ SureInv)
  BY <1>1, <1>2, Invariance, PTL DEF Spec
<1>4. TypeOK /\ IInv /\ SendInv /\ NoTermination /\ SureInv => RefInv
  BY DEF RefInv
<1> QED
  BY <1>3, <1>4, Invariance, AnswersInvariance, PTL

(***************************************************************************)
(* What the abstract state is, seen from an execution and from a send.     *)
(***************************************************************************)
\* The one execution that wrote a record says what the abstract record is.
RecordIs ==
  \A r \in Recorded :
    /\ Recorded = {r}
    /\ TheEffects = landed[r]
    /\ row[r] = "running" => TheRecord = "running"
    /\ row[r] # "running" => TheRecord = decided[r] /\ decided[r] \in Abstract!Endings

NoRecord == Recorded = {} => TheRecord = "none" /\ TheEffects = 0

\* Whoever was given a final answer was given the record.
ReplyIs == \A s \in Sends : FinalAnswer(s) => TheRecord = answer[s] /\ answer[s] \in Abstract!Endings

ViewInv == RecordIs /\ NoRecord /\ ReplyIs

LEMMA RecordView == TypeOK /\ IInv /\ NoTermination => RecordIs /\ NoRecord
<1> SUFFICES ASSUME TypeOK, IInv, NoTermination PROVE RecordIs /\ NoRecord
  OBVIOUS
<1>1. ASSUME NEW r \in Runs, NEW q \in Runs, r < q, rank[r] > 0, rank[q] > 0 PROVE FALSE
  <2>1. ~(q > latest)
    BY <1>1 DEF IInv, RunInv, StatusInv, RowInv
  <2>2. r < latest
    BY <1>1, <2>1, BoundsAssumption DEF TypeOK, RunTypeOK, Runs
  <2> QED
    BY <1>1, <2>2 DEF IInv, RunInv, StatusInv, RowInv, Reusable, NoTermination, TypeOK, RecordTypeOK
<1>2. ASSUME NEW r \in Recorded PROVE Recorded = {r}
  <2> SUFFICES ASSUME NEW q \in Recorded, q # r PROVE FALSE
    OBVIOUS
  <2>1. r \in Runs /\ q \in Runs /\ rank[r] > 0 /\ rank[q] > 0
    BY DEF Recorded
  <2>2. r < q \/ q < r
    BY <2>1, BoundsAssumption DEF Runs
  <2> QED
    BY <1>1, <2>1, <2>2
<1>3. ASSUME NEW r \in Recorded
      PROVE  /\ TheEffects = landed[r]
             /\ row[r] = "running" => TheRecord = "running"
             /\ row[r] # "running" => TheRecord = decided[r] /\ decided[r] \in Abstract!Endings
  <2>1. r \in Runs /\ rank[r] > 0 /\ RunInv(r)
    BY DEF Recorded, IInv
  <2>2. (CHOOSE q \in Recorded : TRUE) = r
    BY <1>2
  <2>3. TheEffects = landed[r] /\ TheRecord = RecordOf(r)
    BY <2>2 DEF TheEffects, TheRecord
  <2>4. closed[r] \in {"open", "completed"}
    BY <2>1 DEF RunInv, StatusInv, RowInv, NoTermination, TypeOK, RunTypeOK, Closes
  <2>5. CASE closed[r] = "open"
    <3>1. told[r] = "none" /\ row[r] \in (Outcomes \ {"lost"}) \union {"running"}
      BY <2>1, <2>5 DEF RunInv, OutcomeInv, RowInv, Open, TypeOK, RecordTypeOK
    <3>2. row[r] # "running" => row[r] = decided[r]
      BY <2>1, <3>1 DEF RunInv, RowInv
    <3> QED
      BY <2>3, <3>1, <3>2 DEF RecordOf, Outcomes, Abstract!Endings
  <2>6. CASE closed[r] = "completed"
    <3>1. told[r] = decided[r] /\ decided[r] \in Outcomes \ {"lost"} /\ row[r] # "running"
      BY <2>1, <2>6 DEF RunInv, OutcomeInv, RowInv, TypeOK, RunTypeOK, Outcomes
    <3> QED
      BY <2>3, <3>1 DEF RecordOf, Outcomes, Abstract!Endings
  <2> QED
    BY <2>4, <2>5, <2>6
<1>4. NoRecord
  BY DEF NoRecord, TheRecord, TheEffects
<1> QED
  BY <1>2, <1>3, <1>4 DEF RecordIs

LEMMA View == RefInv => ViewInv
<1> SUFFICES ASSUME RefInv PROVE ViewInv
  OBVIOUS
<1>1. RecordIs /\ NoRecord
  BY RecordView DEF RefInv
<1>2. ASSUME NEW s \in Sends, FinalAnswer(s)
      PROVE  TheRecord = answer[s] /\ answer[s] \in Abstract!Endings
  <2>1. PICK r \in Runs : /\ rank[r] > 0
                          /\ row[r] \in {answer[s], "absent"}
                          /\ closed[r] = "completed" => told[r] = answer[s]
    BY <1>2 DEF RefInv, SendInv, AnswerInv
  <2>2. row[r] # "running" /\ answer[s] \in Outcomes
    BY <1>2, <2>1 DEF FinalAnswer, Outcomes
  <2>3. TheRecord = decided[r] /\ decided[r] \in Abstract!Endings
    BY <1>1, <2>1, <2>2 DEF RecordIs, Recorded
  <2>4. decided[r] = answer[s]
    <3>1. RunInv(r) /\ closed[r] # "terminated"
      BY DEF RefInv, IInv, NoTermination
    <3>2. CASE row[r] = answer[s]
      BY <2>2, <3>1, <3>2 DEF RunInv, RowInv
    <3>3. CASE row[r] = "absent"
      BY <2>1, <3>1, <3>3 DEF RunInv, StatusInv, OutcomeInv, RowInv, Open, RefInv, TypeOK, RunTypeOK,
         Closes
    <3> QED
      BY <2>1, <3>2, <3>3
  <2> QED
    BY <2>3, <2>4
<1> QED
  BY <1>1, <1>2 DEF ViewInv, ReplyIs

(***************************************************************************)
(* Every step is a step of the abstract command, or leaves it alone.       *)
(***************************************************************************)
\* A step that changes no execution's record or effect leaves the abstract ones alone.
LEMMA SameRecord ==
  ASSUME ViewInv, ViewInv', UNCHANGED <<rank, landed>>,
         \A r \in Runs : rank[r] > 0 =>
           \/ row[r] = "running" /\ row'[r] = "running"
           \/ row[r] # "running" /\ row'[r] # "running" /\ decided'[r] = decided[r]
  PROVE  TheRecord' = TheRecord /\ TheEffects' = TheEffects
<1>1. Recorded' = Recorded
  BY DEF Recorded
<1>2. CASE Recorded = {}
  BY <1>1, <1>2 DEF ViewInv, NoRecord
<1>3. ASSUME NEW r \in Recorded PROVE TheRecord' = TheRecord /\ TheEffects' = TheEffects
  <2>1. r \in Runs /\ rank[r] > 0 /\ r \in Recorded'
    BY <1>1 DEF Recorded
  <2> QED
    BY <2>1 DEF ViewInv, RecordIs
<1> QED
  BY <1>2, <1>3

\* The route only reads: what it changes is what its own send was answered.
LEMMA RouteImplements ==
  ASSUME RefInv, ViewInv, ViewInv', NEW s \in Sends, RouteStep(s)
  PROVE  [Abstract!Next]_Abstract!vars
<1>1. UNCHANGED <<rank, row, landed, decided>>
  BY DEF RouteStep, Find, Describe, BeforeStart, Unreachable, Start, StartOrAttach, StartRefused,
     UpdateAnswered, UpdateLate, UpdateClosed, Refind, runVars, rowVars
<1>2. TheRecord' = TheRecord /\ TheEffects' = TheEffects
  BY <1>1, SameRecord
<1>3. pc[s] # "answered"
  BY DEF RouteStep, Find, Describe, BeforeStart, Unreachable, Start, StartRefused, UpdateAnswered,
     UpdateLate, UpdateClosed, Refind
<1>4. \A t \in Sends \ {s} : pc'[t] = pc[t] /\ answer'[t] = answer[t]
  BY DEF RouteStep, Find, Describe, BeforeStart, Unreachable, Start, StartRefused, UpdateAnswered,
     UpdateLate, UpdateClosed, Refind, AnswerFromRecord, Answer, Goto, RefInv, TypeOK, SendTypeOK
<1>5. /\ TheReplies \in [Sends -> Answers] /\ TheReplies[s] = "none"
      /\ \A t \in Sends \ {s} : TheReplies'[t] = TheReplies[t]
      /\ TheReplies' = [t \in Sends |-> TheReplies'[t]]
  BY <1>3, <1>4 DEF TheReplies, FinalAnswer, RefInv, TypeOK, SendTypeOK, Answers
<1>6. CASE FinalAnswer(s)'
  <2>1. TheReplies'[s] = answer'[s] /\ answer'[s] = TheRecord /\ TheRecord \in Abstract!Endings
    BY <1>2, <1>6 DEF TheReplies, ViewInv, ReplyIs
  <2>2. TheReplies' = [TheReplies EXCEPT ![s] = TheRecord]
    BY <1>5, <2>1
  <2>3. Abstract!Reply(s)
    BY <1>2, <1>5, <2>1, <2>2 DEF Abstract!Reply
  <2> QED
    BY <2>3 DEF Abstract!Next
<1>7. CASE ~FinalAnswer(s)'
  <2>1. TheReplies'[s] = "none"
    BY <1>7 DEF TheReplies
  <2>2. TheReplies' = TheReplies
    BY <1>5, <2>1
  <2> QED
    BY <1>2, <2>2 DEF Abstract!vars
<1> QED
  BY <1>6, <1>7

LEMMA SameReplies ==
  ASSUME UNCHANGED sendVars
  PROVE  TheReplies' = TheReplies
BY DEF TheReplies, FinalAnswer, sendVars

\* The first and only record is written.
LEMMA InsertImplements ==
  ASSUME RefInv, ViewInv, ViewInv', NEW r \in Runs, InsertCommits(r)
  PROVE  Abstract!Accept
<1>1. rank[r] = 0 /\ rank'[r] > 0 /\ row'[r] = "running" /\ UNCHANGED landed
  BY NextRank DEF InsertCommits, RefInv, TypeOK, RecordTypeOK, runVars
<1>2. r \in Recorded' /\ r \notin Recorded
  BY <1>1 DEF Recorded
<1>3. Recorded = {}
  <2>1. Recorded' = {r}
    BY <1>2 DEF ViewInv, RecordIs
  <2>2. Recorded \subseteq Recorded'
    BY <1>1 DEF Recorded, InsertCommits, RefInv, TypeOK, RecordTypeOK
  <2> QED
    BY <1>2, <2>1, <2>2
<1>4. TheRecord = "none" /\ TheEffects = 0 /\ TheRecord' = "running" /\ TheEffects' = landed[r]
  BY <1>1, <1>2, <1>3 DEF ViewInv, NoRecord, RecordIs
\* Nothing was tried before the record.
<1>5. landed[r] = 0
  BY <1>1 DEF RefInv, TypeOK, RunTypeOK, IInv, RunInv, AttemptInv
<1> QED
  BY <1>4, <1>5, SameReplies DEF Abstract!Accept, InsertCommits

LEMMA FinishImplements ==
  ASSUME RefInv, ViewInv, ViewInv', NEW r \in Runs, FinishCommits(r)
  PROVE  Abstract!Conclude
<1>1. /\ stage[r] = "finish" /\ row[r] = "running" /\ row'[r] = decided[r]
      /\ UNCHANGED <<rank, landed, decided, sendVars>>
  BY DEF FinishCommits, RefInv, TypeOK, RecordTypeOK, runVars
<1>2. rank[r] > 0 /\ RunInv(r) /\ decided[r] \in Outcomes
  BY <1>1 DEF RefInv, IInv, RunInv, RowInv, TypeOK, RunTypeOK
<1>3. r \in Recorded /\ r \in Recorded' /\ row'[r] # "running"
  BY <1>1, <1>2 DEF Recorded, Outcomes
<1>4. /\ TheRecord = "running" /\ TheEffects = landed[r] /\ TheEffects' = TheEffects
      /\ TheRecord' = decided[r] /\ decided[r] \in Abstract!Endings
  BY <1>1, <1>3 DEF ViewInv, RecordIs
<1>5. /\ decided[r] = "ok" => landed[r] > 0
      /\ decided[r] = "nothing" => landed[r] = 0
  BY <1>2 DEF RunInv, OutcomeInv, AttemptInv, RefInv, TypeOK, RunTypeOK
<1> QED
  BY <1>1, <1>4, <1>5, SameReplies DEF Abstract!Conclude

\* An attempt lands, in time or late: no more often than attempts were allowed, and never
\* after a certain outcome.
LEMMA LandImplements ==
  ASSUME RefInv, ViewInv, ViewInv', NEW r \in Runs, Land(r) \/ ZombieLands(r)
  PROVE  Abstract!Happen
<1>1. /\ landed' = [landed EXCEPT ![r] = @ + 1]
      /\ UNCHANGED <<rank, row, decided, sendVars>>
      /\ live[r] = "begun" \/ zombies[r] > 0
  BY DEF Land, ZombieLands, rowVars
<1>2. landed[r] \in Nat /\ landed'[r] = landed[r] + 1 /\ RunInv(r)
  BY <1>1 DEF RefInv, TypeOK, RunTypeOK, IInv
<1>3. landed[r] < tries[r] /\ landed[r] < RunAttempts /\ tries[r] > 0
  BY <1>1, <1>2, KindAssumption DEF RunInv, AttemptInv, RefInv, TypeOK, RunTypeOK
<1>4. r \in Recorded /\ r \in Recorded'
  BY <1>1, <1>2, <1>3 DEF RunInv, AttemptInv, Recorded
<1>5. TheEffects = landed[r] /\ TheEffects' = landed[r] + 1 /\ TheRecord' = TheRecord
  BY <1>1, <1>2, <1>4 DEF ViewInv, RecordIs
<1>6. TheRecord = "running" \/ TheRecord = "maybe" \/ (RunAttempts > 1 /\ TheRecord \in {"ok", "failed"})
  <2>1. CASE row[r] = "running"
    BY <1>4, <2>1 DEF ViewInv, RecordIs
  <2>2. CASE row[r] # "running"
    <3>1. TheRecord = decided[r] /\ decided[r] \in {"ok", "failed", "maybe", "nothing"}
      BY <1>4, <2>2 DEF ViewInv, RecordIs, Abstract!Endings
    <3>2. decided[r] # "nothing"
      BY <1>2, <1>3 DEF RunInv, OutcomeInv
    <3>3. decided[r] = "ok" => RunAttempts > 1
      BY <1>2, <1>3, KindAssumption DEF RunInv, OutcomeInv
    <3>4. decided[r] = "failed" => RunAttempts > 1
      <4>1. ASSUME decided[r] = "failed" PROVE zombies[r] > 0
        BY <1>1, <1>2, <4>1 DEF RunInv, AttemptInv, OutcomeInv, At
      <4> QED
        BY <4>1, KindAssumption DEF RefInv, SureInv
    <3> QED
      BY <3>1, <3>2, <3>3, <3>4
  <2> QED
    BY <2>1, <2>2
<1> QED
  BY <1>1, <1>3, <1>5, <1>6, SameReplies DEF Abstract!Happen

\* A workflow's or an operator's step decides only what was not decided.
LEMMA DecideOnce ==
  ASSUME RefInv, NEW r \in Runs, WorkflowStep(r) \/ OperatorStep(r), NEW q \in Runs, decided[q] # "none"
  PROVE  decided'[q] = decided[q]
<1>1. decided[r] # "none" => stage[r] \in {"finish", "over"}
  BY DEF RefInv, IInv, RunInv, OutcomeInv
<1> QED
  BY <1>1 DEF WorkflowStep, CheckRefuses, CheckPasses, InsertReported, PreludeEnds, RunReturns,
     RunRaises, RunLost, FinishReported, OperatorStep, CancelInsert, CancelEffect, Terminate, Close,
     Decide, At, RefInv, TypeOK, RunTypeOK

LEMMA WorkflowImplements ==
  ASSUME RefInv, ViewInv, ViewInv', NEW r \in Runs,
         WorkflowStep(r) \/ OperatorStep(r) \/ BeginAttempt(r)
  PROVE  UNCHANGED Abstract!vars
<1>1. UNCHANGED <<rank, row, landed, sendVars>>
  BY DEF WorkflowStep, CheckRefuses, CheckPasses, InsertReported, PreludeEnds, RunReturns,
     RunRaises, RunLost, FinishReported, OperatorStep, CancelInsert, CancelEffect, Terminate, Close,
     BeginAttempt, rowVars
<1>2. ASSUME NEW q \in Runs, rank[q] > 0, row[q] # "running" PROVE decided'[q] = decided[q]
  <2>1. decided[q] # "none"
    BY <1>2 DEF ViewInv, RecordIs, Recorded, Abstract!Endings
  <2> QED
    BY <2>1, DecideOnce DEF BeginAttempt
<1>3. TheRecord' = TheRecord /\ TheEffects' = TheEffects
  BY <1>1, <1>2, SameRecord
<1> QED
  BY <1>1, <1>3, SameReplies DEF Abstract!vars

\* A prune takes only what has been told, and the reconciler finds nothing to end.
LEMMA RecordImplements ==
  ASSUME RefInv, ViewInv, ViewInv', NEW r \in Runs, RecordStep(r)
  PROVE  UNCHANGED Abstract!vars
<1>1. UNCHANGED <<rank, landed, decided, sendVars>>
  BY DEF RecordStep, Prune, Judge, EndLost, runVars, rowVars
<1>2. ASSUME NEW q \in Runs, rank[q] > 0
      PROVE  row[q] = "running" <=> row'[q] = "running"
  <2>1. CASE Prune(r)
    BY <2>1 DEF Prune, Ended, Outcomes, RefInv, TypeOK, RecordTypeOK
  <2>2. CASE Judge(r)
    BY <2>2 DEF Judge, rowVars
  <2>3. CASE EndLost(r)
    <3>1. r \in judged /\ row' = [row EXCEPT ![r] = IF @ = "running" THEN "lost" ELSE @]
      BY <2>3 DEF EndLost
    <3>2. closed[r] = "completed"
      BY <3>1 DEF RefInv, IInv, RunInv, StatusInv, RowInv, Open, NoTermination, TypeOK, RunTypeOK, Closes
    <3>3. row[r] # "running"
      BY <3>2 DEF RefInv, IInv, RunInv, RowInv, TypeOK, RunTypeOK, Outcomes
    <3> QED
      BY <3>1, <3>3 DEF RefInv, TypeOK, RecordTypeOK
  <2> QED
    BY <2>1, <2>2, <2>3 DEF RecordStep
<1>3. TheRecord' = TheRecord /\ TheEffects' = TheEffects
  BY <1>1, <1>2, SameRecord
<1> QED
  BY <1>1, <1>3, SameReplies DEF Abstract!vars

LEMMA StepImplements ==
  RefInv /\ ViewInv /\ ViewInv' /\ [Next]_vars => [Abstract!Next]_Abstract!vars
<1> SUFFICES ASSUME RefInv, ViewInv, ViewInv', [Next]_vars PROVE [Abstract!Next]_Abstract!vars
  OBVIOUS
<1>1. CASE UNCHANGED vars
  <2>1. UNCHANGED <<rank, landed, row, decided, sendVars>>
    BY <1>1 DEF vars, runVars, rowVars
  <2> QED
    BY <2>1, SameRecord, SameReplies DEF Abstract!vars
<1>2. ASSUME NEW s \in Sends, RouteStep(s) PROVE [Abstract!Next]_Abstract!vars
  BY <1>2, RouteImplements
<1>3. ASSUME NEW r \in Runs, WorkflowStep(r) \/ OperatorStep(r) \/ BeginAttempt(r)
      PROVE  UNCHANGED Abstract!vars
  BY <1>3, WorkflowImplements
<1>4. ASSUME NEW r \in Runs, Land(r) \/ ZombieLands(r) \/ InsertCommits(r) \/ FinishCommits(r)
      PROVE  Abstract!Next
  BY <1>4, LandImplements, InsertImplements, FinishImplements DEF Abstract!Next
<1>5. ASSUME NEW r \in Runs, RecordStep(r) PROVE UNCHANGED Abstract!vars
  BY <1>5, RecordImplements
<1> QED
  BY <1>1, <1>2, <1>3, <1>4, <1>5 DEF Next, ActivityStep

LEMMA InitImplements == Init => Abstract!Init
<1> SUFFICES ASSUME Init PROVE Abstract!Init
  OBVIOUS
<1>1. Recorded = {}
  BY DEF Init, Recorded
<1>2. TheReplies = [s \in Sends |-> "none"]
  BY DEF Init, TheReplies, FinalAnswer
<1> QED
  BY <1>1, <1>2 DEF Abstract!Init, TheRecord, TheEffects

\* While no operator terminates an execution, the sends of one key see one write-once
\* record: its effect happens no more often than it may be attempted, never after an
\* outcome that excludes it, and every final answer is the record.
THEOREM Refinement == MaxTerminations = 0 => (Spec => ImplementsKeyedCommand)
<1> SUFFICES ASSUME MaxTerminations = 0 PROVE Spec => ImplementsKeyedCommand
  OBVIOUS
<1>1. Spec => []RefInv
  BY RefInvariance
<1> QED
  BY <1>1, View, InitImplements, StepImplements, PTL DEF Spec, ImplementsKeyedCommand, Abstract!Spec
=============================================================================
