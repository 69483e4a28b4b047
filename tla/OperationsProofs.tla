-------------------------- MODULE OperationsProofs --------------------------
(***************************************************************************)
(* What TLAPS proves of Operations, for every number of sends, executions, *)
(* terminations and attempts.                                              *)
(***************************************************************************)
EXTENDS Operations, FiniteSetTheorems, TLAPS

(***************************************************************************)
(* Types.                                                                  *)
(***************************************************************************)
\* A new row's place in created_at order is a positive number.
LEMMA NextRank ==
  ASSUME RecordTypeOK
  PROVE  1 + Cardinality({q \in Runs : rank[q] > 0}) \in Nat \ {0}
<1>1. IsFiniteSet(Runs)
  BY BoundsAssumption, FS_Interval DEF Runs
<1>2. IsFiniteSet({q \in Runs : rank[q] > 0})
  BY <1>1, FS_Subset
<1> QED
  BY <1>2, FS_CardinalityType

LEMMA AnswerType ==
  ASSUME SendTypeOK, NEW s \in Sends, NEW r \in 0..MaxRuns, NEW a \in Answers, Answer(s, r, a)
  PROVE  SendTypeOK'
BY DEF SendTypeOK, Answer, Pcs

LEMMA GotoType ==
  ASSUME SendTypeOK, NEW s \in Sends, NEW where \in Pcs \ {"wait"}, Goto(s, where)
  PROVE  SendTypeOK'
BY DEF SendTypeOK, Goto

LEMMA RunIndex == ASSUME NEW r \in Runs PROVE r \in 0..MaxRuns
BY BoundsAssumption DEF Runs

\* What a route reads in the record is an answer.
LEMMA RecordAnswerType ==
  ASSUME SendTypeOK, RecordTypeOK, NEW s \in Sends, AnswerFromRecord(s)
  PROVE  SendTypeOK'
<1>1. PICK r \in Newest : Answer(s, r, row[r])
  BY DEF AnswerFromRecord
<1>2. r \in Runs /\ row[r] \in Answers
  BY DEF Newest, RecordTypeOK, Answers
<1> QED
  BY <1>1, <1>2, RunIndex, AnswerType

LEMMA NoRunIndex == NoRun \in 0..MaxRuns
BY BoundsAssumption DEF NoRun

LEMMA RouteType ==
  ASSUME TypeOK, NEW s \in Sends, RouteStep(s)
  PROVE  TypeOK'
<1> USE DEF TypeOK
<1>0. /\ "gated" \in Answers /\ "again" \in Answers /\ "gone" \in Answers /\ "running" \in Answers
      /\ {"gate", "ask", "start", "refindClosed", "refindLate"} \subseteq Pcs \ {"wait"}
  BY DEF Answers, Pcs
<1>1. CASE UNCHANGED runVars /\ UNCHANGED <<rowVars, judged>> /\ SendTypeOK'
  BY <1>1 DEF RunTypeOK, RecordTypeOK, runVars, rowVars
<1>2. CASE Find(s)
  BY <1>0, <1>1, <1>2, RecordAnswerType, GotoType DEF Find
<1>3. CASE Describe(s)
  BY <1>0, <1>1, <1>3, GotoType DEF Describe
<1>4. CASE BeforeStart(s)
  BY <1>0, <1>1, <1>4, GotoType, AnswerType, NoRunIndex DEF BeforeStart
<1>5. CASE Unreachable(s)
  BY <1>0, <1>1, <1>5, AnswerType, NoRunIndex DEF Unreachable
<1>6. CASE Start(s)
  <2>1. StartOrAttach
    BY <1>6 DEF Start
  <2>2. ASSUME LatestOpen, UNCHANGED runVars PROVE RunTypeOK' /\ Attached \in 1..MaxRuns
    <3>1. RunTypeOK'
      BY <2>2 DEF RunTypeOK, runVars
    <3>2. Attached \in 1..MaxRuns
      BY <2>2 DEF Attached, CanStart, LatestOpen, Reusable, Open, Runs
    <3> QED
      BY <3>1, <3>2
  <2>3. ASSUME ~(LatestOpen /\ UNCHANGED runVars) PROVE RunTypeOK' /\ Attached \in 1..MaxRuns
    <3>1. /\ CanStart
          /\ latest + 1 \in Runs /\ latest' = latest + 1
      BY <2>1, <2>3, BoundsAssumption DEF StartOrAttach, Runs, RunTypeOK
    <3>2. RunTypeOK'
      <4>1. /\ stage' = [stage EXCEPT ![latest + 1] = "check"]
            /\ closed' = [closed EXCEPT ![latest + 1] = "open"]
            /\ UNCHANGED <<live, tries, zombies, landed, decided, told>>
        BY <2>1, <2>3 DEF StartOrAttach
      <4>2. latest' \in 0..MaxRuns
        BY <3>1, BoundsAssumption DEF Runs
      <4>3. stage' \in [Runs -> Stages] /\ closed' \in [Runs -> Closes]
        BY <3>1, <4>1 DEF RunTypeOK, Stages, Closes
      <4>4. \A r \in Runs : stage'[r] = "finish" => decided'[r] # "none"
        BY <3>1, <4>1 DEF RunTypeOK
      <4> QED
        BY <4>1, <4>2, <4>3, <4>4 DEF RunTypeOK
    <3>3. Attached \in 1..MaxRuns
      BY <3>1 DEF Attached, Runs
    <3> QED
      BY <3>2, <3>3
  <2>4. RunTypeOK' /\ Attached \in 1..MaxRuns
    BY <2>2, <2>3
  <2>5. SendTypeOK'
    <3>1. ASSUME Answer(s, NoRun, "again") PROVE SendTypeOK'
      BY <1>0, <3>1, AnswerType, NoRunIndex
    <3>2. ASSUME pc' = [pc EXCEPT ![s] = "wait"], on' = [on EXCEPT ![s] = Attached], UNCHANGED answer
          PROVE  SendTypeOK'
      BY <2>4, <3>2, BoundsAssumption DEF SendTypeOK, Pcs, NoRun
    <3> QED
      BY <1>6, <3>1, <3>2 DEF Start
  <2> QED
    BY <1>6, <2>4, <2>5 DEF Start, RecordTypeOK, rowVars
<1>7. CASE StartRefused(s)
  BY <1>0, <1>1, <1>7, GotoType DEF StartRefused
<1>8. CASE UpdateAnswered(s)
  <2>1. PICK a \in UpdateAnswers(on[s]) : Answer(s, on[s], a)
    BY <1>8 DEF UpdateAnswered
  <2>2. on[s] \in Runs /\ on[s] \in 0..MaxRuns
    BY <1>8, BoundsAssumption DEF SendTypeOK, UpdateAnswered, Runs, NoRun
  <2>3. a \in Answers
    BY <2>1, <2>2 DEF UpdateAnswers, RunTypeOK, Answers
  <2> QED
    BY <1>1, <1>8, <2>1, <2>2, <2>3, AnswerType DEF UpdateAnswered
<1>9. CASE UpdateLate(s)
  BY <1>0, <1>1, <1>9, GotoType, AnswerType, NoRunIndex DEF UpdateLate
<1>10. CASE UpdateClosed(s)
  BY <1>0, <1>1, <1>10, AnswerType, NoRunIndex DEF UpdateClosed
<1>11. CASE Refind(s)
  BY <1>0, <1>1, <1>11, RecordAnswerType, AnswerType, NoRunIndex DEF Refind
<1> QED
  BY <1>2, <1>3, <1>4, <1>5, <1>6, <1>7, <1>8, <1>9, <1>10, <1>11 DEF RouteStep

\* The workflow's two ways on.
LEMMA CloseType ==
  ASSUME RunTypeOK, NEW r \in Runs, NEW how \in Closes,
         NEW what \in Outcomes \union {"none", "refused"}, Close(r, how, what)
  PROVE  RunTypeOK'
BY DEF RunTypeOK, Close, Stages

LEMMA DecideType ==
  ASSUME RunTypeOK, NEW r \in Runs, NEW outcome \in Outcomes, Decide(r, outcome),
         live' \in [Runs -> {"none", "begun", "landed"}], tries' = tries,
         zombies' \in [Runs -> Nat], landed' = landed
  PROVE  RunTypeOK'
BY DEF RunTypeOK, Decide, Stages, Outcomes

LEMMA AbandonType ==
  ASSUME RunTypeOK, NEW r \in Runs, Abandon(r)
  PROVE  live' \in [Runs -> {"none", "begun", "landed"}] /\ zombies' \in [Runs -> Nat]
BY DEF RunTypeOK, Abandon

LEMMA WorkflowType ==
  ASSUME TypeOK, NEW r \in Runs, WorkflowStep(r)
  PROVE  TypeOK'
<1> USE DEF TypeOK
<1>0. /\ {"failed", "cancelled", "completed"} \subseteq Closes
      /\ {"failed", "maybe", "nothing", "ok"} \subseteq Outcomes
      /\ {"insert", "prelude", "effect"} \subseteq Stages
  BY DEF Closes, Outcomes, Stages
<1>1. RecordTypeOK' /\ SendTypeOK'
  BY DEF WorkflowStep, CheckRefuses, CheckPasses, InsertReported, PreludeEnds, RunReturns,
     RunRaises, RunLost, FinishReported, rowVars, sendVars, RecordTypeOK, SendTypeOK
<1>2. CASE CheckRefuses(r)
  BY <1>0, <1>1, <1>2, CloseType DEF CheckRefuses
<1>3. CASE CheckPasses(r)
  BY <1>0, <1>1, <1>3 DEF CheckPasses, RunTypeOK
<1>4. CASE InsertReported(r)
  <2>1. CASE At(r, "insert")
    BY <1>0, <1>1, <1>4, <2>1 DEF InsertReported, RunTypeOK, At, Decide
  <2>2. CASE At(r, "insertCancelled")
    BY <1>0, <1>1, <1>4, <2>2, DecideType DEF InsertReported, RunTypeOK, At
  <2> QED
    BY <1>4, <2>1, <2>2 DEF InsertReported
<1>5. CASE PreludeEnds(r)
  <2>1. CASE \E outcome \in {"failed", "maybe"} : Decide(r, outcome)
    BY <1>0, <1>1, <1>5, <2>1, DecideType DEF PreludeEnds, RunTypeOK
  <2> QED
    BY <1>0, <1>1, <1>5, <2>1 DEF PreludeEnds, RunTypeOK
<1>6. CASE RunReturns(r)
  BY <1>0, <1>1, <1>6, DecideType DEF RunReturns, RunTypeOK
<1>7. CASE RunRaises(r)
  <2>1. CASE Decide(r, "failed")
    BY <1>0, <1>1, <1>7, <2>1, DecideType DEF RunRaises, RunTypeOK
  <2> QED
    BY <1>0, <1>1, <1>7, <2>1 DEF RunRaises, RunTypeOK
<1>8. CASE RunLost(r)
  <2>1. CASE Decide(r, "maybe")
    BY <1>0, <1>1, <1>8, <2>1, DecideType, AbandonType DEF RunLost
  <2> QED
    BY <1>0, <1>1, <1>8, <2>1, AbandonType DEF RunLost, RunTypeOK
<1>9. CASE FinishReported(r)
  BY <1>0, <1>1, <1>9, CloseType DEF FinishReported, Ended
<1> QED
  BY <1>2, <1>3, <1>4, <1>5, <1>6, <1>7, <1>8, <1>9 DEF WorkflowStep

LEMMA ActivityType ==
  ASSUME TypeOK, NEW r \in Runs, ActivityStep(r)
  PROVE  TypeOK'
<1> USE DEF TypeOK
<1>1. SendTypeOK'
  BY DEF ActivityStep, BeginAttempt, Land, ZombieLands, InsertCommits, FinishCommits, sendVars,
     SendTypeOK
<1>2. CASE BeginAttempt(r) \/ Land(r) \/ ZombieLands(r)
  BY <1>1, <1>2 DEF BeginAttempt, Land, ZombieLands, RunTypeOK, RecordTypeOK, rowVars
<1>3. CASE InsertCommits(r)
  BY <1>1, <1>3, NextRank DEF InsertCommits, RunTypeOK, RecordTypeOK, runVars
<1>4. CASE FinishCommits(r)
  BY <1>1, <1>4 DEF FinishCommits, RunTypeOK, RecordTypeOK, runVars
<1> QED
  BY <1>2, <1>3, <1>4 DEF ActivityStep

LEMMA OperatorType ==
  ASSUME TypeOK, NEW r \in Runs, OperatorStep(r)
  PROVE  TypeOK'
<1> USE DEF TypeOK
<1>1. RecordTypeOK' /\ SendTypeOK'
  BY DEF OperatorStep, CancelInsert, CancelEffect, Terminate, rowVars, sendVars, RecordTypeOK,
     SendTypeOK
<1>2. CASE CancelInsert(r)
  BY <1>1, <1>2 DEF CancelInsert, RunTypeOK, Stages
<1>3. CASE CancelEffect(r)
  BY <1>1, <1>3, DecideType, AbandonType DEF CancelEffect, Outcomes
<1>4. CASE Terminate(r)
  BY <1>1, <1>4, AbandonType DEF Terminate, RunTypeOK, Closes
<1> QED
  BY <1>2, <1>3, <1>4 DEF OperatorStep

LEMMA RecordType ==
  ASSUME TypeOK, NEW r \in Runs, RecordStep(r)
  PROVE  TypeOK'
BY DEF TypeOK, RecordStep, Prune, Judge, EndLost, RunTypeOK, RecordTypeOK, SendTypeOK, runVars,
   rowVars, sendVars, Outcomes

LEMMA TypeStep == TypeOK /\ [Next]_vars => TypeOK'
<1> SUFFICES ASSUME TypeOK, [Next]_vars PROVE TypeOK'
  OBVIOUS
<1>1. CASE UNCHANGED vars
  BY <1>1 DEF vars, runVars, rowVars, sendVars, TypeOK, RunTypeOK, RecordTypeOK, SendTypeOK
<1> QED
  BY <1>1, RouteType, WorkflowType, ActivityType, OperatorType, RecordType DEF Next

\* Every variable keeps its type: the route, the workflow, its activities, the operator
\* and the reconciler only ever write values of the enumerations.
THEOREM TypeCorrect == Spec => []TypeOK
<1>1. Init => TypeOK
  BY BoundsAssumption DEF Init, TypeOK, RunTypeOK, RecordTypeOK, SendTypeOK, NoRun, Pcs, Stages,
     Closes, Answers, Outcomes
<1> QED
  BY <1>1, TypeStep, PTL DEF Spec

(***************************************************************************)
(* The inductive invariant, in parts: what an execution's stage, its       *)
(* status, its attempts and its row say of one another.                    *)
(***************************************************************************)
\* Executions are started in order, each after the one before it closed short of
\* completing; `over` is where the workflow's own code closed it.
StatusInv(r) ==
  /\ closed[r] = "none" <=> r > latest
  /\ closed[r] = "none" <=> stage[r] = "none"
  /\ r < latest => Reusable(r)
  /\ stage[r] = "over" <=> closed[r] \in {"completed", "failed", "cancelled"}

\* The effect begins only past the record, and an abandoned attempt lands at most once.
AttemptInv(r) ==
  /\ tries[r] > 0 => stage[r] \in {"effect", "finish", "over"} /\ rank[r] > 0
  /\ landed[r] + zombies[r] + (IF live[r] = "begun" THEN 1 ELSE 0) <= tries[r]
  /\ tries[r] <= RunAttempts
  /\ live[r] # "none" => At(r, "effect")
  /\ live[r] = "landed" => landed[r] > 0

\* The outcome, once there is one, and what the Update tells.
OutcomeInv(r) ==
  /\ decided[r] # "none" => stage[r] \in {"finish", "over"}
  /\ decided[r] # "lost"
  /\ decided[r] = "nothing" => tries[r] = 0
  /\ decided[r] = "ok" => landed[r] > 0
  /\ told[r] = "refused" <=> closed[r] \in {"failed", "cancelled"}
  /\ closed[r] = "completed" => told[r] = decided[r] /\ decided[r] # "none"
  /\ closed[r] \in {"none", "open", "terminated"} => told[r] = "none"

\* The row: written only past the insert, ended by its own execution or, once that was
\* terminated, by a reconciler.
RowInv(r) ==
  /\ rank[r] > 0 => stage[r] \notin {"none", "check"}
  /\ stage[r] \in {"prelude", "effect", "finish"} => rank[r] > 0
  /\ closed[r] \in {"failed", "cancelled"} => rank[r] = 0
  /\ closed[r] = "completed" => rank[r] > 0 /\ row[r] \in {decided[r], "absent"}
  /\ rank[r] = 0 => row[r] = "absent"
  /\ Open(r) /\ rank[r] > 0 => row[r] # "absent"
  /\ row[r] \in Outcomes \ {"lost"} => row[r] = decided[r]
  /\ row[r] = "lost" => closed[r] = "terminated"
  /\ r \in judged => ~Open(r) /\ rank[r] > 0

RunInv(r) == StatusInv(r) /\ AttemptInv(r) /\ OutcomeInv(r) /\ RowInv(r)
IInv == \A r \in Runs : RunInv(r)

\* A step that leaves an execution, its row and the judged rows alone keeps its invariant.
LEMMA Frame ==
  ASSUME NEW q \in Runs, RunInv(q), latest' = latest, stage'[q] = stage[q],
         closed'[q] = closed[q], live'[q] = live[q], tries'[q] = tries[q],
         zombies'[q] = zombies[q], landed'[q] = landed[q], decided'[q] = decided[q],
         told'[q] = told[q], row'[q] = row[q], rank'[q] = rank[q],
         q \in judged' => q \in judged
  PROVE  RunInv(q)'
BY DEF RunInv, StatusInv, AttemptInv, OutcomeInv, RowInv, Reusable, At, Open

LEMMA InitInv == Init => IInv
BY BoundsAssumption, KindAssumption DEF Init, IInv, RunInv, StatusInv, AttemptInv, OutcomeInv,
   RowInv, Reusable, At, Open, Runs, NoRun, Outcomes

LEMMA RouteInv ==
  ASSUME TypeOK, IInv, NEW s \in Sends, RouteStep(s)
  PROVE  IInv'
<1>1. CASE UNCHANGED <<runVars, rowVars, judged>>
  <2> SUFFICES ASSUME NEW q \in Runs PROVE RunInv(q)'
    BY DEF IInv
  <2> QED
    BY <1>1, Frame DEF IInv, runVars, rowVars
<1>2. CASE Start(s) /\ ~UNCHANGED runVars
  <2>1. /\ CanStart
        /\ latest < MaxRuns
        /\ latest' = latest + 1
        /\ stage' = [stage EXCEPT ![latest + 1] = "check"]
        /\ closed' = [closed EXCEPT ![latest + 1] = "open"]
        /\ UNCHANGED <<live, tries, zombies, landed, decided, told>>
        /\ UNCHANGED <<row, rank, judged>>
    BY <1>2 DEF Start, StartOrAttach, rowVars
  <2>2. latest \in Nat /\ latest + 1 \in Runs /\ MaxRuns \in Nat
    BY <2>1, BoundsAssumption DEF TypeOK, RunTypeOK, Runs
  <2> SUFFICES ASSUME NEW q \in Runs PROVE RunInv(q)'
    BY DEF IInv
  <2>3. q \in Nat /\ RunInv(q)
    BY BoundsAssumption DEF Runs, IInv
  <2>4. CASE q = latest + 1
    BY <2>1, <2>2, <2>3, <2>4, KindAssumption DEF TypeOK, RunTypeOK, RecordTypeOK, RunInv, StatusInv,
       AttemptInv, OutcomeInv, RowInv, Reusable, At, Open, Stages, Closes
  <2>5. CASE q # latest + 1
    <3>1. /\ stage'[q] = stage[q] /\ closed'[q] = closed[q]
      BY <2>1, <2>5 DEF TypeOK, RunTypeOK
    <3>2. StatusInv(q)'
      BY <2>1, <2>2, <2>3, <2>5, <3>1 DEF RunInv, StatusInv, CanStart, Reusable
    <3> QED
      BY <2>1, <2>3, <3>1, <3>2 DEF RunInv, AttemptInv, OutcomeInv, RowInv, At, Open
  <2> QED
    BY <2>4, <2>5
<1> QED
  BY <1>1, <1>2 DEF RouteStep, Find, Describe, BeforeStart, Unreachable, Start, StartRefused,
     UpdateAnswered, UpdateLate, UpdateClosed, Refind

\* A step of one execution: only its own invariant needs an argument.
LEMMA OwnStep ==
  ASSUME TypeOK, IInv, NEW r \in Runs,
         WorkflowStep(r) \/ ActivityStep(r) \/ OperatorStep(r) \/ RecordStep(r),
         RunInv(r)'
  PROVE  IInv'
<1> SUFFICES ASSUME NEW q \in Runs, q # r PROVE RunInv(q)'
  BY DEF IInv
<1>1. CASE WorkflowStep(r)
  BY <1>1, Frame DEF WorkflowStep, CheckRefuses, CheckPasses, InsertReported, PreludeEnds,
     RunReturns, RunRaises, RunLost, FinishReported, Close, Decide, Abandon, rowVars, TypeOK,
     RunTypeOK, IInv
<1>2. CASE ActivityStep(r)
  BY <1>2, Frame DEF ActivityStep, BeginAttempt, Land, ZombieLands, InsertCommits, FinishCommits,
     runVars, rowVars, TypeOK, RunTypeOK, RecordTypeOK, IInv
<1>3. CASE OperatorStep(r)
  BY <1>3, Frame DEF OperatorStep, CancelInsert, CancelEffect, Terminate, Decide, Abandon,
     rowVars, TypeOK, RunTypeOK, IInv
<1>4. CASE RecordStep(r)
  BY <1>4, Frame DEF RecordStep, Prune, Judge, EndLost, runVars, rowVars, TypeOK, RecordTypeOK,
     IInv
<1> QED
  BY <1>1, <1>2, <1>3, <1>4

LEMMA WorkflowInv ==
  ASSUME TypeOK, IInv, NEW r \in Runs, WorkflowStep(r)
  PROVE  IInv'
<1> USE DEF Runs
<1> r \in Runs /\ r \in Nat /\ RunInv(r)
  BY BoundsAssumption DEF IInv
<1> HIDE DEF Runs
<1> SUFFICES RunInv(r)'
  BY OwnStep
<1> USE KindAssumption DEF TypeOK, RunTypeOK, RecordTypeOK, RunInv, StatusInv, AttemptInv, OutcomeInv,
        RowInv, Reusable, At, Open
<1>1. CASE CheckRefuses(r)
  BY <1>1 DEF CheckRefuses, Close, rowVars
<1>2. CASE CheckPasses(r)
  BY <1>2 DEF CheckPasses, rowVars
<1>3. CASE InsertReported(r)
  BY <1>3 DEF InsertReported, Decide, rowVars, Outcomes
<1>4. CASE PreludeEnds(r)
  BY <1>4 DEF PreludeEnds, Decide, rowVars, Outcomes
<1>5. CASE RunReturns(r)
  BY <1>5 DEF RunReturns, Decide, rowVars, Outcomes
<1>6. CASE RunRaises(r)
  BY <1>6 DEF RunRaises, Decide, rowVars, Outcomes
<1>7. CASE RunLost(r)
  BY <1>7 DEF RunLost, Abandon, Decide, rowVars, Outcomes
<1>8. CASE FinishReported(r)
  BY <1>8 DEF FinishReported, Close, Ended, rowVars, Outcomes
<1> QED
  BY <1>1, <1>2, <1>3, <1>4, <1>5, <1>6, <1>7, <1>8 DEF WorkflowStep

LEMMA ActivityInv ==
  ASSUME TypeOK, IInv, NEW r \in Runs, ActivityStep(r)
  PROVE  IInv'
<1> USE DEF Runs
<1> r \in Runs /\ r \in Nat /\ RunInv(r)
  BY BoundsAssumption DEF IInv
<1> HIDE DEF Runs
<1> SUFFICES RunInv(r)'
  BY OwnStep
<1> USE KindAssumption DEF TypeOK, RunTypeOK, RecordTypeOK, RunInv, StatusInv, AttemptInv, OutcomeInv,
        RowInv, Reusable, At, Open
<1>1. CASE BeginAttempt(r)
  BY <1>1 DEF BeginAttempt, rowVars
<1>2. CASE Land(r)
  BY <1>2 DEF Land, rowVars
<1>3. CASE ZombieLands(r)
  BY <1>3 DEF ZombieLands, rowVars
<1>4. CASE InsertCommits(r)
  <2>1. rank'[r] > 0 /\ row'[r] = "running" /\ rank[r] = 0
    BY <1>4, NextRank DEF InsertCommits
  <2> QED
    BY <1>4, <2>1 DEF InsertCommits, runVars, Outcomes
<1>5. CASE FinishCommits(r)
  BY <1>5 DEF FinishCommits, runVars, Outcomes
<1> QED
  BY <1>1, <1>2, <1>3, <1>4, <1>5 DEF ActivityStep

LEMMA OperatorInv ==
  ASSUME TypeOK, IInv, NEW r \in Runs, OperatorStep(r)
  PROVE  IInv'
<1> USE DEF Runs
<1> r \in Runs /\ r \in Nat /\ RunInv(r)
  BY BoundsAssumption DEF IInv
<1> HIDE DEF Runs
<1> SUFFICES RunInv(r)'
  BY OwnStep
<1> USE KindAssumption DEF TypeOK, RunTypeOK, RecordTypeOK, RunInv, StatusInv, AttemptInv, OutcomeInv,
        RowInv, Reusable, At, Open
<1>1. CASE CancelInsert(r)
  BY <1>1 DEF CancelInsert, rowVars
<1>2. CASE CancelEffect(r)
  BY <1>2 DEF CancelEffect, Abandon, Decide, rowVars, Outcomes
<1>3. CASE Terminate(r)
  BY <1>3 DEF Terminate, Abandon, rowVars
<1> QED
  BY <1>1, <1>2, <1>3 DEF OperatorStep

LEMMA RecordInv ==
  ASSUME TypeOK, IInv, NEW r \in Runs, RecordStep(r)
  PROVE  IInv'
<1> USE DEF Runs
<1> r \in Runs /\ r \in Nat /\ RunInv(r)
  BY BoundsAssumption DEF IInv
<1> HIDE DEF Runs
<1> SUFFICES RunInv(r)'
  BY OwnStep
<1> USE KindAssumption DEF TypeOK, RunTypeOK, RecordTypeOK, RunInv, StatusInv, AttemptInv, OutcomeInv,
        RowInv, Reusable, At, Open
<1>1. CASE Prune(r)
  BY <1>1 DEF Prune, Ended, runVars, Outcomes
<1>2. CASE Judge(r)
  <2>1. row[r] = "running" /\ closed[r] # "open" /\ rank[r] > 0
    BY <1>2 DEF Judge
  <2> QED
    BY <1>2, <2>1 DEF Judge, runVars, rowVars, Outcomes
<1>3. CASE EndLost(r)
  <2>1. row[r] = "running" => closed[r] = "terminated"
    BY <1>3 DEF EndLost, Closes, Outcomes
  <2> QED
    BY <1>3, <2>1 DEF EndLost, runVars, Outcomes
<1> QED
  BY <1>1, <1>2, <1>3 DEF RecordStep

LEMMA StepInv == TypeOK /\ IInv /\ [Next]_vars => IInv'
<1> SUFFICES ASSUME TypeOK, IInv, [Next]_vars PROVE IInv'
  OBVIOUS
<1>1. CASE UNCHANGED vars
  <2> SUFFICES ASSUME NEW q \in Runs PROVE RunInv(q)'
    BY DEF IInv
  <2> QED
    BY <1>1, Frame DEF IInv, vars, runVars, rowVars
<1> QED
  BY <1>1, RouteInv, WorkflowInv, ActivityInv, OperatorInv, RecordInv DEF Next

\* The inductive invariant holds of every reachable state.
THEOREM Invariance == Spec => [](TypeOK /\ IInv)
<1>1. Init => TypeOK
  BY BoundsAssumption DEF Init, TypeOK, RunTypeOK, RecordTypeOK, SendTypeOK, NoRun, Pcs, Stages,
     Closes, Answers, Outcomes
<1> QED
  BY <1>1, InitInv, TypeStep, StepInv, PTL DEF Spec

(***************************************************************************)
(* What follows from it.                                                   *)
(***************************************************************************)
\* A repeat never repeats the effect, but for an operator's terminate: the policies of
\* start_command, the record read first and the workflow's rule together.
THEOREM EffectOnceHolds == Spec => []EffectOnce
<1>1. TypeOK /\ IInv => EffectOnce
  <2> SUFFICES ASSUME TypeOK, IInv, NEW r \in Runs, NEW q \in Runs, r < q,
                      tries[r] > 0, tries[q] > 0
               PROVE  closed[r] = "terminated"
    BY DEF EffectOnce
  <2>1. q <= latest
    <3>1. ~(q > latest)
      BY DEF IInv, RunInv, StatusInv, AttemptInv
    <3> QED
      BY <3>1, BoundsAssumption DEF TypeOK, RunTypeOK, Runs
  <2>2. Reusable(r)
    BY <2>1, BoundsAssumption DEF IInv, RunInv, StatusInv, TypeOK, RunTypeOK, Runs
  <2> QED
    BY <2>2 DEF IInv, RunInv, AttemptInv, RowInv, Reusable
<1> QED
  BY <1>1, Invariance, PTL

\* An execution's effect happens at most run_attempts times, late attempts included, and
\* a recorded or told success did happen.
THEOREM AttemptOnceHolds == Spec => []AttemptOnce
<1>1. TypeOK /\ IInv => AttemptOnce
  BY KindAssumption DEF AttemptOnce, IInv, RunInv, AttemptInv, OutcomeInv, RowInv, TypeOK,
     RunTypeOK, RecordTypeOK, Outcomes, Closes
<1> QED
  BY <1>1, Invariance, PTL

\* Whoever is told that nothing was done is told the truth, for good.
THEOREM NothingDoneHolds == Spec => []NothingDoneIsTrue
<1>1. TypeOK /\ IInv => NothingDoneIsTrue
  BY DEF NothingDoneIsTrue, IInv, RunInv, StatusInv, AttemptInv, OutcomeInv, RowInv, TypeOK,
     RunTypeOK, RecordTypeOK, Outcomes, Closes
<1> QED
  BY <1>1, Invariance, PTL

\* "A record means the workflow completes": no execution fails once its row is written.
THEOREM RecordMeansCompletedHolds == Spec => []RecordMeansCompleted
<1>1. TypeOK /\ IInv => RecordMeansCompleted
  BY DEF RecordMeansCompleted, IInv, RunInv, StatusInv, OutcomeInv, RowInv
<1> QED
  BY <1>1, Invariance, PTL

\* The reconciler's check-then-end never calls a live operation lost.
THEOREM LostOnlyIfClosedHolds == Spec => []LostOnlyIfClosed
<1>1. IInv => LostOnlyIfClosed
  BY DEF LostOnlyIfClosed, IInv, RunInv, RowInv
<1> QED
  BY <1>1, Invariance, PTL

\* A recorded outcome is final, whoever writes later.
THEOREM RecordIsFinalHolds == Spec => RecordIsFinal
<1>1. TypeOK /\ IInv /\ [Next]_vars =>
        [\A r \in Runs : Ended(r) => row'[r] \in {row[r], "absent"}]_vars
  <2> SUFFICES ASSUME TypeOK, IInv, Next, NEW r \in Runs, Ended(r)
               PROVE  row'[r] \in {row[r], "absent"}
    OBVIOUS
  <2>1. CASE UNCHANGED rowVars
    BY <2>1 DEF rowVars
  <2>2. ASSUME NEW q \in Runs,
               InsertCommits(q) \/ FinishCommits(q) \/ Prune(q) \/ EndLost(q) \/ Judge(q)
        PROVE  row'[r] \in {row[r], "absent"}
    BY <2>2 DEF InsertCommits, FinishCommits, Prune, EndLost, Judge, Ended, TypeOK,
       RecordTypeOK, IInv, RunInv, RowInv, Outcomes, rowVars
  <2>3. ASSUME NEW s \in Sends, RouteStep(s) PROVE UNCHANGED rowVars
    BY <2>3 DEF RouteStep, Find, Describe, BeforeStart, Unreachable, Start, StartRefused,
       UpdateAnswered, UpdateLate, UpdateClosed, Refind, rowVars
  <2>4. ASSUME NEW q \in Runs, WorkflowStep(q) \/ OperatorStep(q) PROVE UNCHANGED rowVars
    BY <2>4 DEF WorkflowStep, CheckRefuses, CheckPasses, InsertReported, PreludeEnds, RunReturns,
       RunRaises, RunLost, FinishReported, OperatorStep, CancelInsert, CancelEffect, Terminate
  <2>5. ASSUME NEW q \in Runs, BeginAttempt(q) \/ Land(q) \/ ZombieLands(q) PROVE UNCHANGED rowVars
    BY <2>5 DEF BeginAttempt, Land, ZombieLands
  <2> QED
    BY <2>1, <2>2, <2>3, <2>4, <2>5 DEF Next, ActivityStep, RecordStep
<1> QED
  BY <1>1, Invariance, PTL DEF Spec, RecordIsFinal

(***************************************************************************)
(* What the sends were answered.  A final answer is what its execution's   *)
(* row said, which nothing rewrites and which the execution tells when it  *)
(* completes; so two sends that read one execution at different times, one *)
(* of them perhaps after a prune, read the same.                           *)
(***************************************************************************)
AnswerInv ==
  \A s \in Sends : FinalAnswer(s) =>
    \E r \in Runs :
      /\ on[s] = r /\ rank[r] > 0
      /\ row[r] \in {answer[s], "absent"}
      /\ closed[r] = "completed" => told[r] = answer[s]

AgreeInv ==
  \A s, t \in Sends : FinalAnswer(s) /\ FinalAnswer(t) /\ on[s] = on[t] => answer[s] = answer[t]

\* Only a completed execution refuses a start.
RefusedInv ==
  \A s \in Sends : pc[s] = "refindClosed" => \E r \in Runs : closed[r] = "completed"

SendInv == AnswerInv /\ AgreeInv /\ RefusedInv /\ GoneOnlyIfPruned

\* Of the rows that are there, one is the newest.
LEMMA NewestExists ==
  ASSUME RecordTypeOK, NEW r \in Runs, row[r] # "absent"
  PROVE  Newest # {}
<1> DEFINE There == {q \in Runs : row[q] # "absent"}
           Later(q) == {x \in There : rank[x] > rank[q]}
           T == {Later(q) : q \in There}
<1>1. IsFiniteSet(Runs)
  BY BoundsAssumption, FS_Interval DEF Runs
<1>2. T \subseteq FiniteSubsetsOf(Runs) /\ T # {}
  <2>1. ASSUME NEW q \in There PROVE Later(q) \in FiniteSubsetsOf(Runs)
    <3>1. Later(q) \in SUBSET Runs
      OBVIOUS
    <3>2. IsFiniteSet(Later(q))
      BY <1>1, <3>1, FS_Subset
    <3> QED
      BY <3>1, <3>2 DEF FiniteSubsetsOf
  <2> QED
    BY <2>1
<1>3. \E X \in T : \A Y \in T : ~(<<Y, X>> \in StrictSubsetOrdering(Runs))
  <2>1. IsWellFoundedOn(StrictSubsetOrdering(Runs), FiniteSubsetsOf(Runs))
    BY FS_StrictSubsetOrderingWellFounded
  <2> HIDE DEF T
  <2> QED
    BY <1>2, <2>1, WFMin
<1>4. PICK q \in There : \A x \in There : ~(<<Later(x), Later(q)>> \in StrictSubsetOrdering(Runs))
  BY <1>3
<1>5. ASSUME NEW x \in There, rank[x] > rank[q] PROVE FALSE
  <2>1. rank[x] \in Nat /\ rank[q] \in Nat
    BY DEF RecordTypeOK
  <2>2. x \in Later(q) /\ x \notin Later(x)
    BY <1>5, <2>1
  <2>3. Later(x) \subseteq Later(q)
    BY <1>5, <2>1 DEF RecordTypeOK
  <2>4. Later(x) \in SUBSET Runs /\ Later(q) \in SUBSET Runs
    OBVIOUS
  <2>5. <<Later(x), Later(q)>> \in StrictSubsetOrdering(Runs)
    <3> HIDE DEF Later
    <3> QED
      BY <2>2, <2>3, <2>4 DEF StrictSubsetOrdering
  <2> QED
    BY <1>4, <2>5
<1>6. q \in Newest
  <2>1. \A x \in There : rank[x] <= rank[q]
    BY <1>5 DEF RecordTypeOK
  <2> QED
    BY <2>1 DEF Newest
<1> QED
  BY <1>6

\* What no step takes back: a row's rank and outcome, its being pruned, and what a
\* completed execution told, which is what its row said when it completed.
LEMMA Lasting ==
  ASSUME TypeOK, IInv, [Next]_vars, NEW r \in Runs
  PROVE  /\ rank[r] > 0 => rank'[r] > 0
         /\ rank[r] > 0 /\ row[r] \in Outcomes => row'[r] \in {row[r], "absent"}
         /\ rank[r] > 0 /\ row[r] = "absent" => row'[r] = "absent"
         /\ closed[r] = "completed" => closed'[r] = "completed" /\ told'[r] = told[r]
         /\ closed'[r] = "completed" /\ closed[r] # "completed" =>
               row[r] \in Outcomes /\ told'[r] = row[r]
<1>1. RunInv(r)
  BY DEF IInv
<1>2. CASE UNCHANGED vars
  BY <1>2 DEF vars, runVars, rowVars
<1>3. ASSUME NEW s \in Sends, RouteStep(s)
      PROVE  /\ UNCHANGED <<row, rank, told>>
             /\ closed'[r] = closed[r] \/ (closed[r] = "none" /\ closed'[r] = "open")
  <2>1. CASE UNCHANGED <<runVars, rowVars>>
    BY <2>1 DEF runVars, rowVars
  <2>2. CASE Start(s) /\ ~UNCHANGED runVars
    <3>1. /\ closed' = [closed EXCEPT ![latest + 1] = "open"] /\ latest < MaxRuns
          /\ UNCHANGED <<row, rank, told>>
      BY <2>2 DEF Start, StartOrAttach, rowVars
    <3>2. latest \in Nat /\ latest + 1 \in Runs /\ latest + 1 > latest
      BY <3>1, BoundsAssumption DEF TypeOK, RunTypeOK, Runs
    <3>3. closed[latest + 1] = "none"
      BY <3>2 DEF IInv, RunInv, StatusInv
    <3> QED
      BY <3>1, <3>2, <3>3 DEF TypeOK, RunTypeOK
  <2> QED
    BY <1>3, <2>1, <2>2 DEF RouteStep, Find, Describe, BeforeStart, Unreachable, Start,
       StartRefused, UpdateAnswered, UpdateLate, UpdateClosed, Refind
<1>4. ASSUME NEW q \in Runs, WorkflowStep(q)
      PROVE  /\ UNCHANGED <<row, rank>>
             /\ closed[r] # "open" => closed'[r] = closed[r] /\ told'[r] = told[r]
             /\ closed'[r] = "completed" /\ closed[r] # "completed" =>
                   row[r] \in Outcomes /\ told'[r] = row[r]
  BY <1>4 DEF WorkflowStep, CheckRefuses, CheckPasses, InsertReported, PreludeEnds, RunReturns,
     RunRaises, RunLost, FinishReported, Close, Decide, At, Open, Ended, rowVars, TypeOK, RunTypeOK
<1>5. ASSUME NEW q \in Runs, OperatorStep(q)
      PROVE  /\ UNCHANGED <<row, rank, told>>
             /\ closed'[r] = closed[r] \/ (closed[r] = "open" /\ closed'[r] = "terminated")
  BY <1>5 DEF OperatorStep, CancelInsert, CancelEffect, Terminate, Decide, At, Open, rowVars,
     TypeOK, RunTypeOK
<1>6. ASSUME NEW q \in Runs, BeginAttempt(q) \/ Land(q) \/ ZombieLands(q)
      PROVE  UNCHANGED <<row, rank, told, closed>>
  BY <1>6 DEF BeginAttempt, Land, ZombieLands, rowVars
<1>7. ASSUME NEW q \in Runs, InsertCommits(q)
      PROVE  /\ UNCHANGED <<told, closed>>
             /\ rank[r] > 0 => row'[r] = row[r] /\ rank'[r] = rank[r]
  BY <1>7 DEF InsertCommits, runVars, TypeOK, RecordTypeOK
<1>8. ASSUME NEW q \in Runs, FinishCommits(q) \/ RecordStep(q)
      PROVE  /\ UNCHANGED <<told, closed, rank>>
             /\ row[r] # "running" => row'[r] \in {row[r], "absent"}
  BY <1>8 DEF FinishCommits, RecordStep, Prune, Judge, EndLost, runVars, rowVars, TypeOK,
     RecordTypeOK
<1>9. "absent" # "running" /\ "running" \notin Outcomes
  BY DEF Outcomes
<1> QED
  BY <1>2, <1>3, <1>4, <1>5, <1>6, <1>7, <1>8, <1>9 DEF Next, ActivityStep

\* A step that answers no send keeps what the sends know.
LEMMA SendFrame ==
  ASSUME TypeOK, IInv, SendInv, [Next]_vars, UNCHANGED sendVars
  PROVE  SendInv'
<1>1. UNCHANGED <<pc, on, answer>>
  BY DEF sendVars
<1>2. \A s \in Sends : FinalAnswer(s)' <=> FinalAnswer(s)
  BY <1>1 DEF FinalAnswer
<1>3. AnswerInv'
  <2> SUFFICES ASSUME NEW s \in Sends, FinalAnswer(s)
               PROVE  \E r \in Runs : /\ on[s] = r /\ rank'[r] > 0
                                      /\ row'[r] \in {answer[s], "absent"}
                                      /\ closed'[r] = "completed" => told'[r] = answer[s]
    BY <1>1, <1>2 DEF AnswerInv
  <2>1. PICK r \in Runs : /\ on[s] = r /\ rank[r] > 0
                          /\ row[r] \in {answer[s], "absent"}
                          /\ closed[r] = "completed" => told[r] = answer[s]
    BY DEF SendInv, AnswerInv
  <2>2. answer[s] \in Outcomes /\ "absent" \notin Outcomes
    BY DEF FinalAnswer, Outcomes
  <2> QED
    BY <2>1, <2>2, Lasting
<1>4. AgreeInv'
  BY <1>1, <1>2 DEF AgreeInv, SendInv
<1>5. RefusedInv'
  BY <1>1, Lasting DEF RefusedInv, SendInv
<1>6. GoneOnlyIfPruned'
  BY <1>1, Lasting DEF GoneOnlyIfPruned, SendInv
<1> QED
  BY <1>3, <1>4, <1>5, <1>6 DEF SendInv

\* A final answer newly given is what the row says, or what a completed execution told.
LEMMA NewAnswer ==
  ASSUME TypeOK, IInv, SendInv, NEW s \in Sends, NEW r \in Runs, NEW a \in Answers, Answer(s, r, a),
         UNCHANGED <<runVars, rowVars>>,
         row[r] = a \/ told[r] = a \/ a \in {"running", "refused"}, a # "gone", pc[s] # "answered"
  PROVE  SendInv'
<1>1. /\ pc' = [pc EXCEPT ![s] = "answered"]
      /\ on' = [on EXCEPT ![s] = r]
      /\ answer' = [answer EXCEPT ![s] = a]
      /\ UNCHANGED <<row, rank, told, closed>>
  BY DEF Answer, runVars, rowVars
<1>2. /\ pc'[s] = "answered" /\ on'[s] = r /\ answer'[s] = a
      /\ \A t \in Sends \ {s} : pc'[t] = pc[t] /\ on'[t] = on[t] /\ answer'[t] = answer[t]
  BY <1>1 DEF TypeOK, SendTypeOK
<1>3. RunInv(r)
  BY DEF IInv
<1>4. a \in Outcomes => /\ rank[r] > 0
                        /\ row[r] \in {a, "absent"}
                        /\ closed[r] = "completed" => told[r] = a
  <2> SUFFICES ASSUME a \in Outcomes
               PROVE  /\ rank[r] > 0
                      /\ row[r] \in {a, "absent"}
                      /\ closed[r] = "completed" => told[r] = a
    OBVIOUS
  <2>1. CASE row[r] = a
    BY <1>3, <2>1 DEF RunInv, OutcomeInv, RowInv, Outcomes, TypeOK, RecordTypeOK
  <2>2. CASE told[r] = a
    BY <1>3, <2>2 DEF RunInv, OutcomeInv, RowInv, Outcomes, TypeOK, RunTypeOK, Closes
  <2> QED
    BY <2>1, <2>2 DEF Outcomes
<1>5. \A t \in Sends \ {s} : FinalAnswer(t)' <=> FinalAnswer(t)
  BY <1>2 DEF FinalAnswer
<1>6. FinalAnswer(s)' => a \in Outcomes
  BY <1>2 DEF FinalAnswer
<1>7. AnswerInv'
  <2> SUFFICES ASSUME NEW t \in Sends, FinalAnswer(t)'
               PROVE  \E q \in Runs : /\ on'[t] = q /\ rank[q] > 0
                                      /\ row[q] \in {answer'[t], "absent"}
                                      /\ closed[q] = "completed" => told[q] = answer'[t]
    BY <1>1 DEF AnswerInv
  <2>1. CASE t = s
    BY <1>2, <1>4, <1>6, <2>1
  <2>2. CASE t # s
    BY <1>2, <1>5, <2>2 DEF SendInv, AnswerInv
  <2> QED
    BY <2>1, <2>2
\* The other send knows the row as it is, or what the execution told.
<1>8. ASSUME NEW t \in Sends \ {s}, FinalAnswer(t), on[t] = r, a \in Outcomes
      PROVE  answer[t] = a
  <2>1. /\ row[r] \in {answer[t], "absent"}
        /\ closed[r] = "completed" => told[r] = answer[t]
    BY <1>8 DEF SendInv, AnswerInv
  <2>2. row[r] = a => answer[t] = a
    BY <1>8, <2>1 DEF Outcomes
  <2>3. told[r] = a => closed[r] = "completed"
    BY <1>3, <1>8 DEF RunInv, OutcomeInv, Outcomes, TypeOK, RunTypeOK, Closes
  <2> QED
    BY <1>8, <2>1, <2>2, <2>3 DEF Outcomes
<1>9. AgreeInv'
  <2> SUFFICES ASSUME NEW x \in Sends, NEW y \in Sends, FinalAnswer(x)', FinalAnswer(y)',
                      on'[x] = on'[y]
               PROVE  answer'[x] = answer'[y]
    BY DEF AgreeInv
  <2>1. CASE x = s /\ y # s
    BY <1>2, <1>5, <1>6, <1>8, <2>1
  <2>2. CASE x # s /\ y = s
    BY <1>2, <1>5, <1>6, <1>8, <2>2
  <2>3. CASE x # s /\ y # s
    BY <1>2, <1>5, <2>3 DEF SendInv, AgreeInv
  <2> QED
    BY <2>1, <2>2, <2>3
<1>10. RefusedInv'
  BY <1>1, <1>2 DEF RefusedInv, SendInv
<1>11. GoneOnlyIfPruned'
  BY <1>1, <1>2 DEF GoneOnlyIfPruned, SendInv
<1> QED
  BY <1>7, <1>9, <1>10, <1>11 DEF SendInv

\* An answer that is no outcome, and a step to another place, leave the others alone.
LEMMA OtherAnswer ==
  ASSUME TypeOK, IInv, SendInv, [Next]_vars, NEW s \in Sends,
         pc' \in [Sends -> Pcs], on' \in [Sends -> 0..MaxRuns], answer' \in [Sends -> Answers],
         \A t \in Sends \ {s} : pc'[t] = pc[t] /\ on'[t] = on[t] /\ answer'[t] = answer[t],
         ~FinalAnswer(s)',
         pc'[s] = "refindClosed" => \E r \in Runs : closed[r] = "completed",
         answer'[s] = "gone" => answer[s] = "gone" \/
             \E r \in Runs : closed[r] = "completed" /\ row[r] = "absent" /\ rank[r] > 0
  PROVE  SendInv'
<1>1. \A t \in Sends \ {s} : FinalAnswer(t)' <=> FinalAnswer(t)
  BY DEF FinalAnswer
<1>2. AnswerInv'
  <2> SUFFICES ASSUME NEW t \in Sends \ {s}, FinalAnswer(t)
               PROVE  \E r \in Runs : /\ on[t] = r /\ rank'[r] > 0
                                      /\ row'[r] \in {answer[t], "absent"}
                                      /\ closed'[r] = "completed" => told'[r] = answer[t]
    BY <1>1 DEF AnswerInv
  <2>1. PICK r \in Runs : /\ on[t] = r /\ rank[r] > 0
                          /\ row[r] \in {answer[t], "absent"}
                          /\ closed[r] = "completed" => told[r] = answer[t]
    BY DEF SendInv, AnswerInv
  <2>2. answer[t] \in Outcomes /\ "absent" \notin Outcomes
    BY DEF FinalAnswer, Outcomes
  <2> QED
    BY <2>1, <2>2, Lasting
<1>3. AgreeInv'
  BY <1>1 DEF AgreeInv, SendInv
<1>4. RefusedInv'
  BY Lasting DEF RefusedInv, SendInv
<1>5. GoneOnlyIfPruned'
  <2> SUFFICES ASSUME NEW t \in Sends, answer'[t] = "gone"
               PROVE  \E r \in Runs : closed'[r] = "completed" /\ row'[r] = "absent" /\ rank'[r] > 0
    BY DEF GoneOnlyIfPruned
  <2>1. \E r \in Runs : closed[r] = "completed" /\ row[r] = "absent" /\ rank[r] > 0
    BY DEF GoneOnlyIfPruned, SendInv
  <2> QED
    BY <2>1, Lasting
<1> QED
  BY <1>2, <1>3, <1>4, <1>5 DEF SendInv

LEMMA PlainAnswer ==
  ASSUME TypeOK, IInv, SendInv, [Next]_vars, NEW s \in Sends, NEW a \in {"gated", "again"},
         Answer(s, NoRun, a)
  PROVE  SendInv'
<1>1. pc' \in [Sends -> Pcs] /\ on' \in [Sends -> 0..MaxRuns] /\ answer' \in [Sends -> Answers]
  BY NoRunIndex DEF Answer, TypeOK, SendTypeOK, Pcs, Answers
<1>2. /\ \A t \in Sends \ {s} : pc'[t] = pc[t] /\ on'[t] = on[t] /\ answer'[t] = answer[t]
      /\ pc'[s] = "answered" /\ answer'[s] = a
  BY DEF Answer, TypeOK, SendTypeOK
<1>3. ~FinalAnswer(s)'
  BY <1>2 DEF FinalAnswer, Outcomes
<1> QED
  BY <1>1, <1>2, <1>3, OtherAnswer

LEMMA PlainGoto ==
  ASSUME TypeOK, IInv, SendInv, [Next]_vars, NEW s \in Sends, NEW where \in Pcs \ {"answered"},
         Goto(s, where), where = "refindClosed" => \E r \in Runs : closed[r] = "completed"
  PROVE  SendInv'
<1>1. pc' \in [Sends -> Pcs] /\ on' \in [Sends -> 0..MaxRuns] /\ answer' \in [Sends -> Answers]
  BY DEF Goto, TypeOK, SendTypeOK
<1>2. /\ \A t \in Sends \ {s} : pc'[t] = pc[t] /\ on'[t] = on[t] /\ answer'[t] = answer[t]
      /\ pc'[s] = where /\ answer'[s] = answer[s]
  BY DEF Goto, TypeOK, SendTypeOK
<1>3. ~FinalAnswer(s)'
  BY <1>2 DEF FinalAnswer
<1> QED
  BY <1>1, <1>2, <1>3, OtherAnswer

LEMMA RecordAnswer ==
  ASSUME TypeOK, IInv, SendInv, NEW s \in Sends, AnswerFromRecord(s), pc[s] # "answered",
         UNCHANGED <<runVars, rowVars>>
  PROVE  SendInv'
<1>1. PICK r \in Newest : Answer(s, r, row[r])
  BY DEF AnswerFromRecord
<1>2. r \in Runs /\ row[r] \in Answers /\ row[r] # "gone"
  BY DEF Newest, TypeOK, RecordTypeOK, Answers, Outcomes
<1> QED
  BY <1>1, <1>2, NewAnswer

LEMMA RouteAnswers ==
  ASSUME TypeOK, IInv, SendInv, NEW s \in Sends, RouteStep(s)
  PROVE  SendInv'
<1>0. /\ [Next]_vars
      /\ {"gate", "ask", "start", "refindClosed", "refindLate"} \subseteq Pcs \ {"answered"}
  BY DEF Next, Pcs
<1>1. CASE Find(s)
  <2>1. UNCHANGED <<runVars, rowVars>> /\ pc[s] = "idle"
    BY <1>1 DEF Find
  <2>2. CASE AnswerFromRecord(s)
    BY <2>1, <2>2, RecordAnswer
  <2>3. CASE Goto(s, IF HasGate THEN "gate" ELSE "start")
    BY <1>0, <2>3, PlainGoto
  <2> QED
    BY <1>1, <2>2, <2>3 DEF Find
<1>2. CASE Describe(s)
  BY <1>0, <1>2, PlainGoto DEF Describe
<1>3. CASE BeforeStart(s)
  BY <1>0, <1>3, PlainGoto, PlainAnswer DEF BeforeStart
<1>4. CASE Unreachable(s)
  BY <1>0, <1>4, PlainAnswer DEF Unreachable
<1>5. CASE Start(s)
  <2>1. CASE Answer(s, NoRun, "again")
    BY <1>0, <2>1, PlainAnswer
  <2>2. CASE /\ pc' = [pc EXCEPT ![s] = "wait"]
             /\ on' = [on EXCEPT ![s] = Attached]
             /\ UNCHANGED answer
    <3>1. pc' \in [Sends -> Pcs] /\ on' \in [Sends -> 0..MaxRuns] /\ answer' \in [Sends -> Answers]
      BY <1>5, RouteType DEF TypeOK, SendTypeOK
    <3>2. /\ \A t \in Sends \ {s} : pc'[t] = pc[t] /\ on'[t] = on[t] /\ answer'[t] = answer[t]
          /\ pc'[s] = "wait" /\ answer'[s] = answer[s]
      BY <2>2 DEF TypeOK, SendTypeOK
    <3>3. ~FinalAnswer(s)'
      BY <3>2 DEF FinalAnswer
    <3> QED
      BY <1>0, <3>1, <3>2, <3>3, OtherAnswer
  <2> QED
    BY <1>5, <2>1, <2>2 DEF Start
<1>6. CASE StartRefused(s)
  BY <1>0, <1>6, PlainGoto DEF StartRefused
<1>7. CASE UpdateAnswered(s)
  <2>1. PICK a \in UpdateAnswers(on[s]) : Answer(s, on[s], a)
    BY <1>7 DEF UpdateAnswered
  <2>2. on[s] \in Runs
    BY <1>7, BoundsAssumption DEF TypeOK, SendTypeOK, UpdateAnswered, Runs, NoRun
  <2>3. a \in Answers /\ a # "gone" /\ (told[on[s]] = a \/ a = "running")
    BY <2>1, <2>2 DEF UpdateAnswers, TypeOK, RunTypeOK, Answers, Outcomes
  <2>4. UNCHANGED <<runVars, rowVars>> /\ pc[s] # "answered"
    BY <1>7 DEF UpdateAnswered
  <2> QED
    BY <2>1, <2>2, <2>3, <2>4, NewAnswer
<1>8. CASE UpdateLate(s)
  BY <1>0, <1>8, PlainGoto, PlainAnswer DEF UpdateLate
<1>9. CASE UpdateClosed(s)
  BY <1>0, <1>9, PlainAnswer DEF UpdateClosed
<1>10. CASE Refind(s)
  <2>1. UNCHANGED <<runVars, rowVars>> /\ pc[s] \in {"refindClosed", "refindLate"}
    BY <1>10 DEF Refind
  <2>2. CASE AnswerFromRecord(s)
    BY <2>1, <2>2, RecordAnswer
  <2>3. CASE Answer(s, NoRun, "again")
    BY <1>0, <2>3, PlainAnswer
  \* Nothing is recorded, and a completed execution has had a row.
  <2>4. CASE pc[s] = "refindClosed" /\ Newest = {} /\ Answer(s, NoRun, "gone")
    <3>1. \A r \in Runs : row[r] = "absent"
      BY <2>4, NewestExists DEF TypeOK
    <3>2. PICK r \in Runs : closed[r] = "completed"
      BY <2>4 DEF SendInv, RefusedInv
    <3>3. row[r] = "absent" /\ rank[r] > 0
      BY <3>1, <3>2 DEF IInv, RunInv, RowInv
    <3>4. /\ pc' \in [Sends -> Pcs] /\ on' \in [Sends -> 0..MaxRuns]
          /\ answer' \in [Sends -> Answers]
      BY <2>4, NoRunIndex DEF Answer, TypeOK, SendTypeOK, Pcs, Answers
    <3>5. /\ \A t \in Sends \ {s} : pc'[t] = pc[t] /\ on'[t] = on[t] /\ answer'[t] = answer[t]
          /\ pc'[s] = "answered" /\ answer'[s] = "gone"
      BY <2>4 DEF Answer, TypeOK, SendTypeOK
    <3>6. ~FinalAnswer(s)'
      BY <3>5 DEF FinalAnswer, Outcomes
    <3> QED
      BY <1>0, <3>2, <3>3, <3>4, <3>5, <3>6, OtherAnswer
  <2> QED
    BY <1>10, <2>2, <2>3, <2>4 DEF Refind
<1> QED
  BY <1>1, <1>2, <1>3, <1>4, <1>5, <1>6, <1>7, <1>8, <1>9, <1>10 DEF RouteStep

LEMMA SendStep == TypeOK /\ IInv /\ SendInv /\ [Next]_vars => SendInv'
<1> SUFFICES ASSUME TypeOK, IInv, SendInv, [Next]_vars PROVE SendInv'
  OBVIOUS
<1>1. CASE UNCHANGED vars
  BY <1>1, SendFrame DEF vars
<1>2. ASSUME NEW s \in Sends, RouteStep(s) PROVE SendInv'
  BY <1>2, RouteAnswers
<1>3. ASSUME NEW r \in Runs, WorkflowStep(r) \/ ActivityStep(r) \/ OperatorStep(r) \/ RecordStep(r)
      PROVE  SendInv'
  <2>1. UNCHANGED sendVars
    BY <1>3 DEF WorkflowStep, CheckRefuses, CheckPasses, InsertReported, PreludeEnds, RunReturns,
       RunRaises, RunLost, FinishReported, ActivityStep, BeginAttempt, Land, ZombieLands,
       InsertCommits, FinishCommits, OperatorStep, CancelInsert, CancelEffect, Terminate,
       RecordStep, Prune, Judge, EndLost
  <2> QED
    BY <2>1, SendFrame
<1> QED
  BY <1>1, <1>2, <1>3 DEF Next

\* What the sends know of the executions and their rows holds of every reachable state.
THEOREM AnswersInvariance == Spec => []SendInv
<1>1. Init => SendInv
  BY DEF Init, SendInv, AnswerInv, AgreeInv, RefusedInv, GoneOnlyIfPruned, FinalAnswer
<1> QED
  BY <1>1, Invariance, SendStep, PTL DEF Spec

\* However the sends race one another, the workflow, a prune and the reconciler, two final
\* answers from one execution are the same, and answers from two mean a terminate.
THEOREM AnswersAgreeHolds == Spec => []AnswersAgree
<1>1. TypeOK /\ IInv /\ SendInv => AnswersAgree
  <2> SUFFICES ASSUME TypeOK, IInv, SendInv, NEW s \in Sends, NEW t \in Sends,
                      FinalAnswer(s), FinalAnswer(t)
               PROVE  \/ on[s] = on[t] /\ answer[s] = answer[t]
                      \/ on[s] # on[t] /\ \E r \in {on[s], on[t]} : closed[r] = "terminated"
    BY DEF AnswersAgree
  <2>1. on[s] \in Runs /\ rank[on[s]] > 0 /\ on[t] \in Runs /\ rank[on[t]] > 0
    BY DEF SendInv, AnswerInv
  <2>2. CASE on[s] = on[t]
    BY <2>2 DEF SendInv, AgreeInv
  <2>3. ASSUME NEW r \in Runs, NEW q \in Runs, r < q, rank[r] > 0, rank[q] > 0
        PROVE  closed[r] = "terminated"
    <3>1. RunInv(r) /\ RunInv(q)
      BY DEF IInv
    <3>2. ~(q > latest)
      BY <2>3, <3>1 DEF RunInv, StatusInv, RowInv
    <3>3. r < latest
      BY <2>3, <3>2, BoundsAssumption DEF TypeOK, RunTypeOK, Runs
    <3> QED
      BY <2>3, <3>1, <3>3 DEF RunInv, StatusInv, RowInv, Reusable, TypeOK, RecordTypeOK
  <2>4. CASE on[s] # on[t]
    <3>1. on[s] < on[t] \/ on[t] < on[s]
      BY <2>1, <2>4, BoundsAssumption DEF Runs
    <3> QED
      BY <2>1, <2>3, <2>4, <3>1
  <2> QED
    BY <2>2, <2>4
<1> QED
  BY <1>1, Invariance, AnswersInvariance, PTL

\* A send is told that the record is gone only when a completed execution's row was
\* there and has been pruned.
THEOREM GoneHolds == Spec => []GoneOnlyIfPruned
<1>1. SendInv => GoneOnlyIfPruned
  BY DEF SendInv
<1> QED
  BY <1>1, AnswersInvariance, PTL
=============================================================================
