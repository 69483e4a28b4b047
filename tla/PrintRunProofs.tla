--------------------------- MODULE PrintRunProofs ---------------------------
(***************************************************************************)
(* What TLAPS proves of PrintRun, for every number of sends, executions,   *)
(* terminations and plates, whichever plates may be reused.                *)
(***************************************************************************)
EXTENDS PrintRun, FiniteSetTheorems, TLAPS

(***************************************************************************)
(* The inductive invariant.                                                *)
(***************************************************************************)
\* Executions are started one after the other, and an execution that is not open runs no
\* more workflow code.
StageInv(r) ==
  /\ stage[r] = "none" <=> latest < r
  /\ closed[r] = "none" <=> latest < r
  /\ r < latest => ~Open(r)
  /\ Open(r) => stage[r] # "over"
  /\ closed[r] \in {"failed", "cancelled", "completed"} => stage[r] = "over"
  /\ closed[r] = "terminated" => stage[r] \in MayCommitYet \union {"over"}

\* How far the row is, seen from the stage: only the last activity of an open execution
\* ends it, and only a closed one's is judged.
RowInv(r) ==
  /\ stage[r] \in {"none", "check"} => rank[r] = 0
  /\ rank[r] = 0 => /\ stage[r] \in {"none", "check", "insert", "over"}
                    /\ row[r] = "absent" /\ r \notin judged
  /\ Open(r) => r \notin judged
  /\ Open(r) /\ rank[r] > 0 =>
       \/ Running(r) /\ stage[r] \notin {"follow", "window"}
       \/ stage[r] \in {"succeed", "follow", "fail", "window"} /\ row[r] = "succeeded"
       \/ stage[r] \in {"fail", "window"} /\ row[r] = "failed"
  /\ stage[r] = "succeed" /\ Open(r) => row[r] # "failed"
  /\ closed[r] = "completed" => ~Running(r) /\ rank[r] > 0

\* The row says that it may have queued before anything is posted, and an execution that
\* does not remember an attempt made none that Bambuddy may take.
MarkInv(r) ==
  /\ ~marked[r] \/ unstarted[r] \/ (Open(r) /\ ~attempted[r]) => NothingQueued(r)
  /\ attempted[r] => ~unstarted[r] /\ marked[r] /\ Open(r)
  /\ stage[r] = "enqueue" => attempted[r]
  /\ stage[r] = "reslice" => marked[r]
  /\ stage[r] = "arm" => ~attempted[r]
  /\ stage[r] \in {"none", "check", "insert", "plan"} => ~marked[r]
  /\ stage[r] # "arm" /\ Open(r) /\ ~attempted[r] => ~marked[r] \/ unstarted[r]
  /\ closed[r] \in {"failed", "cancelled"} => ~marked[r]

\* The error the row is to be ended with, or was, says what the flag says.
WhyInv(r) ==
  /\ why[r] \in {"cancelled", "unqueued", "queueing", "failed"} =>
       stage[r] \in {"fail", "window", "over"}
  /\ stage[r] = "fail" /\ Running(r) =>
       /\ why[r] = "cancelled" => ~marked[r]
       /\ why[r] = "unqueued" => ~marked[r] \/ unstarted[r]
       /\ why[r] = "queueing" => marked[r] /\ ~unstarted[r]
       /\ why[r] \in {"cancelled", "unqueued", "queueing", "failed"}
  /\ row[r] = "failed" =>
       /\ why[r] \in {"cancelled", "unqueued", "lostUnqueued"} => ~marked[r]
       /\ why[r] \in {"queueing", "lost"} => marked[r]
  /\ why[r] = "queueing" =>
       post[r] = "none" /\ \A p \in Plates : queued[r][p] > 0 <=> p \in recorded[r]

\* Every plate queued and recorded, and nothing of the run in flight.
Full(r) ==
  /\ recorded[r] = Plates
  /\ \A p \in Plates : queued[r][p] = 1
  /\ post[r] = "none"

\* The plates before the one the run is at are queued and recorded, those after it are
\* neither, and the one it is at is as far as its stage.
PlateInv(r) ==
  /\ \A p \in Plates : queued[r][p] <= 1
  /\ post[r] = "flying" =>
       queued[r][plate[r]] = 0 /\ stage[r] \in {"enqueue", "fail", "window", "over"}
  /\ post[r] = "taken" => stage[r] \in {"enqueue", "over"}
  /\ stage[r] = "enqueue" /\ post[r] = "taken" => queued[r][plate[r]] = 1
  /\ stage[r] \in {"none", "check", "insert", "plan", "slice", "arm", "enqueue", "reslice", "record"}
       /\ (Open(r) \/ latest < r) =>
       /\ \A p \in Plates : p < plate[r] => queued[r][p] = 1 /\ p \in recorded[r]
       /\ \A p \in Plates : plate[r] < p => queued[r][p] = 0 /\ p \notin recorded[r]
       /\ stage[r] # "record" => plate[r] \notin recorded[r]
       /\ stage[r] # "record" /\ post[r] # "taken" => queued[r][plate[r]] = 0
  /\ stage[r] = "record" => post[r] = "none" /\ queued[r][plate[r]] = 1
  /\ stage[r] \in {"none", "check", "insert", "plan"} => plate[r] = 1
  /\ stage[r] \in {"finish", "succeed", "follow"} \/ row[r] = "succeeded" => Full(r)

\* A completed execution that queued something absorbed a cancel or saw its window pass; a
\* request_id's executions follow only those that may be started again.
NextInv(r) ==
  /\ closed[r] = "completed" => absorbed[r] \/ ~fresh[r] \/ NothingQueued(r)
  /\ r < latest /\ keyed => closed[r] \in {"failed", "cancelled", "terminated"}

\* A row that had ended when a send read the record stays so while the send is in flight.
SendInv(s) ==
  /\ pc[s] = "idle" => since[s] = {} /\ answer[s] = "none"
  /\ pc[s] \notin {"idle", "answered"} => answer[s] = "none"
  /\ pc[s] \notin {"idle", "answered"} => \A r \in since[s] : Ended(r)
  /\ pc[s] = "await" => on[s] \notin since[s]
  /\ pc[s] = "refind" => keyed
  /\ ~keyed /\ answer[s] = "run" => on[s] \notin since[s]

RunInv(r) == StageInv(r) /\ RowInv(r) /\ MarkInv(r) /\ WhyInv(r) /\ PlateInv(r) /\ NextInv(r)

IInv ==
  /\ \A r \in Runs : RunInv(r)
  /\ \A s \in Sends : SendInv(s)
(***************************************************************************)
(* Types.                                                                  *)
(***************************************************************************)
\* A new row's place in created_at order is a positive number.
LEMMA NextRank ==
  ASSUME RecordTypeOK
  PROVE  1 + Cardinality({q \in Runs : rank[q] > 0}) \in Nat \ {0}
<1>1. IsFiniteSet(Runs)
  BY PrintBounds, FS_Interval DEF Runs
<1>2. IsFiniteSet({q \in Runs : rank[q] > 0})
  BY <1>1, FS_Subset
<1> QED
  BY <1>2, FS_CardinalityType

LEMMA RunIndex == ASSUME NEW r \in Runs PROVE r \in 0..MaxRuns /\ r \in Nat /\ r # NoRun
BY PrintBounds DEF Runs, NoRun

LEMMA NoRunIndex == NoRun \in 0..MaxRuns
BY PrintBounds DEF NoRun

LEMMA AnswerType ==
  ASSUME SendTypeOK, NEW s \in Sends, NEW r \in 0..MaxRuns, NEW a \in Answers, Answer(s, r, a)
  PROVE  SendTypeOK'
BY DEF SendTypeOK, Answer, Pcs, Waiting

LEMMA GotoType ==
  ASSUME SendTypeOK, NEW s \in Sends, NEW where \in {"start", "refind", "closing", "restart"},
         Goto(s, where), since' \in [Sends -> SUBSET Runs]
  PROVE  SendTypeOK'
BY NoRunIndex DEF SendTypeOK, Goto, Waiting, Pcs

LEMMA RecordAnswerType ==
  ASSUME SendTypeOK, NEW s \in Sends, NEW withId, AnswerFromRecord(s, withId)
  PROVE  SendTypeOK'
<1>1. PICK r \in Runs : Answer(s, r, "run")
  BY DEF AnswerFromRecord, Repeats, NewestOf
<1> QED
  BY <1>1, RunIndex, AnswerType DEF Answers

LEMMA RouteType ==
  ASSUME TypeOK, NEW s \in Sends, RouteStep(s)
  PROVE  TypeOK'
<1> USE DEF TypeOK
<1>0. {"again", "gone", "refused", "run"} \subseteq Answers
  BY DEF Answers
<1>1. WorkTypeOK /\ UNCHANGED workVars => WorkTypeOK'
  BY DEF WorkTypeOK, workVars
<1>2. RecordTypeOK' /\ PrintTypeOK' /\ keyed' \in BOOLEAN
  BY DEF RouteStep, Find, Start, StartRefused, Refind, NoAnswer, UpdateAnswered, ClosingWaited,
     RecordTypeOK, PrintTypeOK, printVars, rowVars
<1>3. ASSUME SendTypeOK', UNCHANGED <<runVars, workVars>> PROVE TypeOK'
  BY <1>1, <1>2, <1>3 DEF runVars
<1>4. CASE Find(s)
  <2>1. CASE AnswerFromRecord(s, keyed)
    BY <1>3, <1>4, <2>1, RecordAnswerType DEF Find
  <2>2. CASE ~AnswerFromRecord(s, keyed)
    <3>1. since' \in [Sends -> SUBSET Runs]
      BY <1>4, <2>2 DEF Find, SendTypeOK
    <3> QED
      BY <1>3, <1>4, <2>2, <3>1, GotoType DEF Find
  <2> QED
    BY <2>1, <2>2
<1>5. CASE Start(s)
  <2>1. CASE StartNew
    <3>1. latest + 1 \in Runs /\ latest' = latest + 1 /\ latest + 1 \in 0..MaxRuns
      BY <2>1, PrintBounds DEF StartNew, Runs
    <3>2. WorkTypeOK'
      BY <2>1, <3>1 DEF StartNew, WorkTypeOK, Stages
    <3>3. closed' \in [Runs -> Closes] /\ told' \in [Runs -> {"none", "refused", "run"}]
      BY <2>1, <3>1 DEF StartNew, Closes
    <3>4. SendTypeOK'
      <4>1. CASE Answer(s, NoRun, "again")
        BY <1>0, <4>1, NoRunIndex, AnswerType
      <4>2. CASE /\ pc' = [pc EXCEPT ![s] = "await"]
                 /\ on' = [on EXCEPT ![s] = latest + 1]
                 /\ UNCHANGED <<since, answer>>
        <5>1. latest + 1 # NoRun
          BY <3>1, RunIndex
        <5> QED
          BY <3>1, <4>2, <5>1 DEF SendTypeOK, Waiting, Pcs
      <4>3. ~LatestOpen
        BY <2>1 DEF LatestOpen, StartNew, CanStart
      <4> QED
        BY <1>5, <4>1, <4>2, <4>3 DEF Start
    <3> QED
      BY <1>2, <3>1, <3>2, <3>3, <3>4
  <2>2. CASE ~StartNew
    <3>1. latest \in Runs /\ latest # NoRun
      BY <1>5, <2>2, RunIndex DEF Start, LatestOpen
    <3>2. SendTypeOK'
      BY <1>5, <2>2, <3>1 DEF Start, SendTypeOK, Waiting, Pcs
    <3> QED
      BY <1>3, <1>5, <2>2, <3>2 DEF Start
  <2> QED
    BY <2>1, <2>2
<1>6. CASE StartRefused(s)
  BY <1>3, <1>6, GotoType DEF StartRefused, SendTypeOK
<1>7. CASE Refind(s)
  BY <1>0, <1>3, <1>7, RecordAnswerType, AnswerType, NoRunIndex DEF Refind
<1>8. CASE NoAnswer(s)
  BY <1>0, <1>3, <1>8, AnswerType, NoRunIndex DEF NoAnswer
<1>9. CASE UpdateAnswered(s)
  <2>1. on[s] \in 0..MaxRuns
    BY DEF SendTypeOK
  <2> QED
    BY <1>0, <1>3, <1>9, <2>1, AnswerType, GotoType, NoRunIndex DEF UpdateAnswered, SendTypeOK
<1>10. CASE ClosingWaited(s)
  BY <1>0, <1>3, <1>10, AnswerType, GotoType, NoRunIndex DEF ClosingWaited, SendTypeOK
<1> QED
  BY <1>4, <1>5, <1>6, <1>7, <1>8, <1>9, <1>10 DEF RouteStep

LEMMA ForgetType ==
  ASSUME WorkTypeOK, NEW r \in Runs, Forget(r)
  PROVE  /\ attempted' \in [Runs -> BOOLEAN] /\ unstarted' \in [Runs -> BOOLEAN]
         /\ resliced' \in [Runs -> BOOLEAN] /\ plate' \in [Runs -> Plates]
<1>1. 1 \in Plates
  BY PrintPlates DEF Plates
<1>2. (unstarted[r] /\ stage[r] = "fail" /\ Running(r)) \in BOOLEAN
  OBVIOUS
<1>3. attempted' \in [Runs -> BOOLEAN] /\ resliced' \in [Runs -> BOOLEAN]
  BY DEF Forget, WorkTypeOK
<1>4. unstarted' \in [Runs -> BOOLEAN]
  BY <1>2 DEF Forget, WorkTypeOK
<1>5. plate' \in [Runs -> Plates]
  BY <1>1 DEF Forget, WorkTypeOK
<1> QED
  BY <1>3, <1>4, <1>5

LEMMA CloseType ==
  ASSUME WorkTypeOK, NEW r \in Runs, NEW how, CloseRun(r, how), UNCHANGED <<absorbed, why>>
  PROVE  WorkTypeOK'
BY ForgetType DEF WorkTypeOK, CloseRun, To, Stages

LEMMA StartPlateType ==
  ASSUME WorkTypeOK, NEW r \in Runs, NEW p \in Plates, StartPlate(r, p),
         UNCHANGED <<absorbed, attempted, unstarted, why>>
  PROVE  WorkTypeOK'
BY DEF WorkTypeOK, StartPlate, To, AfterSlice, Stages

LEMMA FailType ==
  ASSUME WorkTypeOK, NEW r \in Runs, NEW error \in Errors, Fail(r, error)
  PROVE  stage' \in [Runs -> Stages] /\ why' \in [Runs -> Errors \union {"none"}]
BY DEF WorkTypeOK, Fail, To, Stages

LEMMA WorkflowType ==
  ASSUME TypeOK, NEW r \in Runs, WorkflowStep(r)
  PROVE  TypeOK'
<1> USE DEF TypeOK
<1>1. RecordTypeOK' /\ SendTypeOK' /\ keyed' \in BOOLEAN /\ latest' \in 0..MaxRuns
  BY DEF WorkflowStep, CheckRefuses, CheckPasses, InsertReported, PlanEnds, SliceEnds, ArmReported,
     EnqueueReported, EnqueueFails, EnqueueGone, ResliceEnds, RecordReported, RecordFails,
     FinishReported, SucceedReported, Followed, FailReported, WindowEnds, rowVars, sendVars,
     runVars, RecordTypeOK, SendTypeOK, Waiting
<1>2. PrintTypeOK'
  BY DEF WorkflowStep, CheckRefuses, CheckPasses, InsertReported, PlanEnds, SliceEnds, ArmReported,
     EnqueueReported, EnqueueFails, EnqueueGone, ResliceEnds, RecordReported, RecordFails,
     FinishReported, SucceedReported, Followed, FailReported, WindowEnds, printVars, PrintTypeOK
<1>3. /\ closed' \in [Runs -> Closes]
      /\ told' \in [Runs -> {"none", "refused", "run"}]
  BY DEF WorkflowStep, CheckRefuses, CheckPasses, InsertReported, PlanEnds, SliceEnds, ArmReported,
     EnqueueReported, EnqueueFails, EnqueueGone, ResliceEnds, RecordReported, RecordFails,
     FinishReported, SucceedReported, Followed, FailReported, WindowEnds, EndRun, CloseRun, runVars,
     Closes
<1>4. WorkTypeOK'
  <2>0. /\ 1 \in Plates /\ (plate[r] < NPlates => plate[r] + 1 \in Plates)
        /\ {"cancelled", "failed", "unqueued", "queueing"} \subseteq Errors
        /\ CancelError(r) \in Errors
    BY PrintPlates DEF Plates, WorkTypeOK, Errors, CancelError
  <2>1. CASE CheckRefuses(r)
    BY <2>1, CloseType DEF CheckRefuses
  <2>2. CASE CheckPasses(r) \/ InsertReported(r)
    BY <2>0, <2>2, FailType DEF CheckPasses, InsertReported, WorkTypeOK, To, Stages
  <2>3. CASE PlanEnds(r)
    BY <2>0, <2>3, FailType, StartPlateType DEF PlanEnds, WorkTypeOK
  <2>4. CASE SliceEnds(r) \/ ArmReported(r)
    BY <2>0, <2>4, FailType DEF SliceEnds, ArmReported, WorkTypeOK, To, AfterSlice, Stages
  <2>5. CASE EnqueueReported(r) \/ EnqueueFails(r)
    BY <2>0, <2>5, FailType DEF EnqueueReported, EnqueueFails, WorkTypeOK, To, Stages
  <2>6. CASE EnqueueGone(r) \/ ResliceEnds(r)
    BY <2>0, <2>6, FailType DEF EnqueueGone, ResliceEnds, WorkTypeOK, To, Stages
  <2>7. CASE RecordReported(r)
    BY <2>0, <2>7, FailType, StartPlateType DEF RecordReported, WorkTypeOK, To, Stages
  <2>8. CASE RecordFails(r) \/ FinishReported(r) \/ SucceedReported(r)
    BY <2>0, <2>8, FailType DEF RecordFails, FinishReported, SucceedReported, WorkTypeOK, To,
       Stages
  <2>9. CASE Followed(r) \/ FailReported(r)
    BY <2>9, CloseType DEF Followed, FailReported, EndRun, WorkTypeOK, To, Stages
  <2>10. CASE WindowEnds(r)
    BY <2>10, CloseType DEF WindowEnds
  <2> QED
    BY <2>1, <2>2, <2>3, <2>4, <2>5, <2>6, <2>7, <2>8, <2>9, <2>10 DEF WorkflowStep
<1> QED
  BY <1>1, <1>2, <1>3, <1>4

LEMMA ActivityType ==
  ASSUME TypeOK, NEW r \in Runs, ActivityStep(r)
  PROVE  TypeOK'
<1> USE DEF TypeOK
<1>1. /\ SendTypeOK' /\ WorkTypeOK' /\ keyed' \in BOOLEAN /\ latest' \in 0..MaxRuns
      /\ closed' \in [Runs -> Closes] /\ told' \in [Runs -> {"none", "refused", "run"}]
  BY DEF ActivityStep, InsertCommits, ArmCommits, PostSent, PostTaken, RecordCommits,
     SucceedCommits, FailCommits, sendVars, SendTypeOK, Waiting, workVars, WorkTypeOK, runVars
<1>2. CASE InsertCommits(r)
  BY <1>1, <1>2, NextRank DEF InsertCommits, RecordTypeOK, PrintTypeOK, printVars
<1>3. CASE ArmCommits(r) \/ SucceedCommits(r) \/ FailCommits(r)
  BY <1>1, <1>3 DEF ArmCommits, SucceedCommits, FailCommits, EndRow, RecordTypeOK, PrintTypeOK,
     printVars
<1>4. CASE PostSent(r)
  BY <1>1, <1>4 DEF PostSent, RecordTypeOK, PrintTypeOK, rowVars
<1>6. CASE RecordCommits(r)
  <2>1. recorded[r] \union {plate[r]} \in SUBSET Plates
    BY DEF PrintTypeOK, WorkTypeOK
  <2> QED
    BY <1>1, <1>6, <2>1 DEF RecordCommits, RecordTypeOK, PrintTypeOK, rowVars
<1>5. CASE PostTaken(r)
  BY <1>1, <1>5 DEF PostTaken, RecordTypeOK, PrintTypeOK, WorkTypeOK, rowVars
<1> QED
  BY <1>2, <1>3, <1>4, <1>5, <1>6 DEF ActivityStep

LEMMA OtherType ==
  ASSUME TypeOK, NEW r \in Runs, OtherStep(r)
  PROVE  TypeOK'
<1> USE DEF TypeOK
<1>1. /\ SendTypeOK' /\ PrintTypeOK' /\ keyed' \in BOOLEAN /\ latest' \in 0..MaxRuns
      /\ told' \in [Runs -> {"none", "refused", "run"}]
  BY DEF OtherStep, Cancel, Terminate, Judge, EndLost, Expire, Prune, sendVars, SendTypeOK,
     Waiting, printVars, PrintTypeOK, runVars
<1>2. CASE Cancel(r) \/ Terminate(r)
  <2>1. CancelError(r) \in Errors
    BY DEF CancelError, Errors
  <2>2. closed' \in [Runs -> Closes]
    BY <1>2 DEF Cancel, Terminate, CloseRun, Closes
  <2>3. absorbed' \in [Runs -> BOOLEAN]
    BY <1>2 DEF Cancel, Terminate, WorkTypeOK
  <2>4. WorkTypeOK'
    BY <1>2, <2>1, <2>3, FailType, ForgetType DEF Cancel, Terminate, CloseRun, To, WorkTypeOK, Stages
  <2>5. RecordTypeOK'
    BY <1>2 DEF Cancel, Terminate, RecordTypeOK, rowVars
  <2> QED
    BY <1>1, <2>2, <2>4, <2>5
<1>3. CASE Judge(r) \/ Expire(r) \/ Prune(r)
  <2>1. WorkTypeOK'
    BY <1>3 DEF Judge, Expire, Prune, WorkTypeOK, workVars
  <2>2. RecordTypeOK'
    BY <1>3 DEF Judge, Expire, Prune, RecordTypeOK
  <2> QED
    BY <1>1, <1>3, <2>1, <2>2 DEF Judge, Expire, Prune, runVars
<1>4. CASE EndLost(r)
  BY <1>1, <1>4 DEF EndLost, EndRow, WorkTypeOK, runVars, RecordTypeOK, Errors
<1> QED
  BY <1>2, <1>3, <1>4 DEF OtherStep

LEMMA TypeStep == TypeOK /\ [Next]_vars => TypeOK'
<1> SUFFICES ASSUME TypeOK, [Next]_vars PROVE TypeOK'
  OBVIOUS
<1>1. CASE UNCHANGED vars
  BY <1>1 DEF vars, runVars, workVars, printVars, rowVars, sendVars, TypeOK, WorkTypeOK,
     RecordTypeOK, PrintTypeOK, SendTypeOK, Waiting
<1> QED
  BY <1>1, RouteType, WorkflowType, ActivityType, OtherType DEF Next

LEMMA InitType == Init => TypeOK
BY PrintBounds, PrintPlates DEF Init, TypeOK, WorkTypeOK, RecordTypeOK, PrintTypeOK, SendTypeOK,
   NoRun, Pcs, Stages, Closes, Answers, Errors, Plates, Waiting

\* Every variable keeps its type: the route, the workflow, its activities, Bambuddy and the
\* reconciler only ever write values of the enumerations.
THEOREM TypeCorrect == Spec => []TypeOK
BY InitType, TypeStep, PTL DEF Spec
(***************************************************************************)
(* Executions and their rows.                                              *)
(***************************************************************************)
\* A step that leaves an execution, its prints and its row alone keeps its invariant.
LEMMA Frame ==
  ASSUME NEW q \in Runs, RunInv(q), keyed' = keyed, latest' = latest, closed'[q] = closed[q],
         stage'[q] = stage[q], absorbed'[q] = absorbed[q], attempted'[q] = attempted[q],
         unstarted'[q] = unstarted[q], plate'[q] = plate[q], why'[q] = why[q],
         post'[q] = post[q], queued'[q] = queued[q], recorded'[q] = recorded[q],
         row'[q] = row[q], rank'[q] = rank[q], marked'[q] = marked[q], fresh'[q] = fresh[q],
         q \in judged' => q \in judged
  PROVE  RunInv(q)'
<1>1. StageInv(q)' /\ RowInv(q)'
  BY DEF RunInv, StageInv, RowInv, Open, Running
<1>2. NothingQueued(q)' <=> NothingQueued(q)
  BY DEF NothingQueued
<1>3. MarkInv(q)' /\ NextInv(q)'
  BY <1>2 DEF RunInv, MarkInv, NextInv, Open
<1>4. WhyInv(q)'
  BY DEF RunInv, WhyInv, Running
<1>5. PlateInv(q)'
  BY DEF RunInv, PlateInv, Full, Open
<1> QED
  BY <1>1, <1>3, <1>4, <1>5 DEF RunInv

\* A step of one execution: only its own invariant needs an argument.
LEMMA OwnStep ==
  ASSUME TypeOK, \A q \in Runs : RunInv(q), NEW r \in Runs,
         WorkflowStep(r) \/ ActivityStep(r) \/ OtherStep(r),
         RunInv(r)'
  PROVE  \A q \in Runs : RunInv(q)'
<1> SUFFICES ASSUME NEW q \in Runs, q # r PROVE RunInv(q)'
  OBVIOUS
<1> USE Frame DEF TypeOK, WorkTypeOK, PrintTypeOK, RecordTypeOK
<1>1. CASE WorkflowStep(r)
  <2> USE DEF To, Fail, Forget, CloseRun, StartPlate, EndRun, rowVars, runVars, printVars
  <2>1. CASE CheckRefuses(r) \/ CheckPasses(r) \/ InsertReported(r)
    BY <2>1 DEF CheckRefuses, CheckPasses, InsertReported
  <2>2. CASE PlanEnds(r) \/ SliceEnds(r) \/ ArmReported(r)
    BY <2>2 DEF PlanEnds, SliceEnds, ArmReported
  <2>3. CASE EnqueueReported(r) \/ EnqueueFails(r) \/ EnqueueGone(r) \/ ResliceEnds(r)
    BY <2>3 DEF EnqueueReported, EnqueueFails, EnqueueGone, ResliceEnds
  <2>4. CASE RecordReported(r) \/ RecordFails(r)
    BY <2>4 DEF RecordReported, RecordFails
  <2>5. CASE FinishReported(r) \/ SucceedReported(r)
    BY <2>5 DEF FinishReported, SucceedReported
  <2>6. CASE Followed(r) \/ FailReported(r) \/ WindowEnds(r)
    BY <2>6 DEF Followed, FailReported, WindowEnds
  <2> QED
    BY <1>1, <2>1, <2>2, <2>3, <2>4, <2>5, <2>6 DEF WorkflowStep
<1>2. CASE ActivityStep(r)
  BY <1>2 DEF ActivityStep, InsertCommits, ArmCommits, PostSent, PostTaken, RecordCommits,
     SucceedCommits, FailCommits, EndRow, rowVars, runVars, workVars, printVars
<1>3. CASE OtherStep(r)
  BY <1>3 DEF OtherStep, Cancel, Terminate, Judge, EndLost, Expire, Prune, To, Fail, Forget,
     CloseRun, EndRow, rowVars, runVars, workVars, printVars
<1> QED
  BY <1>1, <1>2, <1>3

LEMMA PlateOrder ==
  ASSUME NEW p \in Plates, NEW q \in Plates
  PROVE  /\ p \in Nat /\ q \in Nat /\ 1 <= p /\ p <= NPlates
         /\ p < q \/ p = q \/ q < p
BY PrintPlates DEF Plates

\* Between two plates, and when the plate's POST queued nothing, what is queued is what is
\* recorded.
LEMMA Tally ==
  ASSUME TypeOK, NEW r \in Runs, RunInv(r), Open(r),
         \/ stage[r] \in {"plan", "slice", "reslice", "follow"}
         \/ stage[r] = "enqueue" /\ post[r] = "flying"
         \/ stage[r] = "record" /\ plate[r] \in recorded[r]
  PROVE  \A p \in Plates : queued[r][p] > 0 <=> p \in recorded[r]
<1> SUFFICES ASSUME NEW p \in Plates PROVE queued[r][p] > 0 <=> p \in recorded[r]
  OBVIOUS
<1>1. plate[r] \in Plates /\ (p < plate[r] \/ p = plate[r] \/ plate[r] < p)
  BY PlateOrder DEF TypeOK, WorkTypeOK
<1> QED
  BY <1>1 DEF RunInv, PlateInv, Full, Open

\* With the last plate's record everything is queued and recorded.
LEMMA LastRecorded ==
  ASSUME TypeOK, NEW r \in Runs, RunInv(r), At(r, "record"), plate[r] = NPlates,
         plate[r] \in recorded[r]
  PROVE  Full(r)
<1>1. ASSUME NEW p \in Plates PROVE queued[r][p] = 1 /\ p \in recorded[r]
  <2>1. p < plate[r] \/ p = plate[r]
    BY PlateOrder DEF TypeOK, WorkTypeOK
  <2> QED
    BY <2>1 DEF RunInv, PlateInv, At
<1>2. recorded[r] \subseteq Plates
  BY DEF TypeOK, PrintTypeOK
<1>3. recorded[r] = Plates
  BY <1>1, <1>2
<1>4. post[r] = "none"
  BY DEF RunInv, PlateInv, At
<1> QED
  BY <1>1, <1>3, <1>4 DEF Full

LEMMA WorkflowInv ==
  ASSUME TypeOK, \A q \in Runs : RunInv(q), NEW r \in Runs, WorkflowStep(r)
  PROVE  \A q \in Runs : RunInv(q)'
<1> r \in Nat /\ RunInv(r)
  BY RunIndex
<1> SUFFICES RunInv(r)'
  BY OwnStep
<1> USE PrintPlates DEF TypeOK, WorkTypeOK, RecordTypeOK, PrintTypeOK, RunInv, StageInv, RowInv,
        MarkInv, WhyInv, PlateInv, Full, NextInv, NothingQueued, Open, Running, At, To, Fail,
        Forget, CloseRun, rowVars, printVars, runVars
<1>1. CASE CheckRefuses(r)
  BY <1>1 DEF CheckRefuses
<1>2. CASE CheckPasses(r)
  BY <1>2 DEF CheckPasses
<1>3. CASE InsertReported(r)
  BY <1>3 DEF InsertReported
<1>4. CASE PlanEnds(r)
  BY <1>4 DEF PlanEnds, StartPlate, AfterSlice
<1>5. CASE SliceEnds(r)
  BY <1>5 DEF SliceEnds, AfterSlice
<1>6. CASE ArmReported(r)
  BY <1>6 DEF ArmReported
<1>7. CASE EnqueueReported(r)
  BY <1>7 DEF EnqueueReported
<1>8. CASE EnqueueFails(r)
  BY <1>8 DEF EnqueueFails
<1>9. CASE EnqueueGone(r)
  <2>1. StageInv(r)' /\ RowInv(r)' /\ PlateInv(r)' /\ NextInv(r)'
    BY <1>9 DEF EnqueueGone
  <2>2. plate[r] = 1 => \A p \in Plates : queued[r][p] = 0
    BY <1>9, PlateOrder DEF EnqueueGone
  <2>3. MarkInv(r)'
    BY <1>9, <2>2 DEF EnqueueGone
  <2>4. \A p \in Plates : queued[r][p] > 0 <=> p \in recorded[r]
    BY <1>9, Tally DEF EnqueueGone
  <2>5. WhyInv(r)'
    BY <1>9, <2>4 DEF EnqueueGone
  <2> QED
    BY <2>1, <2>3, <2>5
<1>10. CASE ResliceEnds(r)
  <2>1. StageInv(r)' /\ RowInv(r)' /\ PlateInv(r)' /\ NextInv(r)'
    BY <1>10 DEF ResliceEnds
  <2>2. MarkInv(r)'
    BY <1>10 DEF ResliceEnds
  <2>3. WhyInv(r)'
    BY <1>10 DEF ResliceEnds
  <2> QED
    BY <2>1, <2>2, <2>3
<1>11. CASE RecordReported(r)
  <2>1. StageInv(r)' /\ RowInv(r)' /\ MarkInv(r)' /\ NextInv(r)'
    BY <1>11 DEF RecordReported, StartPlate, AfterSlice, CancelError
  <2>2. \A p \in Plates : queued[r][p] > 0 <=> p \in recorded[r]
    BY <1>11, Tally DEF RecordReported
  <2>3. WhyInv(r)'
    BY <1>11, <2>2 DEF RecordReported, StartPlate, AfterSlice, CancelError
  <2>4. PlateInv(r)'
    <3>1. CASE plate[r] = NPlates
      <4>1. Full(r)
        BY <1>11, <3>1, LastRecorded DEF RecordReported
      <4> QED
        BY <1>11, <3>1, <4>1 DEF RecordReported
    <3>2. CASE plate[r] < NPlates /\ absorbed[r]
      BY <1>11, <3>2 DEF RecordReported
    <3>3. CASE plate[r] < NPlates /\ ~absorbed[r]
      <4>1. /\ plate'[r] = plate[r] + 1 /\ plate[r] \in Nat
            /\ stage'[r] \in {"slice", "enqueue", "arm"}
        BY <1>11, <3>3, PlateOrder DEF RecordReported, StartPlate, AfterSlice
      <4>2. \A p \in Plates : (p < plate[r] + 1 <=> p < plate[r] \/ p = plate[r])
                           /\ (plate[r] + 1 <= p <=> plate[r] < p)
        BY PlateOrder
      <4> HIDE DEF Plates
      <4>3. \A p \in Plates : p < plate'[r] => queued[r][p] = 1 /\ p \in recorded[r]
        BY <1>11, <4>1, <4>2 DEF RecordReported
      <4>4. \A p \in Plates : plate'[r] <= p => queued[r][p] = 0 /\ p \notin recorded[r]
        BY <1>11, <4>1, <4>2 DEF RecordReported
      <4>5. plate'[r] \in Plates /\ \A p \in Plates : plate'[r] < p => plate'[r] <= p
        BY <3>3, <4>1, PlateOrder DEF Plates
      <4> QED
        BY <1>11, <3>3, <4>1, <4>3, <4>4, <4>5, PlateOrder DEF RecordReported, StartPlate
    <3> QED
      BY <1>11, <3>1, <3>2, <3>3 DEF RecordReported
  <2> QED
    BY <2>1, <2>3, <2>4
<1>12. CASE RecordFails(r)
  BY <1>12 DEF RecordFails
<1>13. CASE FinishReported(r)
  BY <1>13 DEF FinishReported
<1>14. CASE SucceedReported(r)
  BY <1>14 DEF SucceedReported, Ended
<1>15. CASE Followed(r)
  BY <1>15 DEF Followed, EndRun, Kept, MayHaveQueued
<1>16. CASE FailReported(r)
  BY <1>16 DEF FailReported, EndRun, Kept, MayHaveQueued, Ended
<1>17. CASE WindowEnds(r)
  BY <1>17 DEF WindowEnds
<1> QED
  BY <1>1, <1>2, <1>3, <1>4, <1>5, <1>6, <1>7, <1>8, <1>9, <1>10, <1>11, <1>12, <1>13, <1>14,
     <1>15, <1>16, <1>17 DEF WorkflowStep

LEMMA ActivityInv ==
  ASSUME TypeOK, \A q \in Runs : RunInv(q), NEW r \in Runs, ActivityStep(r)
  PROVE  \A q \in Runs : RunInv(q)'
<1> r \in Nat /\ RunInv(r)
  BY RunIndex
<1> SUFFICES RunInv(r)'
  BY OwnStep
<1> USE PrintPlates DEF TypeOK, WorkTypeOK, RecordTypeOK, PrintTypeOK, RunInv, StageInv, RowInv,
        MarkInv, WhyInv, PlateInv, Full, NextInv, NothingQueued, Open, Running, At,
        rowVars, printVars, runVars, workVars
<1>1. CASE InsertCommits(r)
  <2>1. rank'[r] > 0 /\ row'[r] = "running" /\ rank[r] = 0
    BY <1>1, NextRank DEF InsertCommits
  <2> QED
    BY <1>1, <2>1 DEF InsertCommits
<1>2. CASE ArmCommits(r)
  BY <1>2 DEF ArmCommits
<1>3. CASE PostSent(r)
  BY <1>3 DEF PostSent
<1>4. CASE PostTaken(r)
  BY <1>4 DEF PostTaken
<1>5. CASE RecordCommits(r)
  BY <1>5 DEF RecordCommits
<1>6. CASE SucceedCommits(r)
  BY <1>6 DEF SucceedCommits, EndRow
<1>7. CASE FailCommits(r)
  BY <1>7 DEF FailCommits, EndRow
<1> QED
  BY <1>1, <1>2, <1>3, <1>4, <1>5, <1>6, <1>7 DEF ActivityStep

LEMMA OtherInv ==
  ASSUME TypeOK, \A q \in Runs : RunInv(q), NEW r \in Runs, OtherStep(r)
  PROVE  \A q \in Runs : RunInv(q)'
<1> r \in Nat /\ RunInv(r)
  BY RunIndex
<1> SUFFICES RunInv(r)'
  BY OwnStep
<1> USE PrintPlates DEF TypeOK, WorkTypeOK, RecordTypeOK, PrintTypeOK, RunInv, StageInv, RowInv,
        MarkInv, WhyInv, PlateInv, Full, NextInv, NothingQueued, Open, Running, At, To, Fail,
        Forget, CloseRun, rowVars, printVars, runVars, workVars
<1>1. CASE Cancel(r)
  <2> USE DEF Cancel, CancelError, Shielded
  <2>1. StageInv(r)' /\ RowInv(r)' /\ NextInv(r)'
    BY <1>1
  <2>2. MarkInv(r)' /\ PlateInv(r)'
    BY <1>1
  <2>3. WhyInv(r)'
    <3>1. CASE stage[r] \in {"plan", "slice", "reslice", "follow"}
      <4>1. \A p \in Plates : queued[r][p] > 0 <=> p \in recorded[r]
        BY <1>1, <3>1, Tally
      <4> QED
        BY <1>1, <3>1, <4>1
    <3>2. CASE stage[r] \in Shielded \union {"window"}
      BY <1>1, <3>2
    <3> QED
      BY <1>1, <3>1, <3>2
  <2> QED
    BY <2>1, <2>2, <2>3
<1>2. CASE Terminate(r)
  BY <1>2 DEF Terminate, MayCommitYet
<1>3. CASE Judge(r)
  BY <1>3 DEF Judge
<1>4. CASE EndLost(r)
  BY <1>4 DEF EndLost, EndRow
<1>5. CASE Expire(r)
  BY <1>5 DEF Expire
<1>6. CASE Prune(r)
  BY <1>6 DEF Prune, Ended
<1> QED
  BY <1>1, <1>2, <1>3, <1>4, <1>5, <1>6 DEF OtherStep
(***************************************************************************)
(* The route.                                                              *)
(***************************************************************************)
\* A new execution: what nothing is known of yet, and the one before it had closed as the
\* reuse policy demands.
LEMMA StartRunInv ==
  ASSUME TypeOK, IInv, StartNew, UNCHANGED <<keyed, printVars, rowVars>>
  PROVE  \A q \in Runs : RunInv(q)'
<1>1. /\ latest \in Nat /\ latest + 1 \in Runs /\ latest' = latest + 1
  BY PrintBounds DEF TypeOK, StartNew, Runs
<1> SUFFICES ASSUME NEW q \in Runs PROVE RunInv(q)'
  OBVIOUS
<1>2. q \in Nat /\ RunInv(q)
  BY RunIndex DEF IInv
<1>3. CASE q = latest + 1
  <2>1. /\ stage'[q] = "check" /\ closed'[q] = "open" /\ stage[q] = "none" /\ closed[q] = "none"
    BY <1>1, <1>2, <1>3 DEF StartNew, TypeOK, WorkTypeOK, RunInv, StageInv
  <2>2. StageInv(q)' /\ NextInv(q)'
    BY <1>1, <1>2, <1>3, <2>1 DEF StageInv, NextInv, Open
  <2>3. ~marked[q] /\ ~attempted[q] /\ NothingQueued(q) /\ NothingQueued(q)'
    <3>1. ~marked[q] /\ ~attempted[q] /\ NothingQueued(q)
      BY <1>2, <2>1 DEF RunInv, MarkInv, Open
    <3> QED
      BY <3>1 DEF NothingQueued, printVars
  <2>4. RowInv(q)' /\ MarkInv(q)'
    BY <1>1, <1>2, <1>3, <2>1, <2>3 DEF RunInv, RowInv, MarkInv, StartNew, rowVars, Open, Running
  <2>5. WhyInv(q)' /\ PlateInv(q)'
    BY <1>1, <1>2, <1>3, <2>1 DEF RunInv, RowInv, WhyInv, PlateInv, StartNew, rowVars, printVars,
       Open, Running, Full
  <2> QED
    BY <2>2, <2>4, <2>5 DEF RunInv
<1>4. CASE q # latest + 1
  <2>1. stage'[q] = stage[q] /\ closed'[q] = closed[q]
    BY <1>1, <1>4 DEF StartNew, TypeOK, WorkTypeOK
  <2>2. StageInv(q)' /\ NextInv(q)'
    <3>1. q < latest + 1 => q < latest \/ q = latest
      BY <1>1, <1>2
    <3>2. q = latest => ~Open(q) /\ (keyed => closed[q] \in {"failed", "cancelled", "terminated"})
      BY DEF StartNew, CanStart
    <3>3. NothingQueued(q)' <=> NothingQueued(q)
      BY DEF NothingQueued, printVars
    <3> QED
      BY <1>1, <1>2, <1>4, <2>1, <3>1, <3>2, <3>3 DEF RunInv, StageInv, NextInv, StartNew, Open,
         rowVars
  <2>3. RowInv(q)' /\ MarkInv(q)' /\ WhyInv(q)'
    BY <1>2, <2>1 DEF RunInv, RowInv, MarkInv, WhyInv, NothingQueued, StartNew, rowVars, printVars,
       Open, Running
  <2>4. PlateInv(q)'
    BY <1>1, <1>2, <1>4, <2>1 DEF RunInv, PlateInv, Full, StartNew, rowVars, printVars, Open
  <2> QED
    BY <2>2, <2>3, <2>4 DEF RunInv
<1> QED
  BY <1>3, <1>4

\* Only the send that moves has something to show: the rows do not change.
LEMMA RouteInv ==
  ASSUME TypeOK, IInv, NEW s \in Sends, RouteStep(s)
  PROVE  IInv'
<1>1. keyed' = keyed /\ UNCHANGED rowVars /\ UNCHANGED printVars
  BY DEF RouteStep, Find, Start, StartRefused, Refind, NoAnswer, UpdateAnswered, ClosingWaited
<1>2. \A q \in Runs : RunInv(q)'
  <2>1. CASE UNCHANGED <<runVars, workVars>>
    BY <1>1, <2>1, Frame DEF IInv, runVars, workVars, rowVars, printVars
  <2>2. CASE StartNew
    BY <1>1, <2>2, StartRunInv
  <2> QED
    BY <2>1, <2>2 DEF RouteStep, Find, Start, StartRefused, Refind, NoAnswer, UpdateAnswered,
       ClosingWaited
<1>3. ASSUME NEW t \in Sends, t # s PROVE SendInv(t)'
  <2>1. pc'[t] = pc[t] /\ on'[t] = on[t] /\ since'[t] = since[t] /\ answer'[t] = answer[t]
    BY <1>3 DEF RouteStep, Find, Start, StartRefused, Refind, NoAnswer, UpdateAnswered,
       ClosingWaited, AnswerFromRecord, Answer, Goto, TypeOK, SendTypeOK
  <2> QED
    BY <1>1, <2>1 DEF IInv, SendInv, rowVars, Ended
<1>4. SendInv(s)'
  <2> USE DEF IInv, SendInv, TypeOK, SendTypeOK, Ended, rowVars
  <2>0. ASSUME NEW r \in 0..MaxRuns, NEW a \in Answers, Answer(s, r, a),
               a = "run" /\ ~keyed => r \notin since[s]
        PROVE  SendInv(s)'
    BY <1>1, <2>0 DEF Answer
  <2>1. CASE Find(s)
    <3>1. ASSUME NEW r \in Runs, Answer(s, r, "run") PROVE SendInv(s)'
      BY <1>1, <2>1, <3>1 DEF Find, Answer
    <3> QED
      BY <1>1, <2>1, <3>1 DEF Find, AnswerFromRecord, Repeats, NewestOf, Goto
  <2>2. CASE Start(s)
    <3>1. CASE Answer(s, NoRun, "again")
      BY <1>1, <3>1 DEF Answer
    <3>2. CASE StartNew /\ ~Answer(s, NoRun, "again")
      <4>1. latest + 1 \in Runs /\ latest \in Nat
        BY <3>2, PrintBounds DEF StartNew, Runs
      <4>2. row[latest + 1] = "absent"
        BY <4>1 DEF RunInv, StageInv, RowInv
      <4>3. ~LatestOpen
        BY <3>2 DEF StartNew, CanStart, LatestOpen
      <4> QED
        BY <1>1, <2>2, <3>2, <4>1, <4>2, <4>3 DEF Start
    <3>3. CASE LatestOpen /\ ~StartNew
      BY <1>1, <2>2, <3>3 DEF Start
    <3> QED
      BY <2>2, <3>1, <3>2, <3>3 DEF Start
  <2>3. CASE StartRefused(s)
    BY <1>1, <2>3 DEF StartRefused, Goto
  <2>4. CASE Refind(s)
    <3>1. PICK r \in Int, a \in Answers : Answer(s, r, a)
      BY <2>4, NoRunIndex, RunIndex DEF Refind, AnswerFromRecord, Repeats, NewestOf, Answers
    <3>2. keyed /\ since'[s] \subseteq since[s] /\ pc'[s] = "answered"
      BY <2>4, <3>1 DEF Refind, Answer
    <3> QED
      BY <1>1, <3>2
  <2>5. CASE NoAnswer(s)
    BY <1>1, <2>5 DEF NoAnswer, Answer, Waiting
  <2>6. CASE UpdateAnswered(s)
    BY <1>1, <2>6 DEF UpdateAnswered, Answer, Goto, Waiting, EndedRun
  <2>7. CASE ClosingWaited(s)
    BY <1>1, <2>7 DEF ClosingWaited, Answer, Goto
  <2> QED
    BY <2>1, <2>2, <2>3, <2>4, <2>5, <2>6, <2>7 DEF RouteStep
<1> QED
  BY <1>2, <1>3, <1>4 DEF IInv

\* A step of an execution leaves every send alone, and an ended row ended as long as a send
\* that saw it so is in flight.
LEMMA SendFrame ==
  ASSUME TypeOK, IInv, NEW r \in Runs, WorkflowStep(r) \/ ActivityStep(r) \/ OtherStep(r),
         NEW s \in Sends
  PROVE  SendInv(s)'
<1>1. keyed' = keyed /\ UNCHANGED sendVars
  BY DEF WorkflowStep, CheckRefuses, CheckPasses, InsertReported, PlanEnds, SliceEnds, ArmReported,
     EnqueueReported, EnqueueFails, EnqueueGone, ResliceEnds, RecordReported, RecordFails,
     FinishReported, SucceedReported, Followed, FailReported, WindowEnds, ActivityStep,
     InsertCommits, ArmCommits, PostSent, PostTaken, RecordCommits, SucceedCommits, FailCommits,
     OtherStep, Cancel, Terminate, Judge, EndLost, Expire, Prune
<1>2. ASSUME pc[s] \notin {"idle", "answered"}, NEW q \in Runs, Ended(q) PROVE Ended(q)'
  <2>1. CASE UNCHANGED row
    BY <1>2, <2>1 DEF Ended
  <2>2. CASE InsertCommits(r)
    BY <1>2, <2>2 DEF InsertCommits, IInv, RunInv, RowInv, Ended, TypeOK, RecordTypeOK
  <2>3. CASE SucceedCommits(r) \/ FailCommits(r) \/ EndLost(r)
    BY <1>2, <2>3 DEF SucceedCommits, FailCommits, EndLost, EndRow, Ended, Running, TypeOK,
       RecordTypeOK
  <2>4. CASE Prune(r)
    BY <1>2, <2>4 DEF Prune
  <2> QED
    BY <2>1, <2>2, <2>3, <2>4 DEF WorkflowStep, CheckRefuses, CheckPasses, InsertReported, PlanEnds,
       SliceEnds, ArmReported, EnqueueReported, EnqueueFails, EnqueueGone, ResliceEnds,
       RecordReported, RecordFails, FinishReported, SucceedReported, Followed, FailReported,
       WindowEnds, ActivityStep, ArmCommits, PostSent, PostTaken, RecordCommits, OtherStep, Cancel,
       Terminate, Judge, Expire, rowVars
<1> QED
  BY <1>1, <1>2 DEF IInv, SendInv, sendVars, TypeOK, SendTypeOK

LEMMA StepInv == TypeOK /\ IInv /\ [Next]_vars => IInv'
<1> SUFFICES ASSUME TypeOK, IInv, [Next]_vars PROVE IInv'
  OBVIOUS
<1>1. CASE UNCHANGED vars
  <2>1. ASSUME NEW q \in Runs PROVE RunInv(q)'
    BY <1>1, <2>1, Frame DEF IInv, vars, runVars, workVars, printVars, rowVars
  <2>2. ASSUME NEW s \in Sends PROVE SendInv(s)'
    BY <1>1, <2>2 DEF IInv, SendInv, Ended, vars, rowVars, sendVars
  <2> QED
    BY <2>1, <2>2 DEF IInv
<1>2. CASE \E s \in Sends : RouteStep(s)
  BY <1>2, RouteInv
<1>3. ASSUME NEW r \in Runs, WorkflowStep(r) \/ ActivityStep(r) \/ OtherStep(r) PROVE IInv'
  <2>1. \A q \in Runs : RunInv(q)'
    BY <1>3, WorkflowInv, ActivityInv, OtherInv DEF IInv
  <2> QED
    BY <1>3, <2>1, SendFrame DEF IInv
<1> QED
  BY <1>1, <1>2, <1>3 DEF Next

LEMMA InitInv == Init => IInv
<1> SUFFICES ASSUME Init PROVE IInv
  OBVIOUS
<1>1. ASSUME NEW r \in Runs PROVE RunInv(r)
  <2>1. r \in Nat /\ latest < r /\ ~(r < latest)
    BY PrintPlates, RunIndex DEF Init, NoRun, Plates, Runs
  <2>2. StageInv(r) /\ RowInv(r) /\ MarkInv(r) /\ WhyInv(r) /\ NextInv(r)
    BY <2>1 DEF Init, StageInv, RowInv, MarkInv, WhyInv, NextInv, NothingQueued, Open, Running
  <2>3. PlateInv(r)
    <3>1. plate[r] = 1 /\ \A p \in Plates : ~(p < plate[r]) /\ queued[r][p] = 0
      BY <2>1, PrintPlates DEF Init, Plates
    <3> QED
      BY <2>1, <3>1, PrintPlates DEF Init, PlateInv, Full, Open, Plates
  <2> QED
    BY <2>2, <2>3 DEF RunInv
<1>2. ASSUME NEW s \in Sends PROVE SendInv(s)
  BY <1>2 DEF Init, SendInv
<1> QED
  BY <1>1, <1>2 DEF IInv

\* The inductive invariant holds of every reachable state.
THEOREM Invariance == Spec => [](TypeOK /\ IInv)
BY InitType, InitInv, TypeStep, StepInv, PTL DEF Spec

(***************************************************************************)
(* What follows from it.                                                   *)
(***************************************************************************)
\* "Nothing was queued" is true for good: print_fail clears the row's column only where no
\* POST was sent or the one sent queued nothing.
THEOREM UnqueuedHolds == Spec => []UnqueuedIsTrue
<1>1. TypeOK /\ IInv => UnqueuedIsTrue
  BY DEF UnqueuedIsTrue, IInv, RunInv, MarkInv, TypeOK, RecordTypeOK
<1> QED
  BY <1>1, Invariance, PTL

\* What a failed run's message says of the queue agrees with its may_have_queued, whether
\* the workflow or the reconciler ended it.
THEOREM MessageHolds == Spec => []MessageAgrees
<1>1. IInv => MessageAgrees
  BY DEF MessageAgrees, IInv, RunInv, WhyInv
<1> QED
  BY <1>1, Invariance, PTL

\* One POST per plate: a POST that nobody waits for any more is counted, and success means
\* that every plate was queued and recorded.
THEOREM PlatesOnceHolds == Spec => []PlatesOnce
<1>1. TypeOK /\ IInv => PlatesOnce
  BY DEF PlatesOnce, IInv, RunInv, PlateInv, Full, TypeOK, PrintTypeOK, WorkTypeOK
<1> QED
  BY <1>1, Invariance, PTL

\* A cancelled run recorded every plate it queued: the workflow waits for the POST and for
\* its record.
THEOREM CancelRecordsHolds == Spec => []CancelRecords
<1>1. TypeOK /\ IInv => CancelRecords
  BY DEF CancelRecords, IInv, RunInv, WhyInv, TypeOK, PrintTypeOK
<1> QED
  BY <1>1, Invariance, PTL

\* Two executions of one request both print only behind a terminate, a cancel or a repeat
\* window that passed: the reuse policies, the window's wait and the record together.
THEOREM OnePrintHolds == Spec => []OnePrint
<1>1. TypeOK /\ IInv => OnePrint
  <2> SUFFICES ASSUME TypeOK, IInv, NEW r \in Runs, NEW q \in Runs, r < q, Queues(r), Queues(q),
                      closed[r] # "terminated"
               PROVE  ~keyed /\ (absorbed[r] \/ ~fresh[r])
    BY DEF OnePrint
  <2>1. ~NothingQueued(r) /\ ~NothingQueued(q)
    BY DEF Queues, NothingQueued, TypeOK, PrintTypeOK
  <2>2. r < latest
    <3>1. ~(latest < q)
      BY <2>1 DEF IInv, RunInv, StageInv, MarkInv, TypeOK, RecordTypeOK
    <3> QED
      BY <3>1, RunIndex DEF TypeOK
  <2>3. closed[r] \notin {"failed", "cancelled"}
    BY <2>1 DEF IInv, RunInv, MarkInv
  <2>4. ~keyed
    BY <2>2, <2>3 DEF IInv, RunInv, NextInv, TypeOK
  <2>5. closed[r] = "completed"
    BY <2>2, <2>3, RunIndex DEF IInv, RunInv, StageInv, TypeOK, Open, Closes
  <2> QED
    BY <2>1, <2>4, <2>5 DEF IInv, RunInv, NextInv
<1> QED
  BY <1>1, Invariance, PTL

\* "Its old run is no answer to this request": a send without a request_id never gets a run
\* that had ended, and was past its window, when the send came.
THEOREM NoOldRunHolds == Spec => []NoOldRun
<1>1. IInv => NoOldRun
  BY DEF NoOldRun, IInv, SendInv
<1> QED
  BY <1>1, Invariance, PTL
=============================================================================
