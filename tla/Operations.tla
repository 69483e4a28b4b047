----------------------------- MODULE Operations -----------------------------
(***************************************************************************)
(* One keyed command of ScadBuddy's backend (spec 2026-10-01, 4.2): every  *)
(* send of one request carries one operation key, the key names one        *)
(* Temporal workflow id, and each execution of that id may write one row   *)
(* of `operations`.  The module composes                                   *)
(*   - the route, api/operations.py (one process per send);                *)
(*   - the workflow, workflows/operation.py (one process per execution);   *)
(*   - its activities, whose attempts may die, be retried, or go on after  *)
(*     the execution stopped waiting for them (zombies);                   *)
(*   - the record, operations/store.py;                                    *)
(*   - the lost-run reconciler of every API replica, workflows/client.py;  *)
(*   - Temporal's id policies and an operator who cancels or terminates.   *)
(***************************************************************************)
EXTENDS Integers, FiniteSets

CONSTANTS
  Sends,           \* the sends of the request (the first one and its repeats)
  MaxRuns,         \* bound: executions of the workflow id
  MaxTerminations, \* bound: executions an operator terminates
  RunAttempts,     \* OperationKind.run_attempts
  AnswersRunning,  \* OperationKind.answers_running
  HasPrelude,      \* the request needs the kind's prelude
  HasGate          \* the route passes a before_start refusal

ASSUME BoundsAssumption ==
  /\ MaxRuns \in Nat \ {0}
  /\ MaxTerminations \in Nat
ASSUME KindAssumption ==
  /\ RunAttempts \in Nat \ {0}
  /\ AnswersRunning \in BOOLEAN
  /\ HasPrelude \in BOOLEAN
  /\ HasGate \in BOOLEAN

VARIABLES
  latest,  \* how many executions of the id Temporal has started; the newest one
  stage,   \* per execution: where its workflow code is
  closed,  \* per execution: Temporal's status
  live,    \* per execution: its current attempt of the effect
  tries,   \* per execution: attempts of the effect begun
  zombies, \* per execution: attempts nobody waits for that may still land
  landed,  \* per execution: how often its effect happened
  decided, \* per execution: the outcome its FinishOp carries
  told,    \* per execution: the record its `accepted` Update answers with
  row,     \* per execution: the status of its row of `operations`
  rank,    \* per execution: its row's place in created_at order
  judged,  \* rows a reconciler found closed and has not ended yet
  pc,      \* per send: where the route is
  on,      \* per send: the execution it waits on or was answered from
  answer   \* per send: the route's answer

runVars == <<latest, stage, closed, live, tries, zombies, landed, decided, told>>
rowVars == <<row, rank>>
sendVars == <<pc, on, answer>>
vars == <<runVars, rowVars, judged, sendVars>>

NoRun == 0
Runs == 1..MaxRuns

\* How an operation ends: its result, a problem its run raised, "may have been done",
\* "nothing was done" (OPERATION_CANCELLED), and the reconciler's operation_lost.
Outcomes == {"ok", "failed", "maybe", "nothing", "lost"}
Stages == {"none", "check", "insert", "insertCancelled", "prelude", "effect", "finish", "over"}
Closes == {"none", "open", "completed", "failed", "cancelled", "terminated"}
Pcs == {"idle", "gate", "ask", "start", "wait", "refindClosed", "refindLate", "answered"}
\* A route's answer: a recorded outcome, 202 running, a refusal of the check or of
\* before_start, 503 send again, 409 record gone.
Answers == Outcomes \union {"none", "running", "refused", "gated", "again", "gone"}

Open(r) == closed[r] = "open"
Reusable(r) == closed[r] \in {"failed", "cancelled", "terminated"}
LatestOpen == \E r \in Runs : r = latest /\ Open(r)
Terminated == {r \in Runs : closed[r] = "terminated"}
Ended(r) == row[r] \in Outcomes
\* The rows `find(key)` may return: ORDER BY created_at DESC LIMIT 1.
Newest == {r \in Runs : /\ row[r] # "absent"
                        /\ \A q \in Runs : row[q] # "absent" => rank[q] <= rank[r]}

Init ==
  /\ latest = NoRun
  /\ stage = [r \in Runs |-> "none"]
  /\ closed = [r \in Runs |-> "none"]
  /\ live = [r \in Runs |-> "none"]
  /\ tries = [r \in Runs |-> 0]
  /\ zombies = [r \in Runs |-> 0]
  /\ landed = [r \in Runs |-> 0]
  /\ decided = [r \in Runs |-> "none"]
  /\ told = [r \in Runs |-> "none"]
  /\ row = [r \in Runs |-> "absent"]
  /\ rank = [r \in Runs |-> 0]
  /\ judged = {}
  /\ pc = [s \in Sends |-> "idle"]
  /\ on = [s \in Sends |-> NoRun]
  /\ answer = [s \in Sends |-> "none"]

(***************************************************************************)
(* The route: run_operation, one step per await that reads or writes.      *)
(***************************************************************************)
Answer(s, r, a) ==
  /\ pc' = [pc EXCEPT ![s] = "answered"]
  /\ on' = [on EXCEPT ![s] = r]
  /\ answer' = [answer EXCEPT ![s] = a]

Goto(s, where) ==
  /\ pc' = [pc EXCEPT ![s] = where]
  /\ UNCHANGED <<on, answer>>

\* store.find(key): a recorded operation answers, and nothing is started.
AnswerFromRecord(s) == \E r \in Newest : Answer(s, r, row[r])

\* The first read of the record.
Find(s) ==
  /\ pc[s] = "idle"
  /\ \/ AnswerFromRecord(s)
     \/ /\ Newest = {}
        /\ Goto(s, IF HasGate THEN "gate" ELSE "start")
  /\ UNCHANGED <<runVars, rowVars, judged>>

\* before_start is asked only when the id's execution is not running...
Describe(s) ==
  /\ pc[s] = "gate"
  /\ Goto(s, IF LatestOpen THEN "start" ELSE "ask")
  /\ UNCHANGED <<runVars, rowVars, judged>>

\* ... and may refuse: nothing was started by this send.
BeforeStart(s) ==
  /\ pc[s] = "ask"
  /\ \/ Goto(s, "start")
     \/ Answer(s, NoRun, "gated")
  /\ UNCHANGED <<runVars, rowVars, judged>>

\* Temporal cannot be asked: a 503 (or 500), and no request was written.
Unreachable(s) ==
  /\ pc[s] \in {"gate", "start"}
  /\ Answer(s, NoRun, "again")
  /\ UNCHANGED <<runVars, rowVars, judged>>

\* Mutant: ALLOW_DUPLICATE, a completed execution's id is used again.
CanStartAllowDuplicate == ~LatestOpen

\* USE_EXISTING and ALLOW_DUPLICATE_FAILED_ONLY: attach to the open execution, or start
\* the next one when the last did not complete.
CanStart == \A r \in Runs : r = latest => Reusable(r)
Attached == IF CanStart THEN latest + 1 ELSE latest
StartOrAttach ==
  \/ /\ CanStart
     /\ latest < MaxRuns
     /\ latest' = latest + 1
     /\ stage' = [stage EXCEPT ![latest + 1] = "check"]
     /\ closed' = [closed EXCEPT ![latest + 1] = "open"]
     /\ UNCHANGED <<live, tries, zombies, landed, decided, told>>
  \/ /\ LatestOpen
     /\ UNCHANGED runVars

\* start_command reaches Temporal and its Update is admitted; or the start persists and
\* its reply is lost (TemporalUnavailableError: a 503 that says it may have started).
Start(s) ==
  /\ pc[s] = "start"
  /\ StartOrAttach
  /\ \/ /\ pc' = [pc EXCEPT ![s] = "wait"]
        /\ on' = [on EXCEPT ![s] = Attached]
        /\ UNCHANGED answer
     \/ Answer(s, NoRun, "again")
  /\ UNCHANGED <<rowVars, judged>>

\* AlreadyClosedError: the id's last execution completed, the record is read again.
StartRefused(s) ==
  /\ pc[s] = "start"
  /\ \E r \in Runs : r = latest /\ closed[r] = "completed"
  /\ Goto(s, "refindClosed")
  /\ UNCHANGED <<runVars, rowVars, judged>>

\* What the `accepted` Update of execution r can answer now, if anything: the refusal,
\* the finished record, or (answers_running) the record once it is written.
UpdateAnswers(r) ==
  ({told[r]} \ {"none"})
  \union {a \in {"running"} : /\ AnswersRunning /\ Open(r)
                             /\ stage[r] \in {"prelude", "effect", "finish"}
                             /\ decided[r] # "nothing"}

UpdateAnswered(s) ==
  /\ pc[s] = "wait"
  /\ \E a \in UpdateAnswers(on[s]) : Answer(s, on[s], a)
  /\ UNCHANGED <<runVars, rowVars, judged>>

\* The deadline passes (late_answer): still accepting, the record is read again; or
\* Temporal does not answer the describe either, a 503.
UpdateLate(s) ==
  /\ pc[s] = "wait"
  /\ \/ Goto(s, "refindLate")
     \/ Answer(s, NoRun, "again")
  /\ UNCHANGED <<runVars, rowVars, judged>>

\* CommandClosedError / CommandClosingError: the execution ended under the Update.
UpdateClosed(s) ==
  /\ pc[s] = "wait"
  /\ ~Open(on[s])
  /\ Answer(s, NoRun, "again")
  /\ UNCHANGED <<runVars, rowVars, judged>>

\* Mutant: the 409 is answered without reading the record again.
RefindGone(s) ==
  /\ pc[s] \in {"refindClosed", "refindLate"}
  /\ \/ pc[s] = "refindClosed" /\ Answer(s, NoRun, "gone")
     \/ pc[s] = "refindLate" /\ AnswerFromRecord(s)
  /\ UNCHANGED <<runVars, rowVars, judged>>

\* Mutant: a late send keeps polling for a record.
RefindPolls(s) ==
  /\ pc[s] \in {"refindClosed", "refindLate"}
  /\ AnswerFromRecord(s)
  /\ UNCHANGED <<runVars, rowVars, judged>>

\* The second read: 409 when a completed execution's record is gone, 503 when a late
\* one has not written its record.
Refind(s) ==
  /\ pc[s] \in {"refindClosed", "refindLate"}
  /\ \/ AnswerFromRecord(s)
     \/ /\ Newest = {}
        /\ Answer(s, NoRun, IF pc[s] = "refindClosed" THEN "gone" ELSE "again")
  /\ UNCHANGED <<runVars, rowVars, judged>>

(***************************************************************************)
(* The workflow: OperationWorkflow.run.  Each step is one workflow task.   *)
(***************************************************************************)
At(r, where) == Open(r) /\ stage[r] = where

\* The execution closes; nothing of it waits any more.
Close(r, how, what) ==
  /\ closed' = [closed EXCEPT ![r] = how]
  /\ stage' = [stage EXCEPT ![r] = "over"]
  /\ told' = [told EXCEPT ![r] = what]
  /\ UNCHANGED <<latest, live, tries, zombies, landed, decided>>

\* The check refused, failed its attempts or timed out: nothing was written, the Update
\* answers the refusal and the execution fails.  A cancel answers and closes it too.
CheckRefuses(r) ==
  /\ At(r, "check")
  /\ \/ Close(r, "failed", "refused")
     \/ Close(r, "cancelled", "refused")
  /\ UNCHANGED <<rowVars, judged, sendVars>>

CheckPasses(r) ==
  /\ At(r, "check")
  /\ stage' = [stage EXCEPT ![r] = "insert"]
  /\ UNCHANGED <<latest, closed, live, tries, zombies, landed, decided, told>>
  /\ UNCHANGED <<rowVars, judged, sendVars>>

\* Mutant: the insert is not shielded, a cancel closes the execution at once.
CancelInsertCloses(r) ==
  /\ At(r, "insert")
  /\ closed' = [closed EXCEPT ![r] = "cancelled"]
  /\ UNCHANGED <<latest, stage, live, tries, zombies, landed, decided, told>>
  /\ UNCHANGED <<rowVars, judged, sendVars>>

\* A cancel during op_insert: the insert is waited out.
CancelInsert(r) ==
  /\ At(r, "insert")
  /\ stage' = [stage EXCEPT ![r] = "insertCancelled"]
  /\ UNCHANGED <<latest, closed, live, tries, zombies, landed, decided, told>>
  /\ UNCHANGED <<rowVars, judged, sendVars>>

\* The workflow goes on to op_finish with an outcome.
Decide(r, outcome) ==
  /\ stage' = [stage EXCEPT ![r] = "finish"]
  /\ decided' = [decided EXCEPT ![r] = outcome]
  /\ UNCHANGED <<latest, closed, told>>

\* Mutant: the cancelled insert's row is never ended by its execution.
InsertReportedOnce(r) ==
  /\ row[r] # "absent"
  /\ At(r, "insert")
  /\ stage' = [stage EXCEPT ![r] = IF HasPrelude THEN "prelude" ELSE "effect"]
  /\ UNCHANGED <<latest, closed, live, tries, zombies, landed, decided, told>>
  /\ UNCHANGED <<rowVars, judged, sendVars>>

\* The insert activity (an attempt of it, retried without limit) reports the row.
InsertReported(r) ==
  /\ row[r] # "absent"
  /\ \/ /\ At(r, "insert")
        /\ stage' = [stage EXCEPT ![r] = IF HasPrelude THEN "prelude" ELSE "effect"]
        /\ UNCHANGED <<latest, closed, live, tries, zombies, landed, decided, told>>
     \/ /\ At(r, "insertCancelled")
        /\ Decide(r, "nothing")
        /\ UNCHANGED <<live, tries, zombies, landed>>
  /\ UNCHANGED <<rowVars, judged, sendVars>>

\* The prelude's run ends; its failure or cancel is the operation's.
PreludeEnds(r) ==
  /\ At(r, "prelude")
  /\ \/ /\ stage' = [stage EXCEPT ![r] = "effect"]
        /\ UNCHANGED <<latest, closed, decided, told>>
     \/ \E outcome \in {"failed", "maybe"} : Decide(r, outcome)
  /\ UNCHANGED <<live, tries, zombies, landed>>
  /\ UNCHANGED <<rowVars, judged, sendVars>>

(***************************************************************************)
(* The effect: the attempts of op.<kind>.run.                              *)
(***************************************************************************)
\* Nobody waits for the current attempt any more: one that has not landed may still.
Abandon(r) ==
  /\ live' = [live EXCEPT ![r] = "none"]
  /\ zombies' = [zombies EXCEPT ![r] = @ + (IF live[r] = "begun" THEN 1 ELSE 0)]

BeginAttempt(r) ==
  /\ At(r, "effect")
  /\ live[r] = "none"
  /\ tries[r] < RunAttempts
  /\ live' = [live EXCEPT ![r] = "begun"]
  /\ tries' = [tries EXCEPT ![r] = @ + 1]
  /\ UNCHANGED <<latest, stage, closed, zombies, landed, decided, told>>
  /\ UNCHANGED <<rowVars, judged, sendVars>>

Land(r) ==
  /\ live[r] = "begun"
  /\ live' = [live EXCEPT ![r] = "landed"]
  /\ landed' = [landed EXCEPT ![r] = @ + 1]
  /\ UNCHANGED <<latest, stage, closed, tries, zombies, decided, told>>
  /\ UNCHANGED <<rowVars, judged, sendVars>>

ZombieLands(r) ==
  /\ zombies[r] > 0
  /\ zombies' = [zombies EXCEPT ![r] = @ - 1]
  /\ landed' = [landed EXCEPT ![r] = @ + 1]
  /\ UNCHANGED <<latest, stage, closed, live, tries, decided, told>>
  /\ UNCHANGED <<rowVars, judged, sendVars>>

\* Mutant: the run answers ok while its step in a thread goes on.
RunReturnsEarly(r) ==
  /\ At(r, "effect")
  /\ live[r] = "begun"
  /\ Decide(r, "ok")
  /\ Abandon(r)
  /\ UNCHANGED <<tries, landed>>
  /\ UNCHANGED <<rowVars, judged, sendVars>>

RunReturns(r) ==
  /\ At(r, "effect")
  /\ live[r] = "landed"
  /\ Decide(r, "ok")
  /\ live' = [live EXCEPT ![r] = "none"]
  /\ UNCHANGED <<tries, zombies, landed>>
  /\ UNCHANGED <<rowVars, judged, sendVars>>

\* The run raises a problem: final, or (a transient one of a kind that may run again)
\* tried again.
RunRaises(r) ==
  /\ At(r, "effect")
  /\ live[r] # "none"
  /\ live' = [live EXCEPT ![r] = "none"]
  /\ \/ /\ tries[r] < RunAttempts
        /\ UNCHANGED <<latest, stage, closed, decided, told>>
     \/ Decide(r, "failed")
  /\ UNCHANGED <<tries, zombies, landed>>
  /\ UNCHANGED <<rowVars, judged, sendVars>>

\* The worker dies, the heartbeat or the run times out (tried again while attempts are
\* left), or the run answers for itself while a step in a thread goes on.
RunLost(r) ==
  /\ At(r, "effect")
  /\ live[r] # "none"
  /\ Abandon(r)
  /\ \/ /\ tries[r] < RunAttempts
        /\ UNCHANGED <<latest, stage, closed, decided, told>>
     \/ /\ tries[r] = RunAttempts \/ live[r] = "begun"
        /\ Decide(r, "maybe")
  /\ UNCHANGED <<tries, landed>>
  /\ UNCHANGED <<rowVars, judged, sendVars>>

\* Mutant: a cancel under way is recorded as OPERATION_CANCELLED.
CancelEffectNothing(r) ==
  /\ At(r, "effect")
  /\ Abandon(r)
  /\ Decide(r, "nothing")
  /\ UNCHANGED <<tries, landed>>
  /\ UNCHANGED <<rowVars, judged, sendVars>>

\* A cancel while the effect runs (or waits for a worker): the attempt is not awaited.
CancelEffect(r) ==
  /\ At(r, "effect")
  /\ Abandon(r)
  /\ Decide(r, "maybe")
  /\ UNCHANGED <<tries, landed>>
  /\ UNCHANGED <<rowVars, judged, sendVars>>

\* The finish activity reports the row as it is now, and the execution completes.
FinishReported(r) ==
  /\ At(r, "finish")
  /\ Ended(r)
  /\ Close(r, "completed", row[r])
  /\ UNCHANGED <<rowVars, judged, sendVars>>

\* An operator terminates the execution: it stops where it is, its attempts go on.
Terminate(r) ==
  /\ Open(r)
  /\ Cardinality(Terminated) < MaxTerminations
  /\ closed' = [closed EXCEPT ![r] = "terminated"]
  /\ Abandon(r)
  /\ UNCHANGED <<latest, stage, tries, landed, decided, told>>
  /\ UNCHANGED <<rowVars, judged, sendVars>>

(***************************************************************************)
(* The record: OperationStore, and the reconciler that ends lost rows.     *)
(***************************************************************************)
\* An attempt of op_insert commits: ON CONFLICT DO NOTHING, so only where the execution
\* has had no row (bound: no attempt outlives a retention).  After a terminate, where the
\* stage stays, an attempt in flight still may.
InsertCommits(r) ==
  /\ stage[r] \in {"insert", "insertCancelled"}
  /\ rank[r] = 0
  /\ row' = [row EXCEPT ![r] = "running"]
  /\ rank' = [rank EXCEPT ![r] = 1 + Cardinality({q \in Runs : rank[q] > 0})]
  /\ UNCHANGED <<runVars, judged, sendVars>>

\* Mutant: the finish has no status = 'running' in its WHERE.
FinishOverwrites(r) ==
  /\ stage[r] = "finish"
  /\ row[r] # "absent"
  /\ row' = [row EXCEPT ![r] = decided[r]]
  /\ UNCHANGED <<runVars, rank, judged, sendVars>>

\* An attempt of op_finish commits: only a running row is ended.
FinishCommits(r) ==
  /\ stage[r] = "finish"
  /\ row[r] = "running"
  /\ row' = [row EXCEPT ![r] = decided[r]]
  /\ UNCHANGED <<runVars, rank, judged, sendVars>>

\* Mutant: the prune marks a row instead of deleting it.
PruneMarks(r) ==
  /\ Ended(r)
  /\ ~Open(r)
  /\ \A s \in Sends : pc[s] \in {"idle", "answered"}
  /\ row' = [row EXCEPT ![r] = "pruned"]
  /\ UNCHANGED <<runVars, rank, judged, sendVars>>

\* Another operation's insert prunes rows that ended a retention (a day at least) ago:
\* no send lasts that long, and (bound) neither does an execution.
Prune(r) ==
  /\ Ended(r)
  /\ ~Open(r)
  /\ \A s \in Sends : pc[s] \in {"idle", "answered"}
  /\ row' = [row EXCEPT ![r] = "absent"]
  /\ UNCHANGED <<runVars, rank, judged, sendVars>>

\* Mutant: a row past the grace is lost, whatever Temporal says.
JudgeUnasked(r) ==
  /\ row[r] = "running"
  /\ judged' = judged \union {r}
  /\ UNCHANGED <<runVars, rowVars, sendVars>>

\* Mutant: a terminated execution is taken for one that ends its own row.
JudgeTrusts(r) ==
  /\ row[r] = "running"
  /\ closed[r] \in {"completed", "failed", "cancelled"}
  /\ ~LatestOpen
  /\ judged' = judged \union {r}
  /\ UNCHANGED <<runVars, rowVars, sendVars>>

\* reconcile_lost_operations finds a running row (older than LOST_RUN_GRACE) whose
\* execution runs neither under its run id nor as the id's latest...
Judge(r) ==
  /\ row[r] = "running"
  /\ ~Open(r)
  /\ ~LatestOpen
  /\ judged' = judged \union {r}
  /\ UNCHANGED <<runVars, rowVars, sendVars>>

\* Mutant: the reconciler's end has no status = 'running' in its WHERE.
EndLostOverwrites(r) ==
  /\ r \in judged
  /\ judged' = judged \ {r}
  /\ row' = [row EXCEPT ![r] = "lost"]
  /\ UNCHANGED <<runVars, rank, sendVars>>

\* ... and later ends it, unless it ended meanwhile.
EndLost(r) ==
  /\ r \in judged
  /\ judged' = judged \ {r}
  /\ row' = [row EXCEPT ![r] = IF @ = "running" THEN "lost" ELSE @]
  /\ UNCHANGED <<runVars, rank, sendVars>>

-----------------------------------------------------------------------------
RouteStep(s) ==
  \/ Find(s) \/ Describe(s) \/ BeforeStart(s) \/ Unreachable(s) \/ Start(s)
  \/ StartRefused(s) \/ UpdateAnswered(s) \/ UpdateLate(s) \/ UpdateClosed(s) \/ Refind(s)

WorkflowStep(r) ==
  \/ CheckRefuses(r) \/ CheckPasses(r) \/ InsertReported(r) \/ PreludeEnds(r)
  \/ RunReturns(r) \/ RunRaises(r) \/ RunLost(r) \/ FinishReported(r)

ActivityStep(r) ==
  \/ BeginAttempt(r) \/ Land(r) \/ ZombieLands(r) \/ InsertCommits(r) \/ FinishCommits(r)

OperatorStep(r) == CancelInsert(r) \/ CancelEffect(r) \/ Terminate(r)

RecordStep(r) == Prune(r) \/ Judge(r) \/ EndLost(r)

Next ==
  \/ \E s \in Sends : RouteStep(s)
  \/ \E r \in Runs : WorkflowStep(r) \/ ActivityStep(r) \/ OperatorStep(r) \/ RecordStep(r)

Spec == Init /\ [][Next]_vars

\* Workers of every queue, the API's replicas and Temporal come back: an activity that is
\* waited for commits, a workflow task runs, a request in the API is answered by its
\* deadlines, and a reconciler's pass is made every LOST_RUN_INTERVAL.  Nothing is owed
\* by an operator, by a client (a send may never be made) or by a zombie.
Fairness ==
  /\ \A s \in Sends : WF_vars(pc[s] # "idle" /\ RouteStep(s))
  /\ \A r \in Runs :
       /\ WF_vars(WorkflowStep(r))
       /\ WF_vars(BeginAttempt(r))
       /\ WF_vars(Open(r) /\ InsertCommits(r))
       /\ WF_vars(Open(r) /\ FinishCommits(r))
       /\ WF_vars(Judge(r))
       /\ WF_vars(EndLost(r))

FairSpec == Spec /\ Fairness

(***************************************************************************)
(* Properties.                                                             *)
(***************************************************************************)
RunTypeOK ==
  /\ latest \in 0..MaxRuns
  /\ stage \in [Runs -> Stages]
  /\ closed \in [Runs -> Closes]
  /\ live \in [Runs -> {"none", "begun", "landed"}]
  /\ tries \in [Runs -> Nat]
  /\ zombies \in [Runs -> Nat]
  /\ landed \in [Runs -> Nat]
  /\ decided \in [Runs -> Outcomes \union {"none"}]
  /\ told \in [Runs -> Outcomes \union {"none", "refused"}]
  /\ \A r \in Runs : stage[r] = "finish" => decided[r] # "none"

RecordTypeOK ==
  /\ row \in [Runs -> Outcomes \union {"absent", "running"}]
  /\ rank \in [Runs -> Nat]
  /\ judged \subseteq Runs

SendTypeOK ==
  /\ pc \in [Sends -> Pcs]
  /\ on \in [Sends -> 0..MaxRuns]
  /\ answer \in [Sends -> Answers]
  /\ \A s \in Sends : pc[s] = "wait" => on[s] # NoRun

\* Every variable keeps its type.
TypeOK == RunTypeOK /\ RecordTypeOK /\ SendTypeOK

\* A repeat never repeats the effect: two executions of one key both begin it only where
\* an operator terminated the earlier one (id policies + record-first read + "the
\* execution never fails after the record").
EffectOnce ==
  \A r, q \in Runs : (r < q /\ tries[r] > 0 /\ tries[q] > 0) => closed[r] = "terminated"

\* With one attempt (run_attempts = 1) an execution's effect happens at most once,
\* abandoned attempts that land late included, and a recorded success did happen.
AttemptOnce ==
  \A r \in Runs : /\ landed[r] + zombies[r] <= RunAttempts
                 /\ (row[r] = "ok" \/ told[r] = "ok") => landed[r] > 0

\* Spec 2026-10-01 4.2: "a repeat never repeats the effect, whether the first execution is
\* still running or already closed"; an operator's terminate is no exception there ("the
\* first guard covers it").
RepeatNeverRepeats ==
  \A r, q \in Runs : tries[r] > 0 /\ tries[q] > 0 => r = q

\* What the client is told was not done was not done, and never will be by that
\* execution: a refusal, a cancel before the effect.
NothingDoneIsTrue ==
  \A r \in Runs :
    (told[r] \in {"refused", "nothing"} \/ row[r] = "nothing") =>
      tries[r] = 0 /\ landed[r] = 0 /\ ~(Open(r) /\ stage[r] \in {"prelude", "effect"})

\* "A record means the workflow completes": an execution that failed or was cancelled has
\* no row, now or later, and a completed one told what its row said.
RecordMeansCompleted ==
  \A r \in Runs :
    /\ closed[r] \in {"failed", "cancelled"} => rank[r] = 0 /\ stage[r] = "over"
    /\ closed[r] = "completed" => rank[r] > 0 /\ row[r] \in {told[r], "absent"}

\* The reconciler calls a row lost only once its execution has closed, and never one
\* whose outcome was reported.
LostOnlyIfClosed ==
  \A r \in Runs : row[r] = "lost" => closed[r] = "terminated"

\* Sends of one request that are answered from one execution's record agree, and sends
\* answered from two executions' records saw one of them terminated.
FinalAnswer(s) == pc[s] = "answered" /\ answer[s] \in Outcomes
AnswersAgree ==
  \A s, t \in Sends : FinalAnswer(s) /\ FinalAnswer(t) =>
    \/ on[s] = on[t] /\ answer[s] = answer[t]
    \/ on[s] # on[t] /\ \E r \in {on[s], on[t]} : closed[r] = "terminated"

\* A 409 "already ran, and its record has since been deleted" is answered only for a
\* completed execution, never while its record is still there to answer from.
GoneOnlyIfPruned ==
  \A s \in Sends : answer[s] = "gone" =>
    \E r \in Runs : closed[r] = "completed" /\ row[r] = "absent" /\ rank[r] > 0

\* A recorded outcome is final: no retried finish, zombie or reconciler rewrites it.
RecordIsFinal ==
  [][\A r \in Runs : Ended(r) => row'[r] \in {row[r], "absent"}]_vars

\* Every row that is running ends: by its execution, or by the reconciler.
RunningRowsEnd == \A r \in Runs : row[r] = "running" ~> Ended(r)
\* Every request the route took in is answered, and every execution closes.
SendsAnswered == \A s \in Sends : pc[s] # "idle" ~> pc[s] = "answered"
RunsClose == \A r \in Runs : Open(r) ~> ~Open(r)
=============================================================================
