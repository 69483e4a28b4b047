------------------------------- MODULE PrintRun -------------------------------
(***************************************************************************)
(* One print request of ScadBuddy (spec 2026-10-01, 5): sends of it name   *)
(* one key, the key one Temporal workflow id, and an execution slices the  *)
(* plates, queues each on Bambuddy and records what became of it.  The     *)
(* module composes                                                         *)
(*   - the route, api/printing.py accept_run (one process per send);       *)
(*   - the workflow, workflows/printing.py PrintRunWorkflow, on the path   *)
(*     through Bambuddy's queue;                                           *)
(*   - the activities that write, whose commits may come late;             *)
(*   - the rows, bambuddy/runs.py, and the lost-run reconciler;            *)
(*   - Bambuddy, which may take a POST /queue/ nobody waits for any more;  *)
(*   - somebody who cancels, an operator who terminates, time that passes. *)
(***************************************************************************)
EXTENDS Integers, FiniteSets

CONSTANTS
  Sends,          \* the sends of the request
  MaxRuns,        \* bound: executions of the workflow id
  MaxTerminations,\* bound: executions an operator terminates
  NPlates,        \* plates of the print
  Reused          \* the plates the plan may queue from an earlier slice

ASSUME PrintBounds ==
  /\ MaxRuns \in Nat \ {0}
  /\ MaxTerminations \in Nat
ASSUME PrintPlates ==
  /\ NPlates \in Nat \ {0}
  /\ Reused \subseteq 1..NPlates

VARIABLES
  keyed,     \* whether the request carries a request_id (never changes)
  latest,    \* how many executions of the id Temporal has started
  stage,     \* per execution: where its workflow code is
  closed,    \* per execution: Temporal's status
  absorbed,  \* per execution: cancel_absorbed
  attempted, \* per execution: the workflow's enqueue_attempted
  unstarted, \* per execution: enqueue_unstarted
  plate,     \* per execution: the plate it is at
  resliced,  \* per execution: this plate was sliced by the run
  post,      \* per execution: its current POST /queue/
  told,      \* per execution: what its `accepted` Update answers with
  why,       \* per execution: the error its print_fail carries
  queued,    \* per execution and plate: queue items Bambuddy made
  recorded,  \* per execution: the plates print_record wrote
  row,       \* per execution: the status of its row of `print_runs`
  rank,      \* per execution: its row's place in created_at order
  marked,    \* per execution: the row's enqueue_attempted
  fresh,     \* per execution: its row finished within the window of repeats without an id
  judged,    \* rows a reconciler found closed and has not ended yet
  pc,        \* per send: where the route is
  on,        \* per send: the execution it waits on, or whose run it was answered with
  since,     \* per send without an id: the rows that had ended when it read the record
  answer     \* per send: the route's answer

runVars == <<latest, closed, told>>
workVars == <<stage, absorbed, attempted, unstarted, plate, resliced, why>>
printVars == <<post, queued, recorded>>
rowVars == <<row, rank, marked, fresh, judged>>
sendVars == <<pc, on, since, answer>>
vars == <<keyed, runVars, workVars, printVars, rowVars, sendVars>>

NoRun == 0
Runs == 1..MaxRuns
Plates == 1..NPlates

Stages == {"none", "check", "insert", "plan", "slice", "arm", "enqueue", "reslice", "record",
           "finish", "succeed", "follow", "fail", "window", "over"}
Closes == {"none", "open", "completed", "failed", "cancelled", "terminated"}
\* CANCELLED, CANCELLED_UNQUEUED, CANCELLED_QUEUEING, a problem of the run's own, and the
\* reconciler's LOST_UNQUEUED and LOST.
Errors == {"cancelled", "unqueued", "queueing", "failed", "lostUnqueued", "lost"}
Pcs == {"idle", "start", "await", "join", "closing", "restart", "rejoin", "refind", "answered"}
Answers == {"none", "run", "refused", "again", "gone"}

Open(r) == closed[r] = "open"
Running(r) == row[r] = "running"
Ended(r) == row[r] \in {"succeeded", "failed"}
LatestOpen == \E r \in Runs : r = latest /\ Open(r)
Terminated == {r \in Runs : closed[r] = "terminated"}
\* PrintRun.may_have_queued.
MayHaveQueued(r) == row[r] = "failed" /\ marked[r]
Kept(r) == row[r] = "succeeded" \/ MayHaveQueued(r)

Init ==
  /\ keyed \in BOOLEAN
  /\ latest = NoRun
  /\ stage = [r \in Runs |-> "none"]
  /\ closed = [r \in Runs |-> "none"]
  /\ absorbed = [r \in Runs |-> FALSE]
  /\ attempted = [r \in Runs |-> FALSE]
  /\ unstarted = [r \in Runs |-> FALSE]
  /\ plate = [r \in Runs |-> 1]
  /\ resliced = [r \in Runs |-> FALSE]
  /\ post = [r \in Runs |-> "none"]
  /\ told = [r \in Runs |-> "none"]
  /\ why = [r \in Runs |-> "none"]
  /\ queued = [r \in Runs |-> [p \in Plates |-> 0]]
  /\ recorded = [r \in Runs |-> {}]
  /\ row = [r \in Runs |-> "absent"]
  /\ rank = [r \in Runs |-> 0]
  /\ marked = [r \in Runs |-> FALSE]
  /\ fresh = [r \in Runs |-> FALSE]
  /\ judged = {}
  /\ pc = [s \in Sends |-> "idle"]
  /\ on = [s \in Sends |-> NoRun]
  /\ since = [s \in Sends |-> {}]
  /\ answer = [s \in Sends |-> "none"]

(***************************************************************************)
(* The route: accept_run                                                   *)
(***************************************************************************)
Answer(s, r, a) ==
  /\ pc' = [pc EXCEPT ![s] = "answered"]
  /\ on' = [on EXCEPT ![s] = r]
  /\ answer' = [answer EXCEPT ![s] = a]
  /\ since' = [since EXCEPT ![s] = @ \intersect {r}]

Goto(s, where) ==
  /\ pc' = [pc EXCEPT ![s] = where]
  /\ on' = [on EXCEPT ![s] = NoRun]
  /\ UNCHANGED answer

NewestOf(rows) == {r \in rows : \A q \in rows : rank[q] <= rank[r]}
\* store.find: the key's newest row; without a request_id, of the rows in flight and of
\* those a repeat within the window answers.
Repeats(withId) ==
  NewestOf({r \in Runs : /\ row[r] # "absent"
                         /\ withId \/ Running(r) \/ (Kept(r) /\ fresh[r])})

AnswerFromRecord(s, withId) == \E r \in Repeats(withId) : Answer(s, r, "run")

\* The first read of the record.
Find(s) ==
  /\ pc[s] = "idle"
  /\ \/ AnswerFromRecord(s, keyed)
     \/ /\ Repeats(keyed) = {}
        /\ Goto(s, "start")
        /\ since' = [since EXCEPT ![s] = {r \in Runs : ~keyed /\ Ended(r)}]
  /\ UNCHANGED <<keyed, runVars, workVars, printVars, rowVars>>

\* Mutant: ALLOW_DUPLICATE for every key.
CanStartAlways == \A r \in Runs : r = latest => ~Open(r)
\* ALLOW_DUPLICATE_FAILED_ONLY for a request_id, else ALLOW_DUPLICATE.
CanStart ==
  \A r \in Runs : r = latest =>
    ~Open(r) /\ (keyed => closed[r] \in {"failed", "cancelled", "terminated"})

StartNew ==
  /\ CanStart
  /\ latest < MaxRuns
  /\ latest' = latest + 1
  /\ stage' = [stage EXCEPT ![latest + 1] = "check"]
  /\ closed' = [closed EXCEPT ![latest + 1] = "open"]
  /\ UNCHANGED <<told, absorbed, attempted, unstarted, plate, resliced, why>>

\* update-with-start: a new execution, or (USE_EXISTING) the open one; or the start
\* persists and its reply is lost (a 503 that says it may have started).
Start(s) ==
  /\ pc[s] \in {"start", "restart"}
  /\ \/ /\ StartNew
        /\ \/ Answer(s, NoRun, "again")
           \/ /\ pc' = [pc EXCEPT ![s] = "await"]
              /\ on' = [on EXCEPT ![s] = latest + 1]
              /\ UNCHANGED <<since, answer>>
     \/ /\ LatestOpen
        /\ pc' = [pc EXCEPT ![s] = IF @ = "start" THEN "join" ELSE "rejoin"]
        /\ on' = [on EXCEPT ![s] = latest]
        /\ UNCHANGED <<since, answer, runVars, workVars>>
  /\ UNCHANGED <<keyed, printVars, rowVars>>

\* AlreadyClosedError: the press's execution completed.
StartRefused(s) ==
  /\ pc[s] \in {"start", "restart"}
  /\ keyed
  /\ \E r \in Runs : r = latest /\ closed[r] = "completed"
  /\ Goto(s, "refind")
  /\ UNCHANGED <<keyed, runVars, workVars, printVars, rowVars, since>>

Refind(s) ==
  /\ pc[s] = "refind"
  /\ \/ AnswerFromRecord(s, TRUE)
     \/ Repeats(TRUE) = {} /\ Answer(s, NoRun, "gone")
  /\ UNCHANGED <<keyed, runVars, workVars, printVars, rowVars>>

Waiting(s) == pc[s] \in {"await", "join", "rejoin"}

\* Temporal cannot be asked, the Update is late, or its execution closed under it: a 503,
\* sent again.
NoAnswer(s) ==
  /\ pc[s] \in {"start", "restart"} \/ Waiting(s)
  /\ Answer(s, NoRun, "again")
  /\ UNCHANGED <<keyed, runVars, workVars, printVars, rowVars>>

\* Mutant: only the first start asks whether the run it joined had ended.
EndedOnce(s) == pc[s] = "join" /\ ~keyed /\ Ended(on[s])
\* `ended(answer)`: a repeat joined a run that has ended and find did not answer it.
EndedRun(s) == pc[s] \in {"join", "rejoin"} /\ ~keyed /\ Ended(on[s])

UpdateAnswered(s) ==
  /\ Waiting(s)
  /\ \/ told[on[s]] = "refused" /\ Answer(s, NoRun, "refused")
     \/ /\ told[on[s]] = "run"
        /\ ~EndedRun(s)
        /\ Answer(s, on[s], "run")
     \/ /\ told[on[s]] = "run"
        /\ EndedRun(s)
        /\ IF pc[s] = "join" THEN Goto(s, "closing") /\ UNCHANGED since
                             ELSE Answer(s, NoRun, "again")
  /\ UNCHANGED <<keyed, runVars, workVars, printVars, rowVars>>

\* The wait for the ended run's execution to close is over (or gave up): start again, or
\* no time is left and the client sends it again.
ClosingWaited(s) ==
  /\ pc[s] = "closing"
  /\ \/ Goto(s, "restart") /\ UNCHANGED since
     \/ Answer(s, NoRun, "again")
  /\ UNCHANGED <<keyed, runVars, workVars, printVars, rowVars>>

(***************************************************************************)
(* The workflow: PrintRunWorkflow.run and _print                           *)
(***************************************************************************)
At(r, where) == Open(r) /\ stage[r] = where

To(r, where) == stage' = [stage EXCEPT ![r] = where]

\* The execution goes to print_fail with an error.
Fail(r, error) ==
  /\ To(r, "fail")
  /\ why' = [why EXCEPT ![r] = error]

\* What a cancel that stops the run records.
CancelError(r) == IF attempted[r] THEN "queueing" ELSE "unqueued"

\* An execution's variables go with it, but what an activity that may commit yet was given.
Forget(r) ==
  /\ attempted' = [attempted EXCEPT ![r] = FALSE]
  /\ resliced' = [resliced EXCEPT ![r] = FALSE]
  /\ unstarted' = [unstarted EXCEPT ![r] = @ /\ stage[r] = "fail" /\ Running(r)]
  /\ plate' = [plate EXCEPT ![r] = IF post[r] = "flying" \/ stage[r] = "record" THEN @ ELSE 1]

CloseRun(r, how) ==
  /\ closed' = [closed EXCEPT ![r] = how]
  /\ To(r, "over")
  /\ Forget(r)

\* print_check refuses, fails its attempts, or ended after every client stopped waiting
\* (UNWAITED); a cancel refuses too.  Nothing was written.
CheckRefuses(r) ==
  /\ At(r, "check")
  /\ CloseRun(r, "failed") \/ CloseRun(r, "cancelled")
  /\ told' = [told EXCEPT ![r] = "refused"]
  /\ UNCHANGED <<keyed, latest, absorbed, why>>
  /\ UNCHANGED <<printVars, rowVars, sendVars>>

CheckPasses(r) ==
  /\ At(r, "check")
  /\ To(r, "insert")
  /\ UNCHANGED <<keyed, runVars, absorbed, attempted, unstarted, plate, resliced, why>>
  /\ UNCHANGED <<printVars, rowVars, sendVars>>

\* print_insert reports the row; one that absorbed a cancel is recorded CANCELLED.
InsertReported(r) ==
  /\ At(r, "insert")
  /\ rank[r] > 0
  /\ \/ /\ absorbed[r]
        /\ Fail(r, "cancelled")
        /\ UNCHANGED told
     \/ /\ ~absorbed[r]
        /\ To(r, "plan")
        /\ told' = [told EXCEPT ![r] = "run"]
        /\ UNCHANGED why
  /\ UNCHANGED <<keyed, latest, closed, absorbed, attempted, unstarted, plate, resliced>>
  /\ UNCHANGED <<printVars, rowVars, sendVars>>

\* Where plate p goes once the plan is made or the plate before it is recorded: its slice,
\* or straight on when the plan found one to reuse.
AfterSlice(r) == IF attempted[r] THEN "enqueue" ELSE "arm"
StartPlate(r, p) ==
  /\ plate' = [plate EXCEPT ![r] = p]
  /\ resliced' = [resliced EXCEPT ![r] = FALSE]
  /\ To(r, "slice") \/ (p \in Reused /\ To(r, AfterSlice(r)))

\* print_plan ends, or fails.
PlanEnds(r) ==
  /\ At(r, "plan")
  /\ \/ StartPlate(r, 1) /\ UNCHANGED why
     \/ Fail(r, "failed") /\ UNCHANGED <<plate, resliced>>
  /\ UNCHANGED <<keyed, runVars, absorbed, attempted, unstarted>>
  /\ UNCHANGED <<printVars, rowVars, sendVars>>

\* A plate's slice ends (lost ones are started again), or fails the run.
SliceEnds(r) ==
  /\ At(r, "slice")
  /\ \/ /\ To(r, AfterSlice(r))
        /\ resliced' = [resliced EXCEPT ![r] = TRUE]
        /\ UNCHANGED why
     \/ Fail(r, "failed") /\ UNCHANGED resliced
  /\ UNCHANGED <<keyed, runVars, absorbed, attempted, unstarted, plate>>
  /\ UNCHANGED <<printVars, rowVars, sendVars>>

\* print_start_enqueue reports: the row's column is set before the first POST.  A cancel
\* it absorbed stops the run here.
ArmReported(r) ==
  /\ At(r, "arm")
  /\ marked[r] \/ ~Running(r)
  /\ unstarted' = [unstarted EXCEPT ![r] = absorbed[r]]
  /\ \/ absorbed[r] /\ Fail(r, "unqueued") /\ UNCHANGED attempted
     \/ /\ ~absorbed[r]
        /\ To(r, "enqueue")
        /\ attempted' = [attempted EXCEPT ![r] = TRUE]
        /\ UNCHANGED why
  /\ UNCHANGED <<keyed, runVars, absorbed, plate, resliced>>
  /\ UNCHANGED <<printVars, rowVars, sendVars>>

(***************************************************************************)
(* Queueing: print_enqueue and its POST /queue/, made once                 *)
(***************************************************************************)
\* The attempt of print_enqueue begins.
PostSent(r) ==
  /\ At(r, "enqueue")
  /\ post[r] = "none"
  /\ post' = [post EXCEPT ![r] = "flying"]
  /\ UNCHANGED <<keyed, runVars, workVars, queued, recorded, rowVars, sendVars>>

\* Bambuddy takes it, whoever still waits.
PostTaken(r) ==
  /\ post[r] = "flying"
  /\ post' = [post EXCEPT ![r] = IF At(r, "enqueue") THEN "taken" ELSE "none"]
  /\ queued' = [queued EXCEPT ![r][plate[r]] = @ + 1]
  /\ UNCHANGED <<keyed, runVars, workVars, recorded, rowVars, sendVars>>

EnqueueReported(r) ==
  /\ At(r, "enqueue")
  /\ post[r] = "taken"
  /\ post' = [post EXCEPT ![r] = "none"]
  /\ To(r, "record")
  /\ UNCHANGED <<keyed, runVars, absorbed, attempted, unstarted, plate, resliced, why>>
  /\ UNCHANGED <<queued, recorded, rowVars, sendVars>>

\* Mutant: an attempt whose answer was lost is made again.
EnqueueRetried(r) ==
  /\ At(r, "enqueue")
  /\ post[r] = "taken"
  /\ post' = [post EXCEPT ![r] = "none"]
  /\ UNCHANGED <<keyed, runVars, workVars, queued, recorded, rowVars, sendVars>>

\* Refused before or by Bambuddy; or its worker died or its time ran out, and the attempt
\* may go on.
EnqueueFails(r) ==
  /\ At(r, "enqueue")
  /\ Fail(r, "failed")
  /\ \/ post' = [post EXCEPT ![r] = "none"]
     \/ post[r] = "flying" /\ UNCHANGED post
  /\ UNCHANGED <<keyed, runVars, absorbed, attempted, unstarted, plate, resliced>>
  /\ UNCHANGED <<queued, recorded, rowVars, sendVars>>

\* Mutant: a gone slice of any plate counts as nothing queued.
EnqueueGoneUnqueued(r) ==
  /\ At(r, "enqueue")
  /\ post[r] = "flying"
  /\ plate[r] \in Reused /\ ~resliced[r]
  /\ post' = [post EXCEPT ![r] = "none"]
  /\ attempted' = [attempted EXCEPT ![r] = FALSE]
  /\ unstarted' = [unstarted EXCEPT ![r] = TRUE]
  /\ To(r, "reslice")
  /\ UNCHANGED <<keyed, runVars, absorbed, plate, resliced, why>>
  /\ UNCHANGED <<queued, recorded, rowVars, sendVars>>

\* SLICE_GONE: the POST queued nothing, the reused slice is no longer on Bambuddy.  On
\* the first plate nothing is queued until the new slice is.
EnqueueGone(r) ==
  /\ At(r, "enqueue")
  /\ post[r] = "flying"
  /\ plate[r] \in Reused /\ ~resliced[r]
  /\ post' = [post EXCEPT ![r] = "none"]
  /\ attempted' = [attempted EXCEPT ![r] = plate[r] # 1]
  /\ unstarted' = [unstarted EXCEPT ![r] = plate[r] = 1]
  /\ \/ absorbed[r] /\ Fail(r, IF plate[r] = 1 THEN "unqueued" ELSE "queueing")
     \/ ~absorbed[r] /\ To(r, "reslice") /\ UNCHANGED why
  /\ UNCHANGED <<keyed, runVars, absorbed, plate, resliced>>
  /\ UNCHANGED <<queued, recorded, rowVars, sendVars>>

ResliceEnds(r) ==
  /\ At(r, "reslice")
  /\ \/ /\ To(r, "enqueue")
        /\ attempted' = [attempted EXCEPT ![r] = TRUE]
        /\ unstarted' = [unstarted EXCEPT ![r] = FALSE]
        /\ resliced' = [resliced EXCEPT ![r] = TRUE]
        /\ UNCHANGED why
     \/ Fail(r, "failed") /\ UNCHANGED <<attempted, unstarted, resliced>>
  /\ UNCHANGED <<keyed, runVars, absorbed, plate, printVars, rowVars, sendVars>>

\* An attempt of print_record writes the plate's sends.
RecordCommits(r) ==
  /\ stage[r] = "record"
  /\ recorded' = [recorded EXCEPT ![r] = @ \union {plate[r]}]
  /\ UNCHANGED <<keyed, runVars, workVars, post, queued, rowVars, sendVars>>

\* print_record reports; before the last plate an absorbed cancel stops the run.
RecordReported(r) ==
  /\ At(r, "record")
  /\ plate[r] \in recorded[r]
  /\ \/ /\ plate[r] = NPlates
        /\ To(r, "finish")
        /\ UNCHANGED <<plate, resliced, why>>
     \/ /\ plate[r] < NPlates /\ absorbed[r]
        /\ Fail(r, CancelError(r))
        /\ UNCHANGED <<plate, resliced>>
     \/ /\ plate[r] < NPlates /\ ~absorbed[r]
        /\ StartPlate(r, plate[r] + 1)
        /\ UNCHANGED why
  /\ UNCHANGED <<keyed, runVars, absorbed, attempted, unstarted, printVars, rowVars, sendVars>>

\* print_record gives up (BOUNDED_RETRY).
RecordFails(r) ==
  /\ At(r, "record")
  /\ Fail(r, "failed")
  /\ UNCHANGED <<keyed, runVars, absorbed, attempted, unstarted, plate, resliced>>
  /\ UNCHANGED <<printVars, rowVars, sendVars>>

\* print_finish is retried without limit: every plate is queued.
FinishReported(r) ==
  /\ At(r, "finish")
  /\ To(r, "succeed")
  /\ UNCHANGED <<keyed, runVars, absorbed, attempted, unstarted, plate, resliced, why>>
  /\ UNCHANGED <<printVars, rowVars, sendVars>>

SucceedReported(r) ==
  /\ At(r, "succeed")
  /\ Ended(r)
  /\ To(r, "follow")
  /\ UNCHANGED <<keyed, runVars, absorbed, attempted, unstarted, plate, resliced, why>>
  /\ UNCHANGED <<printVars, rowVars, sendVars>>

\* The row is final: an execution whose run may have queued stays open for the repeat
\* window, unless it absorbed a cancel.
EndRun(r) ==
  /\ told' = [told EXCEPT ![r] = "run"]
  /\ \/ /\ Kept(r) /\ ~absorbed[r] /\ To(r, "window")
        /\ UNCHANGED <<closed, attempted, unstarted, plate, resliced>>
     \/ ~(Kept(r) /\ ~absorbed[r]) /\ CloseRun(r, "completed")

Followed(r) ==
  /\ At(r, "follow")
  /\ EndRun(r)
  /\ UNCHANGED <<keyed, latest, absorbed, why>>
  /\ UNCHANGED <<printVars, rowVars, sendVars>>

\* print_fail reports the row as it is now.
FailReported(r) ==
  /\ At(r, "fail")
  /\ Ended(r)
  /\ EndRun(r)
  /\ UNCHANGED <<keyed, latest, absorbed, why>>
  /\ UNCHANGED <<printVars, rowVars, sendVars>>

WindowEnds(r) ==
  /\ At(r, "window")
  /\ ~fresh[r]
  /\ CloseRun(r, "completed")
  /\ UNCHANGED <<keyed, latest, told, absorbed, why>>
  /\ UNCHANGED <<printVars, rowVars, sendVars>>

(***************************************************************************)
(* A cancel, and an operator's terminate                                   *)
(***************************************************************************)
\* Waited through: what is in flight is reported first.
Shielded == {"insert", "arm", "enqueue", "record", "finish", "succeed", "fail"}
\* Mutant: a plate's record is cancelled with the run.
CancelDropsRecord(r) ==
  /\ At(r, "record") /\ ~absorbed[r]
  /\ absorbed' = [absorbed EXCEPT ![r] = TRUE]
  /\ Fail(r, CancelError(r))
  /\ UNCHANGED <<keyed, runVars, attempted, unstarted, plate, resliced>>
  /\ UNCHANGED <<printVars, rowVars, sendVars>>

Cancel(r) ==
  /\ Open(r) /\ ~absorbed[r]
  /\ \/ /\ stage[r] \in Shielded
        /\ absorbed' = [absorbed EXCEPT ![r] = TRUE]
        /\ UNCHANGED <<closed, stage, why, attempted, unstarted, plate, resliced>>
     \/ /\ stage[r] \in {"plan", "slice", "reslice", "follow"}
        /\ absorbed' = [absorbed EXCEPT ![r] = TRUE]
        /\ Fail(r, CancelError(r))
        /\ UNCHANGED <<closed, attempted, unstarted, plate, resliced>>
     \/ /\ stage[r] = "window"
        /\ CloseRun(r, "completed")
        /\ absorbed' = [absorbed EXCEPT ![r] = TRUE]
        /\ UNCHANGED why
  /\ UNCHANGED <<keyed, latest, told, printVars, rowVars, sendVars>>

\* An attempt of one of these may commit after its execution is gone.
MayCommitYet == {"insert", "arm", "record", "succeed", "fail"}

Terminate(r) ==
  /\ Open(r)
  /\ Cardinality(Terminated) < MaxTerminations
  /\ closed' = [closed EXCEPT ![r] = "terminated"]
  /\ IF stage[r] \in MayCommitYet THEN UNCHANGED stage ELSE To(r, "over")
  /\ Forget(r)
  /\ UNCHANGED <<keyed, latest, told, absorbed, why, printVars, rowVars, sendVars>>

(***************************************************************************)
(* The rows: PrintRunStore                                                 *)
(***************************************************************************)
InsertCommits(r) ==
  /\ stage[r] = "insert"
  /\ rank[r] = 0
  /\ row' = [row EXCEPT ![r] = "running"]
  /\ rank' = [rank EXCEPT ![r] = 1 + Cardinality({q \in Runs : rank[q] > 0})]
  /\ UNCHANGED <<keyed, marked, fresh, judged, runVars, workVars, printVars, sendVars>>

\* start_enqueue (an attempt that commits later still finds the column set).
ArmCommits(r) ==
  /\ stage[r] = "arm"
  /\ Running(r)
  /\ marked' = [marked EXCEPT ![r] = TRUE]
  /\ UNCHANGED <<keyed, row, rank, fresh, judged, runVars, workVars, printVars, sendVars>>

EndRow(r, status) ==
  /\ row' = [row EXCEPT ![r] = status]
  /\ fresh' = [fresh EXCEPT ![r] = ~keyed]

SucceedCommits(r) ==
  /\ stage[r] = "succeed"
  /\ Running(r)
  /\ EndRow(r, "succeeded")
  /\ UNCHANGED <<keyed, rank, marked, judged, runVars, workVars, printVars, sendVars>>

\* Mutant: the column stays as print_start_enqueue set it.
FailKeepsMark(r) ==
  /\ stage[r] = "fail"
  /\ Running(r)
  /\ EndRow(r, "failed")
  /\ UNCHANGED <<keyed, rank, marked, judged, runVars, workVars, printVars, sendVars>>

\* fail, `unqueued` clearing the column.
FailCommits(r) ==
  /\ stage[r] = "fail"
  /\ Running(r)
  /\ EndRow(r, "failed")
  /\ marked' = [marked EXCEPT ![r] = @ /\ ~unstarted[r]]
  /\ UNCHANGED <<keyed, rank, judged, runVars, workVars, printVars, sendVars>>

Judge(r) ==
  /\ Running(r)
  /\ ~Open(r) /\ ~LatestOpen
  /\ judged' = judged \union {r}
  /\ UNCHANGED <<keyed, row, rank, marked, fresh, runVars, workVars, printVars, sendVars>>

\* fail_lost: LOST once it had tried to queue, LOST_UNQUEUED before.
EndLost(r) ==
  /\ r \in judged
  /\ judged' = judged \ {r}
  /\ \/ /\ Running(r)
        /\ EndRow(r, "failed")
        /\ why' = [why EXCEPT ![r] = IF marked[r] THEN "lost" ELSE "lostUnqueued"]
     \/ /\ ~Running(r)
        /\ UNCHANGED <<row, fresh, why>>
  /\ UNCHANGED <<keyed, rank, marked, runVars, printVars, sendVars>>
  /\ UNCHANGED <<stage, absorbed, attempted, unstarted, plate, resliced>>

\* The repeat window passes.  No send lasts that long (10 minutes against seconds): one
\* still in flight saw the row ended when it read the record.
Expire(r) ==
  /\ fresh[r]
  /\ \A s \in Sends : pc[s] \in {"idle", "answered"} \/ r \in since[s]
  /\ fresh' = [fresh EXCEPT ![r] = FALSE]
  /\ UNCHANGED <<keyed, row, rank, marked, judged, runVars, workVars, printVars, sendVars>>

\* Mutant: the row is kept, under a status of its own.
PruneMarks(r) ==
  /\ Ended(r) /\ ~fresh[r] /\ ~Open(r)
  /\ row' = [row EXCEPT ![r] = "pruned"]
  /\ UNCHANGED <<keyed, rank, marked, fresh, judged, runVars, workVars, printVars, sendVars>>

\* Another print's insert prunes rows past their retention.
Prune(r) ==
  /\ Ended(r) /\ ~fresh[r] /\ ~Open(r)
  /\ \A s \in Sends : pc[s] \in {"idle", "answered"}
  /\ row' = [row EXCEPT ![r] = "absent"]
  /\ UNCHANGED <<keyed, rank, marked, fresh, judged, runVars, workVars, printVars, sendVars>>

-----------------------------------------------------------------------------
RouteStep(s) ==
  \/ Find(s) \/ Start(s) \/ StartRefused(s) \/ Refind(s) \/ NoAnswer(s)
  \/ UpdateAnswered(s) \/ ClosingWaited(s)

WorkflowStep(r) ==
  \/ CheckRefuses(r) \/ CheckPasses(r) \/ InsertReported(r) \/ PlanEnds(r) \/ SliceEnds(r)
  \/ ArmReported(r) \/ EnqueueReported(r) \/ EnqueueFails(r) \/ EnqueueGone(r)
  \/ ResliceEnds(r) \/ RecordReported(r) \/ RecordFails(r) \/ FinishReported(r)
  \/ SucceedReported(r) \/ Followed(r) \/ FailReported(r) \/ WindowEnds(r)

ActivityStep(r) ==
  \/ InsertCommits(r) \/ ArmCommits(r) \/ PostSent(r) \/ PostTaken(r) \/ RecordCommits(r)
  \/ SucceedCommits(r) \/ FailCommits(r)

OtherStep(r) ==
  Cancel(r) \/ Terminate(r) \/ Judge(r) \/ EndLost(r) \/ Expire(r) \/ Prune(r)

Next ==
  \/ \E s \in Sends : RouteStep(s)
  \/ \E r \in Runs : WorkflowStep(r) \/ ActivityStep(r) \/ OtherStep(r)

Spec == Init /\ [][Next]_vars

(***************************************************************************)
(* Properties                                                              *)
(***************************************************************************)
WorkTypeOK ==
  /\ stage \in [Runs -> Stages]
  /\ absorbed \in [Runs -> BOOLEAN]
  /\ attempted \in [Runs -> BOOLEAN]
  /\ unstarted \in [Runs -> BOOLEAN]
  /\ plate \in [Runs -> Plates]
  /\ resliced \in [Runs -> BOOLEAN]
  /\ why \in [Runs -> Errors \union {"none"}]

RecordTypeOK ==
  /\ row \in [Runs -> {"absent", "running", "succeeded", "failed"}]
  /\ rank \in [Runs -> Nat]
  /\ marked \in [Runs -> BOOLEAN]
  /\ fresh \in [Runs -> BOOLEAN]
  /\ judged \subseteq Runs

PrintTypeOK ==
  /\ post \in [Runs -> {"none", "flying", "taken"}]
  /\ queued \in [Runs -> [Plates -> Nat]]
  /\ recorded \in [Runs -> SUBSET Plates]

SendTypeOK ==
  /\ pc \in [Sends -> Pcs]
  /\ on \in [Sends -> 0..MaxRuns]
  /\ since \in [Sends -> SUBSET Runs]
  /\ answer \in [Sends -> Answers]
  /\ \A s \in Sends : Waiting(s) => on[s] # NoRun

\* Every variable keeps its type.
TypeOK ==
  /\ keyed \in BOOLEAN
  /\ latest \in 0..MaxRuns
  /\ closed \in [Runs -> Closes]
  /\ told \in [Runs -> {"none", "refused", "run"}]
  /\ WorkTypeOK /\ RecordTypeOK /\ PrintTypeOK /\ SendTypeOK

\* Nothing of run r is on Bambuddy's queue, nor may still get there.
NothingQueued(r) ==
  (\A p \in Plates : queued[r][p] = 0) /\ post[r] = "none"

\* A run that failed and does not say it may have queued, one refused, and one cancelled
\* before its row queued nothing, and never will.
UnqueuedIsTrue ==
  \A r \in Runs :
    (row[r] = "failed" /\ ~marked[r]) \/ closed[r] \in {"failed", "cancelled"}
      => NothingQueued(r)

\* The message agrees with the flag: "nothing was queued" is recorded only beside
\* may_have_queued = false, "it may be queued" only beside true.
MessageAgrees ==
  \A r \in Runs : row[r] = "failed" =>
    /\ why[r] \in {"cancelled", "unqueued", "lostUnqueued"} => ~marked[r]
    /\ why[r] \in {"queueing", "lost"} => marked[r]

\* A plate is queued at most once by a run, a late POST included, and a succeeded run
\* queued and recorded every plate.
PlatesOnce ==
  \A r \in Runs :
    /\ \A p \in Plates : queued[r][p] + (IF post[r] = "flying" /\ plate[r] = p THEN 1 ELSE 0) <= 1
    /\ row[r] = "succeeded" => recorded[r] = Plates /\ \A p \in Plates : queued[r][p] = 1

\* What a cancelled run queued is recorded: a cancel waits for the POST and its record.
CancelRecords ==
  \A r \in Runs : row[r] = "failed" /\ why[r] = "queueing" =>
    post[r] = "none" /\ {p \in Plates : queued[r][p] > 0} = recorded[r]

Queues(r) == \E p \in Plates : queued[r][p] > 0

\* Two executions of one request both print only where the earlier one was terminated, or
\* (without a request_id) its repeat window had passed or a cancel ended it.
OnePrint ==
  \A r, q \in Runs : r < q /\ Queues(r) /\ Queues(q) =>
    \/ closed[r] = "terminated"
    \/ ~keyed /\ (absorbed[r] \/ ~fresh[r])

\* "A cancel ends the window early; a re-sent request still does not print twice"
\* (workflows/printing.py).
WindowHolds ==
  \A r, q \in Runs : r < q /\ Queues(r) /\ Queues(q) => ~keyed /\ ~fresh[r]

\* Without a request_id, a send is never answered with a run that had ended, and was past
\* its window, when the send came: "its old run is no answer to this request".
NoOldRun ==
  \A s \in Sends : ~keyed /\ answer[s] = "run" => on[s] \notin since[s]
=============================================================================
