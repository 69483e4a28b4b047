# ScadBuddy in TLA+

ScadBuddy turns parametric OpenSCAD templates into prints. Its backend (Python,
`src/backend/scadbuddy`) renders models, slices them, queues prints on a Bambuddy server and
keeps files there; its agent service (TypeScript, `src/agent`) hosts AI sessions and workflows.
Anything that must outlive a request runs as a Temporal workflow. This directory holds TLA+
modules of the parts whose correctness depends on the order in which several processes act,
TLC configurations that check them on small instances, and proofs that TLAPS checks for every
value of the constants.

Contents: [the system](#1-the-system) · [plan](#2-plan) · [modules](#3-modules-and-the-code) ·
[runs](#4-runs) · [bounds and fairness](#5-bounds-and-fairness) · [proofs](#6-proofs) ·
[disagreements found](#7-where-the-code-and-its-documents-disagree) ·
[not modelled](#8-what-is-not-modelled-and-why) · [running it](#9-running-the-checks)

Paths below are under `src/backend/scadbuddy/` unless they start with `src/`. "The design" is
`src/docs/superpowers/specs/2026-10-01-durable-printing-agents-flows-design.md`.

## 1. The system

### 1.1 How the parts talk

```
 browser ──> API replicas (FastAPI) ──update-with-start──> Temporal ──tasks──> workers
                 │  │  \                                                    │  │
                 │  │   `── claims (files)  <──────── open ─────────────────┘  │
                 │  └────── Postgres: operations, print_runs, native_slices,   │
                 │          store_blobs, flows, grants, events <───────────────┘
                 └───────── Bambuddy: its queue (POST /queue/) and its files (objects)
 agent service ── Temporal (session workflow) ── its own Postgres rows (gate)
```

Replicas and workers share no memory. They meet in four places: a row of Postgres, an execution
of a Temporal workflow id, a file (a claim), and Bambuddy. Each of these gives a different
guarantee: one transaction is atomic, a workflow's own code is sequential and survives a crash,
an activity is attempted one or more times and may go on after nobody waits for it, and a call
to Bambuddy may take effect after its caller gave up. The hard behaviours all come from a
decision made in one place and acted on in another.

### 1.2 Inventory

| Component | State it keeps | Operations | Hard behaviour | Correct when |
|---|---|---|---|---|
| **Keyed operations** (`api/operations.py`, `workflows/operation.py`, `operation_activities.py`, `operations/store.py`, `workflows/commands.py`) | row of `operations` per execution; the execution's stage and history | send, describe, start or attach, insert, prelude, effect, finish, cancel, terminate, prune | a send's record read goes stale over three awaits; lost replies; abandoned attempts that land late; cancel during insert or effect | a repeat does not repeat the effect; all answers and the record agree; "nothing was done" is true; all of it ends |
| **Lost-row reconciler** (`workflows/client.py`) | none (reads rows and Temporal) | judge, end | reads, asks, then writes | ends exactly the rows whose execution cannot |
| **Claims** (`operations/claims.py`) | files in a shared directory | put, open, release, sweep | rename aside, compare, link back, unlink against a concurrent put; crash in the gap | no request loses the bytes it waits on; nothing is left behind |
| **Print runs** (`api/printing.py`, `workflows/printing.py`, `print_activities.py`, `bambuddy/runs.py`) | row of `print_runs`, its `enqueue_attempted`; plates queued and recorded | accept, insert, slice, arm, enqueue, record, finish, fail, repeat window | the POST may land after its run failed; the error message and the flag must tell the truth about it; a repeat joins a run that already ended | one request prints once; what the row says of the queue is so |
| **Content store** (`store/content.py`, `index.py`, `refs.py`, `bambuddy.py`) | `store_blobs` rows (key to object), objects in Bambuddy, references | put, replace, link, delete, claim, sweep, sweep of unrecorded files | check, then backend call, then row: each its own step; failed removes | a row's object exists; no object is lost track of; the sweep spares what is claimed |
| Blob caches, migration (`store/cache.py`, `download_cache.py`, `snapshots.py`, `migrate.py`) | per-worker files | fill, evict, migrate | eviction against a reader | a reader gets the bytes of its key |
| **Native slicing** (`slicing/store.py`, `slicing/start.py`, `workflows/slicing*.py`) | `native_slices` rows, holds on blobs | start, prepare, finish, stop lost, sweep | a start joins a closing execution; late finish on a later start's row; hold after upload | a running row has an execution; a finished slice's blob is held |
| Print over LAN (`printers/print_activities.py`) | sequence state of the workflow | transfer, start sequence | the printer may have started | one start per run |
| Print following (`bambuddy/follow.py`, `progress.py`) | progress rows | poll, sign off | late poll after the end | the last state recorded is the last seen |
| Print library (`print_library/`) | copies of Bambuddy's files | import, copy, sweep | as the content store | as the content store |
| Rendering (`render/`, `workflows/pipelines.py`) | jobs, attempts, projection of the event log | submit, attempt, cancel | projection behind the log | a job ends once |
| Orders (`orders/`) | order, parts, quotes | status machine | repeats | each step is a keyed operation |
| **Flows and grants** (`flows/`, `workflows/project.py`, `flow_tools.py`, `flow_grants.py`) | flows, revisions, grants | approve, revoke, consume, record a decision | revocation against a decision being recorded | no decision carries a revoked grant |
| Flow triggers, batches, rack, spools, printers, housekeeping | rows | single transactions, schedules | few | – |
| Events (`core/pg_events.py`) | event log, outbox | publish, fan out, replay | lock order, gaps | log order is commit order |
| Template library (`core/gitrepo.py`, `library/`) | a git tree | commit, sync | behind one lock | – |
| Sign-in, service credentials (`auth/`) | tokens | check | – | – |
| **Agent session gate** (`src/agent/src/temporal/session/gate.ts`, `src/agent/src/gate/store.ts`, `gate/sweep.ts`) | parked calls in the workflow, their rows `ai_pending_input`, their ends `ai_input_responses`, the session's status | park, open, decide, expire, withdraw, cancel, settle, recheck, sweep | each of these against each other; a bounded write of unknown result; a Reset | a call ends once, as its row says; a turn that ended holds nothing; the session waits while a row does |
| **Agent sessions and turns** (`src/agent/src/temporal/session/workflow.ts`, `src/agent/src/sessions/durable.ts`, `turnHost.ts`, `warm.ts`, `durableSweep.ts`, `edits.ts`) | the session's row (turn, attempt, mark, flags), the transcript, the workflow, processes on replicas | send, place, release, continue, finish, Stop, done, sweep | a replica given up on runs on and writes; an Update that arrives late; a Stop between two placements | a message is taken once and told once; one placement writes; only a turn's end ends it |
| Agent flows, bridge, notifications | queues | escalate | restart | – |
| Frontend, Rust workers | view state; none | – | – | – |

Bold components are modelled or planned. `PROJECT.json` carries the same list with files and
status, and lists under `hazards` each place in the code where something can go wrong that a test
would hardly reach, with the properties that would show it, or the reason none does yet.

## 2. Plan

In order of how much of the system rests on them:

1. **`Operations`** – the run-once command behind every mutating route: done, with its abstract
   specification `KeyedCommand`, the refinement, and proofs.
2. **`Claims`** – the bytes those commands carry: done.
3. **`PrintRun`** – the command whose effect is a physical print, with its own route and
   workflow: done for prints through Bambuddy's queue.
4. **`ContentStore`** – the files every command reads: done.
5. **`SessionGate`** – the tool calls of an agent's turn that wait for a person: done.
6. **`AgentTurns`** – the turns themselves, on replicas that may be lost: done.
7. **Proofs** – every invariant and action property that a passing run checks, and the refinement
   of `KeyedCommand`: done (section 6).
8. *Next:* **`NativeSlices`** (slice rows, their executions and holds; composes with
   `ContentStore`'s claim protocol and gives `PrintRun`'s slice step its detail), then
   **`FlowGrants`**, `PrintRun`'s liveness and LAN path, the 202 path of keyed operations.
9. *Then:* abstract specifications of `PrintRun` (a request's queue entries and what its row says
   of them), `AgentTurns` (a message told once) and `ContentStore` (a map from keys to bytes), each
   with its refinement.

Each module keeps its parameters as constants with named assumptions, has one action per handler
or activity commit, and uses no `RECURSIVE` operator, so that it can be proved about as it stands.

## 3. Modules and the code

| Module | What it is |
|---|---|
| `Operations` | one key: any number of sends, the executions of its workflow id, their activities, the rows, the reconciler, cancel and terminate |
| `KeyedCommand` | what such a command promises: a write-once record, bounded effects, replies that are the record |
| `OperationsRefinement` | the mapping of `Operations` to `KeyedCommand` |
| `OperationsProofs` | type correctness, the inductive invariant and what follows from it |
| `OperationsRefinementProofs` | every step of `Operations` is one of `KeyedCommand` or leaves it alone |
| `Claims` | one claim file, its requests, the sweep, crashes |
| `PrintRun` | one print request: sends, executions, plates, the queue, the rows, the reconciler |
| `ContentStore` | keys, objects, operations, the two sweeps |
| `SessionGate` | the parked calls of a session: workflow entries, rows, responses, timers, resolutions in flight, the orphan sweep |
| `AgentTurns` | one session: sends, the workflow, placements on replicas, the transcript, a Stop, the sweep of running rows |
| `ClaimsProofs`, `PrintRunProofs`, `ContentStoreProofs`, `SessionGateProofs`, `AgentTurnsProofs` | type correctness, the inductive invariant and every safety property of the module each is named for |
| `MC…` | model values, symmetry and small constants for TLC |

Definitions named "Mutant" in a comment are deliberately wrong variants of the action that
follows them. No next-state relation uses them: substituting one for its action must break a
property, which shows the property is about that line of code.

### 3.1 `Operations`

| State | Code |
|---|---|
| `latest`, `closed` | Temporal: executions of the workflow id, their close status |
| `stage`, `decided`, `told` | where `OperationWorkflow.run` is, the outcome it hands to `op_finish`, what the `accepted` Update returns |
| `live`, `tries`, `zombies`, `landed` | attempts of `op.<kind>.run`: the one waited for, how many began, those nobody waits for, how often the effect happened |
| `row`, `rank` | the row of `operations` (status and `created_at` order, which `find` uses) |
| `judged` | rows `reconcile_lost_operations` found closed and is about to end |
| `pc`, `on`, `answer` | per send: its place in `run_operation`, the execution it waits on, its answer |

A route is split at each await that reads or writes shared state: `Find` (the record), `Describe`
and `BeforeStart` (the gate), `Start` / `StartRefused` (update-with-start under `USE_EXISTING` and
`ALLOW_DUPLICATE_FAILED_ONLY`), the three ends of waiting, `Refind`. A workflow step is one
workflow task; an activity's commit is a step of its own, so an attempt may commit after its
workflow stopped waiting. `Terminate` leaves `stage` where it is: an insert or finish in flight
may still commit. `RunLost`, `CancelEffect` and `Terminate` turn an attempt in flight into a
"zombie" that may land any time later. A run answering 503 while a thread of it goes on is
`RunLost` too.

### 3.2 `Claims`

`path` is the file at `<root>/<sha256>`, named by the request that wrote it (the code compares
inode and mtime); `aside` is what a release or the sweep renamed away, and `left` what one that died
left there. `hold` is three steps (temporary file, `os.link`, `os.replace` when it exists), `release`
is three (rename aside; compare and link back; unlink the aside name), the sweep four (stat first).
Between the link back and the unlink a file has both names. A crash stops a route, or the sweep,
between any two of these and leaves the aside name in `left`, whether or not the file was linked back.

### 3.3 `PrintRun`

The same shape as `Operations` for `accept_run` and `PrintRunWorkflow`, which differ from it:
the key may or may not carry a request_id (`keyed`, fixed at the start), the id policy follows
from that, an ended run answers only within the repeat window, its execution stays open for that
window, and a send that joined an ended run waits for its execution to close and starts again.
The POST is split into sent, taken by Bambuddy and reported, so that "sent, not reported" can
become "taken" later. `attempted` and `unstarted` are the workflow's variables, `marked` the
row's column; `why` is the error text `print_fail` writes, reduced to which of the constants of
the source it is. Which plates have an earlier slice to reuse is the plan's choice, plate by plate.
What nothing reads any more is forgotten (`Forget`: the variables of a closed execution, but for
what an activity that may commit yet was given); the window of a repeat and what a send saw ended
are kept for requests without a request_id only, since a read by request_id asks for neither.

### 3.4 `ContentStore`

One transaction on the index is one step, since `index.py` takes the row lock of what it decides
on; a lookup before it, a call to the backend and the later release are others. `op[p]` is a
running operation's place and locals. `fresh` are the keys touched within the sweep's grace.
`late` are removes that were given up on and may still happen. Two ghost variables record what
the code itself accepts: `astray` (objects a failed remove, or the user in Bambuddy's pages, may
have removed under a row) and `leaked` (objects an operation let go of without a row, for
`sweep_unrecorded` to find).

### 3.5 `SessionGate`

| State | Code |
|---|---|
| `run`, `turn`, `phase` | the workflow's run, its turn and how far `runTurn`, `closeTurn` and the main loop are |
| `entry`, `of`, `parked`, `opened`, `timers` | `SessionGate`'s map of parked calls: each entry's state, whose it is, whether `open_input` answered, whether its `#expire` runs |
| `jobs`, `todo` | resolutions in flight (`#resolve`), and what `cancelAll` listed and has not come to |
| `reads`, `wakes` | `#adopt`'s read of the row with who waits on it, and `input_decided` Signals |
| `row`, `resp`, `status` | `ai_pending_input`, `ai_input_responses`, `ai_sessions.status` |
| `late` | attempts of `open_input` and `resolve_input` nobody waits for, which may land |

The workflow is one thread that runs from await to await, so a step is what it does between two
of them; an activity is called, lands, and is heard of in three steps. Every transaction of
`gate/store.ts` computes the status from the rows it leaves (`Recomputed`). The retried writes
(timer, withdrawal, the turn's end) go on until they land; the bounded ones (`Bounded`: a
`respond` Update and a Stop's `cancelAll`) may give up, and their attempt may land afterwards.
Where the code is coarser or finer than the model: the two transactions of `openInput` are one
step, an automatic grant or denial settles at once, a timer may fire at any step (a decision past
`expires_at` is refused by the row, here by the timer having fired), and a read or a wake that
would find its entry ended is dropped.

### 3.6 `AgentTurns`

| State | Code |
|---|---|
| `row` | `ai_sessions`: `durable_turn_id`, `turn_attempt`, `interrupt_requested`, done, and `turn_mark` with the turn or continuation it was set for |
| `log` | user entries of the main transcript, `ai_session_entries` |
| `send` | each `DurableTurns.send`: claimed, its Update out, answered or not |
| `wf` | `AgentSession`: the message taken and the turn running, its stage, `placeTurn`'s cycle, budget and kept home, the Stop flags, the end asked for |
| `places`, `made` | placements that run somewhere, whether or not the workflow still waits for them; `made` numbers them |
| `looks` | what `DurableTurns.interrupt` and the sweep read; `fresh` says nothing was written to the session since (the guard on `event_seq`) |
| `said`, `taken`, `ended` | history: turns whose placement wrote an event, messages accepted, turns whose end was written |
| `outlived` | history: turns that a placement given up on could write again, because it claimed the turn late or because its attempt id was given out again while it ran |

A placement is `TurnHost.run`: it claims the turn on the row, looks whether the message landed,
tells Claude Code the message or that it restarted, and appends to the transcript behind a fence
checked in the append's own transaction. `Lost` leaves it where it is: one that has not claimed yet
may do so as late as it likes (`#claim` asks for the turn and the status, not for who waits), and
takes the row from its successor then; one that has may append, write events and end, until a tick
of its fence or its heartbeat cuts it (`Cut`). No bound is put on how long any of that takes.
`outlived` is set at the claim (`ClaimTurn`) and nowhere else. A shutdown under a running turn is part
of `Lost`, a newer placement's arrival on the same replica part of `Cut`. `closing` stands for the
gate's `cancelAll` and `settle` as well. A look whose `event_seq` is out of date ends nothing, so it
is dropped once nothing else comes of it (`Stale`), and what nothing reads any more of a closing turn
or of a placement past its choice goes back to its first value (`Close`, `Choose`).

## 4. Runs

States are distinct states; times are for two workers.

| Run | Instance | Checks | States |
|---|---|---|---|
| `operations` | 3 sends, 3 executions, 1 terminate, a gate, 1 attempt | `TypeOK`, `EffectOnce`, `AttemptOnce`, `NothingDoneIsTrue`, `RecordMeansCompleted`, `LostOnlyIfClosed`, `AnswersAgree`, `GoneOnlyIfPruned`, `RecordIsFinal` | 2,054,744 (80 s) |
| `operations_live` | 2 sends, 2 executions, 1 terminate, prelude, early answers, fairness | `RunningRowsEnd`, `SendsAnswered`, `RunsClose` | 176,894 (105 s) |
| `operations_refinement` | 3 sends, 3 executions, no terminate, 2 attempts, prelude, gate, early answers | `ImplementsKeyedCommand` | 496,363 (30 s) |
| `claims` | 3 requests of the same bytes, crashes, the sweep, fairness | `TypeOK`, `PairStays`, `NothingLeft` | 110,319 (25 s) |
| `print_runs` | 2 sends, 2 executions of two plates, keyed and not, either plate reused or not, 1 terminate | `TypeOK`, `OnePrint`, `NoOldRun`, `UnqueuedIsTrue`, `MessageAgrees`, `PlatesOnce`, `CancelRecords` | 1,846,002 (2–3 min) |
| `content_store` | 2 keys, 2 operations at a time beside the sweeps, 3 starts, 3 objects, 2 contents, 1 fault | `TypeOK`, `NamedIsStored`, `Tracked`, `ClaimKept` | 2,174,170 (2–3 min) |
| `session_gate` | 2 calls, 1 next turn or Reset, 1 fault, 1 Update that ends entries, a terminate | `TypeOK`, `ToldIsRecorded`, `EndedTurnHoldsNothing`, `StatusFollowsRows`, `ResolvingHasJob` | 819,355 (40 s) |
| `agent_turns` | 2 turns, 2 placements each, 1 release, any 2 faults, late claims, Stops, done marks or terminates | `TypeOK`, `MessageOnce`, `ToldWhatLanded`, `TurnsApart`, `AcceptedNotLost`, `OnlyItsEnd`, `StoppedStays` | 884,894 (45 s) |
| `operations_repeat` | 2 sends, 2 executions, 1 terminate | `RepeatNeverRepeats`, violated | – |
| `claims_three` | 3 requests, no crash | `BytesStay`, violated | – |
| `print_window` | 2 sends, 2 executions, no terminate | `WindowHolds`, violated | – |
| `gate_timer` | 1 call, 1 fault, 1 Update | `TimerKept`, violated | – |

What the passing runs say, in words:

- **`operations`.** Of two executions of one key, both begin the effect only where an operator
  terminated the earlier one. The effect happens at most as often as the kind allows, zombies
  included, and a recorded success did happen. What a client is told was not done (a refusal, a
  cancel before the effect) was not and will not be by that execution. An execution that failed
  or was cancelled has no row, and gets none from an insert still in flight; a completed one told
  its clients what its row says. The reconciler never calls a row lost that somebody still ends.
  Two clients answered from the record got the same answer unless one of two executions was
  terminated. "Its record has since been deleted" is said only when that is so. A recorded
  outcome is never rewritten.
- **`operations_live`.** As long as workers, replicas and Temporal come back, each row that runs
  ends, each request the route took in is answered and each execution closes.
- **`operations_refinement`.** Without a terminate, everything above is one write-once record.
- **`claims`.** With two requests, a sweep and crashes of any of them, a request that counts on its
  bytes has them: there is a file at the path, or its own file is aside with a mover that is about
  to link it back, or under the name of one that died before it did. In that last case the path is
  empty until a put renews the claim: the crash costs the run its bytes' name, not the bytes, and
  the sweep takes what is left a day later. With three requests the bytes themselves can go, without
  any crash (`claims_three`). In the end nothing is left, neither the claim of a 202 nor an aside name
  of a crashed release, whether the file had been linked back or not.
- **`print_runs`.** A failed row that does not say it may have queued has queued nothing, and no
  POST of it is under way. The error text and the flag agree. No plate is queued twice by a run,
  and a succeeded run queued and recorded all of them. What a cancelled run queued is recorded.
  Two executions of one request both print only where the earlier was terminated or, without a
  request_id, where its window had passed or a cancel ended it. A send without a request_id is not
  answered with a run that was over and past its window when it came.
- **`content_store`.** A row names an object that is there, unless a remove of it failed or a user
  deleted it. Each stored object has a row, or an operation that is about to give it one or remove
  it, or was left where the code itself gives up. The sweep does not take a row that was claimed
  after the sweep had read its references and made its list.

- **`session_gate`.** What the workflow tells a turn of a parked call is what its response row
  says, however many resolved it and whichever attempt landed; only a call never asked is cancelled
  without one. When a turn's end is written the workflow holds none of its calls and no row of
  them is left. The session's status waits as long as a row of its run does, and no longer. An entry
  that is being resolved has its resolution under way, so that `settle`, which waits for it,
  cannot wait for ever: the safety form of a turn that always ends.
- **`agent_turns`.** A turn's message, and how its released calls went, is in the transcript at
  most once; a placement that holds its turn says "restarted" only where it is; and what was
  appended of one turn is not torn apart by another's. These three leave out the turns in `outlived`,
  which TLC does find with their message twice or mixed with another's (section 7): a placement that
  was given up on claimed them late, or still ran when its attempt id was given out again. Whatever
  else a replica given up on does, and however late, they hold.
  A message the workflow accepted is not dropped, whether it comes while a
  turn's end is written, while handlers finish or before a continue-as-new. The row leaves a turn
  its workflow holds only by that turn's end, or by a look at the workflow from before it held the
  turn, and then before the turn wrote anything. A turn with a Stop is not placed again.

`CHECK_DEADLOCK FALSE` is set in every configuration, because the modelled work is finite: once
each send is answered, each execution closed and the bound on starts is reached, the system rests.
`operations_live` and `claims` check that it gets there.

## 5. Bounds and fairness

**Operations and PrintRun.** `MaxRuns` is at least the number of sends in each configuration, and
a send starts at most one execution, so the bound cuts off nothing for `Operations`. For
`PrintRun` a send may start again after it joined an ended run, and what it starts is then still
at most one execution. Two executions are the least that can
disagree; three add a repeat after a repeat and two executions before one answer. One terminate
is the case the code reasons about; `Invariance` is proved for any number. `Prune` needs the
execution closed and no send in flight: records are kept for the namespace's retention or longer
(`api/settings.py:445-480`), at least a day, while a send lasts seconds. `Expire` (the 10 minute
repeat window) needs every send in flight to have read the record after the row ended, for the
same reason. Two plates give a first and a last one: the code tells apart the first plate, on which
a gone slice still means nothing was queued, and the last, after which a cancel stops nothing.

**Claims.** Three requests, because two are safe and three are not. `Age` needs all requests at
rest: a day passes (`CLAIM_MAX_AGE`) and no request lasts as long.

**ContentStore.** Two keys so that one object can be shared, three objects so that both of two
racing puts can upload beside an old one, three starts so that a sweep can meet two operations,
one fault. Keys, operations and contents are symmetric; the sweep is not one of them. `Age` does
not happen between a claimant's touch and its reference, nor during a sweep, whose cutoff is fixed
when it starts. `sweep_unrecorded` passes over a file whose uploader has not written its row yet:
that file is younger than its cutoff.

**SessionGate.** Two calls, because the status and the cancellers relate entries to each other; one
next turn or Reset, because an entry of an earlier turn or run is treated alike however far back it
is, and it comes after one that asked something, as an empty turn leaves nothing behind; one stalled
attempt or given-up resolution (whose last attempt may land yet) and one Update, because each
reaction of the code is to a single one and they meet timer, decision, Stop and end in any order;
with two faults the same invariants hold, in 2,487,303 states. One decision is enough:
the code never looks at which it is.

**AgentTurns.** Two turns, since a placement can outlive its turn into the next; two placements
are `PLACEMENTS` of the code. `MaxFaults` is one budget for everything that goes wrong or comes
from outside, the loss of a placement and its late claim included: two of them are the least that
meet, and the theorems are for any number. `Quiet` stands for `RUNNING_GRACE_MS` (two
minutes against sends of ten seconds): the sweep and a Stop leave alone a row whose send is under
way. How long a placement that nobody waits for runs on, when it claims and how late its fence ticks
has no bound: the code has none that it checks, `FENCE_MS` and the heartbeat only say when a replica
whose process still runs notices. What follows from that is named by `outlived` rather than assumed
away. A placement given up on has three ways to write: behind its successor's claim it has none
(`holds`), and that case the properties cover; it may claim after its successor did; and an attempt
id is the run's id and a count that starts again with each turn and each continuation
(`workflow.ts:363`), so a claim left over from an earlier one may pass for the newest's.

**Fairness** (`Operations!FairSpec`). Weak fairness of: a route's steps once a request is in (the
code bounds each wait by a deadline); a workflow's steps and the start of an attempt (Temporal
redelivers workflow tasks and activities until a worker takes them); the commit of an insert or
finish while the execution waits for it (both are retried without limit); the reconciler's two
steps (`main.py:1713` repeats it every `LOST_RUN_INTERVAL` in each replica). None for a cancel, a
terminate, a first send, a prune, or the landing of an attempt nobody waits for. `Claims!FairSpec`
has the sweep run daily and a request that was taken in go on, and owes no crash.

## 6. Proofs

Every invariant and every action property that a passing run checks is a theorem, and so is the
refinement of `KeyedCommand`: the runs show them on small instances, TLAPS for every value of the
constants. About 9,100 obligations, none left open.

| Module | From | Theorems and the property each states | Obligations |
|---|---|---|---|
| `OperationsProofs` | `BoundsAssumption`, `KindAssumption` | `TypeCorrect`, `Invariance`, `AnswersInvariance`; `EffectOnceHolds`, `AttemptOnceHolds`, `NothingDoneHolds` (`NothingDoneIsTrue`), `RecordMeansCompletedHolds`, `LostOnlyIfClosedHolds`, `RecordIsFinalHolds`, `AnswersAgreeHolds`, `GoneHolds` (`GoneOnlyIfPruned`) | 934 |
| `OperationsRefinementProofs` | the same | `Refinement`: `MaxTerminations = 0 => (Spec => ImplementsKeyedCommand)` | 410 |
| `ClaimsProofs` | `NamesAssumption` | `TypeCorrect`, `Invariance`; `PairStaysHolds` | 557 |
| `PrintRunProofs` | `PrintBounds`, `PrintPlates` | `TypeCorrect`, `Invariance`; `UnqueuedHolds` (`UnqueuedIsTrue`), `MessageHolds` (`MessageAgrees`), `PlatesOnceHolds`, `CancelRecordsHolds`, `OnePrintHolds`, `NoOldRunHolds` | 835 |
| `ContentStoreProofs` | `StoreAssumption` | `TypeCorrect`, `Invariance`, `ClaimsAreSeen`; `NamedIsStoredHolds`, `TrackedHolds`, `ClaimKeptHolds` | 2,600 |
| `SessionGateProofs` | `GateAssumption` | `TypeCorrect`, `Invariance`; `ToldHolds` (`ToldIsRecorded`), `EndedTurnHolds` (`EndedTurnHoldsNothing`), `StatusHolds` (`StatusFollowsRows`), `ResolvingHolds` (`ResolvingHasJob`) | 1,100 |
| `AgentTurnsProofs` | `TurnAssumption` | `TypeCorrect`, `Invariance`; `AcceptedHolds` (`AcceptedNotLost`), `StoppedStaysHolds`, `OnlyItsEndHolds`, `ToldHolds` (`ToldWhatLanded`), `MessageOnceHolds`, `TurnsApartHolds` | 2,674 |

The assumptions say only that bounds are natural numbers (at least one execution, attempt, plate,
object and placement) and switches Booleans, that the plates that may be reused are plates, and that
the values standing for "none" or for the sweep are none of the requests, keys or turns. Only
`Refinement` has a hypothesis besides: that no operator terminates, since after a terminate a key
may have two records, which is what `operations_repeat` shows.

### 6.1 `Operations`

None of the invariants is inductive by itself. `EffectOnce` compares two executions, and the
step that could break it, `BeginAttempt`, looks at one. What carries it is that executions are
started in order, each when the one before it closed short of completing (`StatusInv`); that an
attempt begins only past the record (`AttemptInv`); that an execution with a record neither fails
nor is cancelled (`RowInv`). So an earlier execution that began the effect and is closed was
terminated, and one that is still open has no successor. `NothingDoneIsTrue` needs that the outcome
"nothing" is decided before any attempt (`OutcomeInv`), and `RecordMeansCompleted` that the row an
execution completes with is the one it decided, which needs in turn that the reconciler judges only
closed executions (`RowInv`) and that a judged execution does not come back. Hence
`IInv == \A r \in Runs : StatusInv(r) /\ AttemptInv(r) /\ OutcomeInv(r) /\ RowInv(r)`.

The proof has one lemma per group of actions. `Frame` says that an execution keeps its
invariant in a step that leaves its variables alone, `OwnStep` reduces a step of one execution
to that execution, and a case per action follows. `Prune`, cancels, zombies and late commits are
steps like any other, so the theorems cover them too.

What the sends were told is a second invariant on top of it, `SendInv`. A final answer is what its
execution's row says, or said before it was pruned, and a completed execution told the same
(`AnswerInv`); `Lasting` collects what no step takes back. So the next send answered from that
execution, out of its row or its Update, hears what the first heard (`AgreeInv`). Two executions
that both have a row are ordered by `StatusInv`, and the earlier closed with a record, which leaves
a terminate. "Gone" is answered where no row is left: the start was refused by a completed
execution (`RefusedInv`), that one had a row (`RowInv`), and `NewestExists` says that a read which
finds none found them all pruned; it is the one place that needs the well-foundedness of finite
subsets.

### 6.2 The refinement

`RefInv` adds two facts to the above: nothing is terminated, and an outcome "failed" of a single
attempt leaves no attempt that may still land (`SureInv`). From it `View` reads the abstract state
off the one execution that wrote a row: `TheRecord` is "running" while the row is, and the decided
outcome ever after, whether in the row or, once pruned, in what was told. Then `InsertCommits` is
`Accept`, `FinishCommits` is `Conclude`, `Land` and `ZombieLands` are `Happen`, a route step that
answers with an outcome is `Reply`, and every other step is a stutter. That the reconciler's end
is one of those is an argument: it judges closed executions only, and a closed one that was not
terminated has ended its row. `SureInv` is what allows `KeyedCommand` to promise that an effect
does not happen after a certain failure when only one attempt is made.

### 6.3 `Claims`

`PairInv` says where the bytes of a request that counts on them are, while two requests at most
have been sent (`Safe`): in its own file at the path; in its own file aside while the path is empty,
with another that will link it back or with one that died; or in the file of one that renewed the
claim and so will not release it. Crashes are steps like any other. It needs that a releasing request
created the claim (`RouteInv`), that the sweep takes only files of requests that are over
(`OldInv`), that a request which has not put has no file (`PlaceInv`), and for the crashes that
whoever has another's file under a dead mover's name, or in the sweep's hands, has it because the
other request is over (`LeftInv`), so that nobody is left to put or release. The counting lemmas
(`NoThird`, `OneOther`, `OneMover`) turn "at most two sent" into "nobody else"; the theorem is for any
set of requests, of which at most two are sent so far.

### 6.4 `PrintRun`

The invariant follows one execution through its plates. `PlateInv`: the plates before the current
one are queued once and recorded, those after it are neither, and the current one is as far as the
stage says, which also covers a POST in flight after the run ended. `MarkInv`: the row says
`enqueue_attempted` before anything is posted, so what the row does not say was not done. `WhyInv`:
the text the row is ended with, by the workflow or by the reconciler, says what the flag says.
`RowInv` and `StageInv` tie row and stage, for a terminated execution too, whose activities may
commit yet. `NextInv` is what the reuse policies demand of an execution that has a successor.
`SendInv` is about the past: a row that had ended when a send read the record stays so as long as
the send is in flight, whence `NoOldRun`.

### 6.5 `ContentStore`

Each step of it is first shown to have an effect of one shape (`StepEffect`): what its
process has in hand, what rows name, what is stored, what is tracked; the invariants are then
proved from the effect alone. `PrivateInv`: an object that was uploaded and is not named yet is in
one process's hand, and in no other's, as target or upload. `GoneInv`: an object about to be
removed is named by no row, unless a remove failed before; it is why a row put back after a failed
remove does not count against `NamedIsStored`. `HistoryInv`: what any process still holds a
reference to was stored once, so an identifier is not given out again. For `ClaimKept`, `ClaimInv`
says of a key that is claimed that its row is fresh, or is on the list of those the sweep under way
keeps, and `KeptInv` that the sweep's two lists have nothing in common.

### 6.6 `SessionGate`

`KnownInv` is the life of an entry: what was never parked has no row, resolution or late attempt.
`RowInv` ties rows and responses: a row is there until its response is, and an open that is still in
flight inserts nothing once its entry ended. `JobInv`: a resolution in flight, or a read, has found
what the response says. `ToldInv`: only a call that was never parked is told an outcome without a
response. `StatusFollowsRows`, `EndedTurnHoldsNothing` and `ResolvingHasJob` are parts of the same
induction, since each action needs the others. The proof separates what a step of the workflow does
to its entries (`Moves`) from what a transaction does to the rows (`Writes`).

### 6.7 `AgentTurns`

What the workflow's stage says of its turn (`WfInv`), that a turn is delivered once and a send that is
out has the row (`SendInv`), that a look is good for what it saw as long as it is fresh (`LookInv`), and
whose the placements are (`PlaceInv`) carry `AcceptedNotLost`, `StoppedStays` and `OnlyItsEnd`.

The transcript rests on the row. `HolderInv`: an active placement with the row's attempt id, of a turn
that is not outlived, is the only one, and finds the row's key and mark its own; this is where a late
claim and an id that comes back are excluded, by `outlived` and by nothing else. `ToldInv`: what such
a placement was told is in the transcript, and a mark the transcript has passed means that the message
of the row's key is there. `TurnLog` says what the transcript has of the running turn, by its stage and
releases; `MarkLog` that nothing of a key comes before its mark, and that one who would append the
message of its turn finds it not there; `RowLog` that what follows the row's turn's first entry is
its own. With these `MessageOnce` and `TurnsApart` are inductive.

The proof first says what a step does to what these five speak of (`StepCases`): nothing (`Calm`),
a placement is made (`Place`), or one placement acts, and then it claims, chooses what to say,
appends, or moves on (`ActKinds`). Each part is then proved once per kind instead of once per action.

### 6.8 What stays with TLC

`RunningRowsEnd`, `SendsAnswered` and `RunsClose` (`operations_live`) and `NothingLeft` (`claims`)
are liveness under fairness, which the provers do not reason about, nor about `ENABLED`. The four
violated properties of section 7 are counterexamples and have nothing to prove. No module declares
a `RECURSIVE` operator, and no property here needs an induction over data, whose principle takes an
operator as a parameter.

## 7. Where the code and its documents disagree

Four statements of the sources do not hold of the code; a run with a counterexample shows each.

1. **A repeat can repeat the effect after a terminate** (`operations_repeat`). The design, lines
   218, 246–248 and 256–257, says a repeat never does and that a terminate is covered by the
   record-first guard. `run_operation` reads the record once (`api/operations.py:422`), awaits, and
   starts under `ALLOW_DUPLICATE_FAILED_ONLY` (line 457). A send that read before the first
   execution's insert and starts after its terminate begins the effect again.
2. **A release can remove a claim another request waits on** (`claims_three`).
   `operations/claims.py:10-11` says bytes put before or since stay. While b's file is moved aside
   by a's release, c puts its own and counts as the claim's creator; b's link back meets c's file
   and is dropped; c's release then removes the only file while b is not yet recorded as running.
3. **A repeat inside the window can print twice after a cancel** (`print_window`).
   `workflows/printing.py:674-678` says `find` answers it. A send without a request_id that read
   the record before the first execution's insert and starts after a cancel closed that execution
   starts a second one.
4. **A parked call can lose its timer** (`gate_timer`). The durable agents specification,
   `src/docs/superpowers/specs/2026-10-01-durable-printing-agents-flows-design.md:1195-1202`, says
   a timer that comes due during a resolution fires once that failed, so that "a failed write never
   leaves the call parked with no timer". `#expire` returns once its entry is not pending
   (`gate.ts:568`), `#resolve` marks the entry resolving before it writes (line 625), and a bounded
   resolution that gives up puts it back to pending (line 641) with no timer left. Only a Stop or
   the turn's end then ends the call.

Modelling also showed three places where the code loses something without promising otherwise;
they are listed as hazards. `replace` reads the previous row before its swap (`store/content.py:262`)
and may leave an object without a row, which `sweep_unrecorded` later removes. `stat` forgets the
key's row whatever it names by then (`store/content.py:435`). `store/snapshots.py:258-263` looks
before it touches, so the sweep may come in between, unlike `store/cache.py`'s claim.

In the agent service modelling showed these, none against a promise of the sources but the first two:

- A placement the workflow gave up on may still claim the turn: `#claim` (`turnHost.ts:943-953`) asks
  for turn and status only, and `TurnHost.run` may have waited before it (lines 363–366). It takes the
  row from its successor, and as a first placement it tells the message without a look at the
  transcript (line 432). The unified runtime design,
  `src/docs/superpowers/specs/2026-10-13-unified-agent-runtime-design.md:424-433`, promises that none
  of its appends lands once another placement has claimed. Drop `outlived` from `MessageOnce` and TLC
  shows the message twice.
- `sessions/turnHost.ts:496-498` says each placement's attempt id "is its own"; lines 480–482 of
  the same file, and the design's lines 429–431, say the next turn's first placement carries the same
  one, which is so (`workflow.ts:363`), and a continuation's does too. A placement of an earlier turn
  or continuation that still runs then passes for the newest.
- A Stop's flag and Signal (`sessions/durable.ts:446`, 457) name no turn: one that is slow may
  stop the turn after the one it was pressed for.
- `#giveBack` (`durable.ts:391`) sets the row idle whatever turn it holds; `RUNNING_GRACE_MS`
  keeps another turn from being there.
- A done mark tells the workflow before its transaction commits (`sessions/edits.ts:115`); if it
  does not commit, the workflow has ended and the row is not done.
- A `respond` Update answers its caller with its own outcome even where the row was resolved with
  another; the turn is told the row's (`gate.ts:715-739`).
- After a Reset the orphan sweep may set a session idle while the new run's turn runs
  (`gate/sweep.ts:120-162`), since the row it takes is the last one open.

## 8. What is not modelled, and why

- **Keyed operations:** the 202 path, in which the route stops following an operation and the
  client polls (`api/operations.py:532-554`, planned); a kind no worker has registered, which is
  only a delay (`workflows/operation.py:118-133`); Temporal forgetting a closed execution, which
  the retention rule above keeps behind the record; an operator's reset of a workflow.
- **Claims:** readers. A worker that opens a claim while it is moved aside fails, by design.
- **Print runs:** the LAN path (`_print_lan` and its start sequence, planned), `amend` and
  `prepare` (they precede the start), the slicer's own detail and retries, an answer that follows
  the run (`respond-async`), branches for histories older than the current workflow version, and a
  first Update that is lost while its retry finds the execution and does not know itself a repeat.
- **Content store:** reading bytes and download copies, the room check, Bambuddy's folders, row
  locks inside one transaction, metadata marks, the migration between backends.
- **Agent session gate:** entries of histories older than the recorded rows, how grants, modes and
  settings decide a call, the contents of questions and attention entries, a run handed off. Its
  liveness (every parked call ends) is not checked; `ResolvingHasJob` is the part that is.
- **Agent sessions and turns:** which replica has room, spend and budgets, images and directories,
  parked calls within a turn (`SessionGate`), subagents' transcripts, sessions that are not durable
  (`sessions/manager.ts`). Liveness is not checked: a send may be left unanswered by design.
- **Other components** of the inventory have the reason in `PROJECT.json`: a planned module, one
  transaction per operation, presentation, or computation with no shared state.

## 9. Running the checks

```
tlc -workers 2 -config MCOperations.cfg MCOperations
for m in Operations OperationsRefinement Claims PrintRun ContentStore SessionGate AgentTurns; do
  tlapm ${m}Proofs.tla
done
```

Each row of the table in section 4 is a module and a configuration named in `PROJECT.json` under
`runs`. `PROJECT.json` also maps each definition to the lines it stands for and gives, for each
property, a plausible mistake in the code that breaks it.
