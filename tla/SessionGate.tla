---------------------------- MODULE SessionGate ----------------------------
(***************************************************************************)
(* The session workflow's half of the tool-call gate: calls of a turn that *)
(* wait for a person.  An entry lives twice, parked in the workflow and as *)
(* a row of ai_pending_input, and ends once, in ai_input_responses.  A     *)
(* person decides it in the row; its timer, a Stop, a withdrawal, the      *)
(* turn's end and a Reset end it too.  Each SQL transaction is one step,   *)
(* and so is what the workflow does between two awaits.                    *)
(*                                                                         *)
(* Every entry here is recorded in its row (the `gate-record-r5` patch).   *)
(***************************************************************************)
EXTENDS Naturals, FiniteSets

CONSTANTS
    Requests,   \* the calls that may park, as request ids
    Decisions,  \* what a person may decide
    MaxNext,    \* BOUND: next turns, and Resets of the workflow (each a new run)
    MaxFaults,  \* BOUND: attempts that stall, bounded resolutions that give up
    MaxAsks,    \* BOUND: Updates that end entries (respond, cancel_input, withdraw_input, ...)
    MayEnd,     \* whether an operator may terminate the workflow
    None

Outcomes == Decisions \cup {"expired", "cancelled"}

ASSUME GateAssumption ==
    /\ MaxNext \in Nat /\ MaxFaults \in Nat /\ MaxAsks \in Nat
    /\ MayEnd \in BOOLEAN
    /\ None \notin Outcomes /\ Decisions \cap {"expired", "cancelled", "open"} = {}

Spans == 1..(MaxNext + 1)
\* What resolves an entry: those a caller waits on give up after 30 s.
Bounded == {"respond", "stop"}
Cancellers == {"stop", "close"}
Resolvers == {"timer", "withdraw"} \cup Bounded \cup Cancellers

VARIABLES
    run,     \* the workflow's latest run
    turn,    \* its turn
    phase,   \* where its turn is
    entry,   \* each call's entry in the workflow
    of,      \* the run and turn each call is of
    parked,  \* #parked
    opened,  \* the entries whose open_input has answered
    timers,  \* the entries whose #expire runs
    jobs,    \* the resolutions in flight
    todo,    \* what each canceller listed and has not come to
    reads,   \* each entry's #adopt: its read and who waits on it
    wakes,   \* input_decided Signals on their way
    told,    \* how the workflow says each entry ended
    held,    \* the entries a released turn waits for
    row,     \* ai_pending_input
    resp,    \* ai_input_responses
    status,  \* ai_sessions.status
    late,    \* activity attempts given up on that may still land
    faults,  \* faults so far
    asks     \* Updates that end entries so far

wfVars == <<run, turn, phase, entry, of, parked, opened, timers, jobs, todo, reads,
            wakes, told, held>>
dbVars == <<row, resp, status>>
vars == <<wfVars, dbVars, late, faults, asks>>

NotRead == [at |-> "none", timer |-> FALSE, woke |-> FALSE]
Job(by, r, out, at) == [by |-> by, r |-> r, out |-> out, at |-> at]

Init ==
    /\ run = 1 /\ turn = 1 /\ phase = "running"
    /\ entry = [r \in Requests |-> "unseen"]
    /\ of = [r \in Requests |-> [run |-> 1, turn |-> 1]]
    /\ parked = {} /\ opened = {} /\ timers = {} /\ jobs = {}
    /\ todo = [c \in Cancellers |-> {}]
    /\ reads = [r \in Requests |-> NotRead]
    /\ wakes = {} /\ held = {}
    /\ told = [r \in Requests |-> None]
    /\ row = {} /\ resp = [r \in Requests |-> None] /\ status = "running"
    /\ late = {} /\ faults = 0 /\ asks = 0

-----------------------------------------------------------------------------
(* Helpers *)

\* BOUND: the next turn or run, after one that asked something.
MayGoOn == run + turn - 2 < MaxNext /\ \E r \in Requests : entry[r] # "unseen"

\* The call's turn is running: only then may it park.
Live(r) == phase = "running" /\ of[r] = [run |-> run, turn |-> turn]
Lost(r) == of[r].run # run \/ phase = "ended"

PendingNow == {r \in parked : entry[r] = "pending"}

HasJob(by, r) == \E j \in jobs : j.by = by /\ j.r = r
Idle(c) == todo[c] = {} /\ \A j \in jobs : j.by # c

\* Mutant: a resolution sets the session running without looking for other rows.
RecomputedBlind(left) == IF status = "waiting" THEN "running" ELSE status

\* The session's status once its open rows are `left`.
Recomputed(left) == IF status = "waiting" /\ left = {} THEN "running" ELSE status

\* `resolved`: the row goes and its response is written, in one transaction.
Write(r, out) ==
    /\ row' = row \ {r}
    /\ resp' = [resp EXCEPT ![r] = out]
    /\ status' = Recomputed(row \ {r})

\* resolve_input: nothing when the row is gone.
ResolveInput(r, out) ==
    IF r \in row THEN Write(r, out) ELSE UNCHANGED dbVars

\* open_input: the entries of other runs end first, then the row is inserted unless it
\* is there or was resolved.
OpenInput(r) ==
    LET stale == {s \in row : of[s].run # of[r].run}
        opens == r \notin row /\ resp[r] = None
    IN /\ row' = (row \ stale) \cup (IF opens THEN {r} ELSE {})
       /\ resp' = [s \in Requests |-> IF s \in stale THEN "cancelled" ELSE resp[s]]
       /\ status' = IF opens THEN "waiting" ELSE Recomputed(row \ stale)

\* #finish: the entry ended, its waiters woken with the first outcome.  A read or a wake
\* still on its way would find it ended and do nothing: it is dropped here.
Ended(r) == [entry EXCEPT ![r] = "resolved"]
Finish(r, out) ==
    /\ parked' = parked \ {r}
    /\ reads' = [reads EXCEPT ![r] = NotRead] /\ wakes' = wakes \ {r}
    /\ told' = [told EXCEPT ![r] = IF @ = None THEN out ELSE @]

\* #resolve begins: an opened entry is marked resolving, whatever it was.  Its #expire,
\* waiting for it to be pending no more, returns, unless it waits for a read instead.
Begin(by, r, out, rest, entries, running) ==
    /\ jobs' = rest \cup {Job(by, r, out, IF r \in opened THEN "write" ELSE "wait")}
    /\ entry' = IF r \in opened THEN [entries EXCEPT ![r] = "resolving"] ELSE entries
    /\ timers' = IF r \in opened /\ ~reads[r].timer THEN running \ {r} ELSE running

\* cancelAll: the entries listed are resolved one after another, the first at once; a
\* later one may have ended since it was listed.
CancelOf(by, listed, rest, entries, running) ==
    \E r \in listed :
        /\ todo' = [todo EXCEPT ![by] = listed \ {r}]
        /\ Begin(by, r, "cancelled", rest, entries, running)

\* A resolution is over; a canceller goes on to its next.
Over(j, entries, running) ==
    IF j.by \in Cancellers /\ todo[j.by] # {}
    THEN CancelOf(j.by, todo[j.by], jobs \ {j}, entries, running)
    ELSE /\ jobs' = jobs \ {j} /\ entry' = entries /\ timers' = running
         /\ UNCHANGED todo

Faulty == faults < MaxFaults /\ faults' = faults + 1
Asked == asks < MaxAsks /\ asks' = asks + 1

-----------------------------------------------------------------------------
(* A call parks *)

\* open_input (the Update): the call is described, and its grant asked, before it parks.
Call(r) ==
    /\ phase = "running" /\ entry[r] = "unseen"
    /\ entry' = [entry EXCEPT ![r] = "describing"]
    /\ of' = [of EXCEPT ![r] = [run |-> run, turn |-> turn]]
    /\ UNCHANGED <<run, turn, phase, parked, opened, timers, jobs, todo, reads, wakes,
                   told, held, dbVars, late, faults, asks>>

Settled(r, out) ==
    /\ entry' = [entry EXCEPT ![r] = "settled"]
    /\ told' = [told EXCEPT ![r] = out]
    /\ UNCHANGED <<run, turn, phase, of, parked, opened, timers, jobs, todo, reads,
                   wakes, held, late, faults, asks>>

\* Inside the run's grant, or refused by its flow: recorded at once, with no entry.
SettledAtOnce(r) ==
    /\ entry[r] = "describing" /\ Live(r)
    /\ \E d \in Decisions :
         /\ resp' = [resp EXCEPT ![r] = d]
         /\ Settled(r, d)
    /\ UNCHANGED <<row, status>>

\* The turn ended while the call was described, or its card is malformed: nothing written.
NotAsked(r) ==
    /\ entry[r] = "describing" /\ ~Lost(r)
    /\ Settled(r, "cancelled")
    /\ UNCHANGED dbVars

Park(r) ==
    /\ entry[r] = "describing" /\ Live(r)
    /\ entry' = [entry EXCEPT ![r] = "pending"]
    /\ parked' = parked \cup {r}
    /\ UNCHANGED <<run, turn, phase, of, opened, timers, jobs, todo, reads, wakes,
                   told, held, dbVars, late, faults, asks>>

Opening(r) == r \in parked \ opened

OpenLands(r) ==
    /\ Opening(r) /\ r \notin row /\ resp[r] = None
    /\ OpenInput(r)
    /\ UNCHANGED <<wfVars, late, faults, asks>>

\* The workflow hears its row is written: its timer starts, and what waited goes on.
OpenTold(r) ==
    /\ Opening(r) /\ (r \in row \/ resp[r] # None)
    /\ opened' = opened \cup {r}
    /\ timers' = timers \cup {r}
    /\ UNCHANGED <<run, turn, phase, entry, of, parked, jobs, todo, reads, wakes, told,
                   held, dbVars, late, faults, asks>>

\* An attempt is given up on and made again; the first may land yet.
OpenStalls(r) ==
    /\ Opening(r) /\ Faulty
    /\ late' = late \cup {[what |-> "open", r |-> r]}
    /\ UNCHANGED <<wfVars, dbVars, asks>>

-----------------------------------------------------------------------------
(* A person decides it *)

\* decideInput, in the row; the wake that follows may be lost, or late, which is the same.
Decide(r) ==
    /\ r \in row /\ ~Lost(r) /\ ~HasJob("timer", r)
    /\ \E d \in Decisions : Write(r, d)
    /\ wakes' = wakes \cup {r}
    /\ UNCHANGED <<run, turn, phase, entry, of, parked, opened, timers, jobs, todo,
                   reads, told, held, late, faults, asks>>

\* #adopt: joins the read in flight, or begins one if the entry is pending.
Adopt(r, timer) ==
    reads' = [reads EXCEPT ![r] =
        IF @.at # "none"
        THEN [at |-> @.at, timer |-> @.timer \/ timer, woke |-> @.woke \/ ~timer]
        ELSE IF entry[r] = "pending" THEN [at |-> "asked", timer |-> timer, woke |-> FALSE]
        ELSE NotRead]

\* input_decided: an entry this run does not hold is ignored.
Woken(r) ==
    /\ r \in wakes /\ wakes' = wakes \ {r}
    /\ IF r \in parked THEN Adopt(r, FALSE) ELSE UNCHANGED reads
    /\ UNCHANGED <<run, turn, phase, entry, of, parked, opened, timers, jobs, todo,
                   told, held, dbVars, late, faults, asks>>

\* #expire's recheck, while the timer is not due.
Recheck(r) ==
    /\ r \in timers /\ ~reads[r].timer
    /\ Adopt(r, TRUE)
    /\ UNCHANGED <<run, turn, phase, entry, of, parked, opened, timers, jobs, todo,
                   wakes, told, held, dbVars, late, faults, asks>>

\* read_input runs, once the open has answered.
ReadRow(r) ==
    /\ reads[r].at = "asked" /\ r \in opened
    /\ reads' = [reads EXCEPT ![r].at = IF resp[r] = None THEN "nothing" ELSE "found"]
    /\ UNCHANGED <<run, turn, phase, entry, of, parked, opened, timers, jobs, todo,
                   wakes, told, held, dbVars, late, faults, asks>>

\* Its answer: an entry still pending ends as recorded; one that is not is another's to
\* end, and its timer returns.  A wake that joined a read which found nothing reads once
\* more (#woken).
ReadReturns(r) ==
    /\ reads[r].at \in {"nothing", "found"}
    /\ \/ /\ entry[r] = "pending" /\ reads[r].at = "found"
          /\ Finish(r, resp[r]) /\ entry' = Ended(r) /\ timers' = timers \ {r}
       \/ /\ entry[r] = "pending" /\ reads[r].at = "nothing"
          /\ reads' = [reads EXCEPT ![r] =
               IF @.woke THEN [at |-> "asked", timer |-> FALSE, woke |-> FALSE] ELSE NotRead]
          /\ UNCHANGED <<entry, parked, timers, told, wakes>>
       \/ /\ entry[r] # "pending"
          /\ reads' = [reads EXCEPT ![r] = NotRead] /\ timers' = timers \ {r}
          /\ UNCHANGED <<entry, parked, told, wakes>>
    /\ UNCHANGED <<run, turn, phase, of, opened, jobs, todo, held, dbVars, late, faults, asks>>

-----------------------------------------------------------------------------
(* It ends without a decision *)

\* A resolution of one entry that is pending.
Resolve(by, r, out) ==
    /\ Begin(by, r, out, jobs, entry, timers)
    /\ UNCHANGED <<run, turn, phase, of, parked, opened, todo, reads, wakes, told,
                   held, dbVars, late, faults>>

\* The timer of #expire, when it does not wait on a read of its own.
Fire(r) ==
    /\ r \in timers /\ ~reads[r].timer
    /\ Resolve("timer", r, "expired") /\ UNCHANGED asks

\* Mutant: a withdrawal records no outcome.
WithdrawUnsaid(r) ==
    r \in PendingNow /\ Live(r) /\ ~HasJob("withdraw", r) /\ Asked /\ Resolve("withdraw", r, None)

\* withdraw_input: the turn's host gave up on the call.
Withdraw(r) ==
    /\ r \in PendingNow /\ Live(r) /\ ~HasJob("withdraw", r) /\ Asked
    /\ Resolve("withdraw", r, "cancelled")

\* The `respond` Update of an older replica's route.
Respond(r) ==
    /\ r \in PendingNow /\ ~HasJob("respond", r) /\ Asked
    /\ \E d \in Decisions : Resolve("respond", r, d)

\* cancel_input lists every pending entry, tab_reconnected those that wait for a tab;
\* each then resolves them one after another.
BoundedCancel ==
    /\ Idle("stop") /\ Asked
    /\ \E s \in SUBSET PendingNow : CancelOf("stop", s, jobs, entry, timers)
    /\ UNCHANGED <<run, turn, phase, of, parked, opened, reads, wakes, told, held,
                   dbVars, late, faults>>

-----------------------------------------------------------------------------
(* A resolution's way through resolve_input *)

\* One that waited for the open looks again.
JobGoes(j) ==
    /\ j.at = "wait" /\ j.r \in opened
    /\ IF entry[j.r] = "pending"
       THEN Begin(j.by, j.r, j.out, jobs \ {j}, entry, timers) /\ UNCHANGED todo
       ELSE Over(j, entry, timers)
    /\ UNCHANGED <<run, turn, phase, of, parked, opened, reads, wakes, told, held,
                   dbVars, late, faults, asks>>

JobLands(j) ==
    /\ j.at = "write"
    /\ ResolveInput(j.r, j.out)
    /\ jobs' = (jobs \ {j}) \cup {[j EXCEPT !.at = IF j.r \in row THEN "wrote" ELSE "missed"]}
    /\ UNCHANGED <<run, turn, phase, entry, of, parked, opened, timers, todo, reads,
                   wakes, told, held, late, faults, asks>>

JobTold(j) ==
    /\ j.at = "wrote"
    /\ Finish(j.r, j.out)
    /\ Over(j, Ended(j.r), timers \ {j.r})
    /\ UNCHANGED <<run, turn, phase, of, opened, held, dbVars, late, faults, asks>>

\* Mutant: its row was gone, and it ends the entry as it would have itself.
JobUnread(j) ==
    /\ j.at = "missed"
    /\ Finish(j.r, j.out)
    /\ Over(j, Ended(j.r), timers \ {j.r})
    /\ UNCHANGED <<run, turn, phase, of, opened, held, dbVars, late, faults, asks>>

\* Its row was gone: it reads how the entry ended, and ends it so.
JobReads(j) ==
    /\ j.at = "missed"
    /\ Finish(j.r, IF resp[j.r] = None THEN j.out ELSE resp[j.r])
    /\ Over(j, Ended(j.r), timers \ {j.r})
    /\ UNCHANGED <<run, turn, phase, of, opened, held, dbVars, late, faults, asks>>

JobStalls(j) ==
    /\ j.at = "write" /\ Faulty
    /\ late' = late \cup {[what |-> j.out, r |-> j.r]}
    /\ UNCHANGED <<wfVars, dbVars, asks>>

\* Mutant: an entry whose resolution gave up is left resolving.
JobFailsUnreset(j) ==
    /\ j.by \in Bounded /\ j.at \in {"write", "missed"} /\ Faulty
    /\ jobs' = jobs \ {j}
    /\ todo' = IF j.by = "stop" THEN [todo EXCEPT !["stop"] = {}] ELSE todo
    /\ UNCHANGED <<run, turn, phase, entry, of, parked, opened, timers, reads, wakes, told,
                   held, dbVars, late, asks>>

\* A caller waits no more than 30 s: the entry is pending again, and a canceller's Update
\* fails with the rest of its list.  Its last attempt may land yet, or never.
JobFails(j) ==
    /\ j.by \in Bounded /\ j.at \in {"write", "missed"} /\ Faulty
    /\ entry' = [entry EXCEPT ![j.r] = "pending"]
    /\ jobs' = jobs \ {j}
    /\ todo' = IF j.by = "stop" THEN [todo EXCEPT !["stop"] = {}] ELSE todo
    /\ late' = IF j.at = "write" THEN late \cup {[what |-> j.out, r |-> j.r]} ELSE late
    /\ UNCHANGED <<run, turn, phase, of, parked, opened, timers, reads, wakes, told,
                   held, dbVars, asks>>

LateLands(l) ==
    /\ late' = late \ {l}
    /\ IF l.what = "open" THEN OpenInput(l.r) ELSE ResolveInput(l.r, l.what)
    /\ UNCHANGED <<wfVars, faults, asks>>

-----------------------------------------------------------------------------
(* The turn *)

\* Released on a long park: nothing runs while its entries wait.
Release ==
    /\ phase = "running" /\ parked \cap opened # {}
    /\ phase' = "released" /\ held' = parked \cap opened
    /\ UNCHANGED <<run, turn, entry, of, parked, opened, timers, jobs, todo, reads,
                   wakes, told, dbVars, late, faults, asks>>

Continue ==
    /\ phase = "released" /\ \A r \in held : told[r] # None
    /\ phase' = "running" /\ held' = {}
    /\ UNCHANGED <<run, turn, entry, of, parked, opened, timers, jobs, todo, reads,
                   wakes, told, dbVars, late, faults, asks>>

\* closeTurn, when the activity returned or a Stop came: every pending entry is cancelled.
Close ==
    /\ phase \in {"running", "released"}
    /\ phase' = "settling" /\ held' = {}
    /\ IF PendingNow = {} THEN UNCHANGED <<todo, jobs, entry, timers>>
       ELSE CancelOf("close", PendingNow, jobs, entry, timers)
    /\ UNCHANGED <<run, turn, of, parked, opened, reads, wakes, told, dbVars, late,
                   faults, asks>>

\* Mutant: the turn's end does not wait for the resolutions in flight.
SettleAtOnce ==
    /\ phase = "settling" /\ Idle("close")
    /\ IF PendingNow = {} THEN phase' = "closing" /\ UNCHANGED <<todo, jobs, entry, timers>>
       ELSE phase' = phase /\ CancelOf("close", PendingNow, jobs, entry, timers)
    /\ UNCHANGED <<run, turn, of, parked, opened, reads, wakes, told, held, dbVars, late,
                   faults, asks>>

\* settle: once no parked entry is resolving, what is pending again is cancelled; when
\* nothing is, the turn's end is written.
Settle ==
    /\ phase = "settling" /\ Idle("close")
    /\ \A r \in parked : entry[r] # "resolving"
    /\ IF PendingNow = {} THEN phase' = "closing" /\ UNCHANGED <<todo, jobs, entry, timers>>
       ELSE phase' = phase /\ CancelOf("close", PendingNow, jobs, entry, timers)
    /\ UNCHANGED <<run, turn, of, parked, opened, reads, wakes, told, held, dbVars, late,
                   faults, asks>>

\* finish_turn.
FinishTurn ==
    /\ phase = "closing"
    /\ phase' = "between" /\ status' = "idle"
    /\ UNCHANGED <<run, turn, entry, of, parked, opened, timers, jobs, todo, reads,
                   wakes, told, held, row, resp, late, faults, asks>>

\* The next message: its send claims the idle row.
NextTurn ==
    /\ phase = "between" /\ MayGoOn /\ status = "idle"
    /\ turn' = turn + 1 /\ phase' = "running" /\ status' = "running"
    /\ UNCHANGED <<run, entry, of, parked, opened, timers, jobs, todo, reads, wakes,
                   told, held, row, resp, late, faults, asks>>

-----------------------------------------------------------------------------
(* The run ends *)

\* What the workflow held goes with it, and a wake of its entries will be ignored; what its
\* activities had in flight may still land.
Stops ==
    /\ late' = late \cup {[what |-> "open", r |-> r] : r \in {s \in parked \ opened : s \notin row}}
                    \cup {[what |-> j.out, r |-> j.r] : j \in {k \in jobs : k.at = "write"}}
    /\ entry' = [r \in Requests |-> IF entry[r] = "unseen" THEN "unseen" ELSE "gone"]
    /\ parked' = {} /\ opened' = {} /\ timers' = {} /\ jobs' = {} /\ held' = {}
    /\ told' = [r \in Requests |-> None]
    /\ todo' = [c \in Cancellers |-> {}]
    /\ reads' = [r \in Requests |-> NotRead]
    /\ wakes' = {}
    /\ UNCHANGED <<turn, of, dbVars, faults, asks>>

Terminate ==
    /\ MayEnd /\ phase # "ended" /\ phase' = "ended"
    /\ UNCHANGED run
    /\ Stops

\* A Reset runs the turn again, in a new run, whose calls have request ids of their own.
Reset ==
    /\ MayGoOn /\ phase \in {"running", "released", "settling"}
    /\ run' = run + 1 /\ phase' = "running"
    /\ Stops

\* DurableRunningSweep: the turn's end of a workflow that will not write it.
EndLostTurn ==
    /\ phase = "ended" /\ status # "idle" /\ status' = "idle"
    /\ UNCHANGED <<wfVars, row, resp, late, faults, asks>>

\* PendingInputSweep: an entry of a run that has ended.
SweepRow(r) ==
    /\ r \in row /\ Lost(r)
    /\ row' = row \ {r}
    /\ resp' = [resp EXCEPT ![r] = "cancelled"]
    /\ status' = IF status = "waiting" /\ row = {r} THEN "idle" ELSE status
    /\ UNCHANGED <<wfVars, late, faults, asks>>

-----------------------------------------------------------------------------
Parking(r) == Call(r) \/ SettledAtOnce(r) \/ NotAsked(r) \/ Park(r) \/ OpenLands(r) \/ OpenTold(r)
Reading(r) == Woken(r) \/ Recheck(r) \/ ReadRow(r) \/ ReadReturns(r)
Ending(r) == Fire(r) \/ Withdraw(r) \/ Respond(r)
Resolving(j) == JobGoes(j) \/ JobLands(j) \/ JobTold(j) \/ JobReads(j)
Turns == Release \/ Continue \/ Close \/ Settle \/ FinishTurn \/ NextTurn

Next ==
    \/ \E r \in Requests : Parking(r) \/ Reading(r) \/ Decide(r) \/ Ending(r) \/ SweepRow(r)
    \/ \E j \in jobs : Resolving(j)
    \/ BoundedCancel \/ Turns \/ Reset \/ Terminate \/ EndLostTurn
    \/ \E r \in Requests : OpenStalls(r)
    \/ \E j \in jobs : JobStalls(j) \/ JobFails(j)
    \/ \E l \in late : LateLands(l)

Spec == Init /\ [][Next]_vars
-----------------------------------------------------------------------------
(* Properties *)

EntryStates == {"unseen", "describing", "settled", "pending", "resolving", "resolved", "gone"}

\* Every variable holds a value of its kind.
TypeOK ==
    /\ run \in Spans /\ turn \in Spans
    /\ phase \in {"running", "released", "settling", "closing", "between", "ended"}
    /\ entry \in [Requests -> EntryStates]
    /\ of \in [Requests -> [run : Spans, turn : Spans]]
    /\ parked \subseteq Requests /\ opened \subseteq Requests
    /\ timers \subseteq Requests
    /\ jobs \subseteq [by : Resolvers, r : Requests, out : Outcomes,
                       at : {"wait", "write", "wrote", "missed"}]
    /\ todo \in [Cancellers -> SUBSET Requests]
    /\ reads \in [Requests -> [at : {"none", "asked", "nothing", "found"},
                               timer : BOOLEAN, woke : BOOLEAN]]
    /\ wakes \subseteq Requests /\ held \subseteq Requests /\ row \subseteq Requests
    /\ told \in [Requests -> Outcomes \cup {None}]
    /\ resp \in [Requests -> Outcomes \cup {None}]
    /\ status \in {"running", "waiting", "idle"}
    /\ late \subseteq [what : Outcomes \cup {"open"}, r : Requests]
    /\ faults \in 0..MaxFaults /\ asks \in 0..MaxAsks

\* What the workflow says of an entry, to the turn that waits on it and to a continuation
\* that runs the approved calls, is what its response row says, whoever resolved it,
\* however often, and whichever attempt of it landed (#resolve, #finish, #read): an
\* expired or cancelled call never runs as approved, nor is a decision lost.  Only a call
\* that was never asked is cancelled without a row.
ToldIsRecorded ==
    \A r \in Requests : told[r] # None =>
        \/ resp[r] = told[r]
        \/ told[r] = "cancelled" /\ resp[r] = None /\ r \notin opened

\* When a turn's end is written, the workflow holds none of its entries and their rows
\* are gone: no card is left that could be answered but whose call will never run
\* (closeTurn, settle, and `live` in open).
EndedTurnHoldsNothing ==
    phase \in {"closing", "between"} => parked = {} /\ \A r \in row : Lost(r)

\* The session waits as long as a row of its run is open, and only while some row is:
\* overlapping resolutions, late attempts and the sweep leave neither a status that waits
\* for nothing nor a card the session does not show (#3685).
StatusFollowsRows ==
    /\ status = "waiting" => row # {}
    /\ (\E r \in row : ~Lost(r)) => status = "waiting"

\* settle waits for every resolving entry, and nothing else may resolve it meanwhile: such
\* an entry always has its resolution in flight, however cancellers, timers and bounded
\* Updates overlap and give up, so a turn that closes is never stuck on one.
ResolvingHasJob ==
    \A r \in parked : entry[r] = "resolving" =>
        \E j \in jobs : j.r = r /\ j.at # "wait"

\* "So a failed write never leaves the call parked with no timer and no way to answer"
\* (the durable agents spec): an opened entry that is pending has its timer.  The code's
\* #expire returns once the entry is resolving, and JobFails puts it back to pending.
TimerKept ==
    \A r \in PendingNow : r \in opened => r \in timers

=============================================================================
