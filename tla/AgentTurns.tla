----------------------------- MODULE AgentTurns -----------------------------
(***************************************************************************)
(* One session's turns: a send claims the session's row and hands its      *)
(* message to the workflow, which places the turn on a replica, again when *)
(* that replica is lost, releases it while a call waits long, and writes   *)
(* its end.  A replica given up on may run on: the row says which          *)
(* placement may write.  A Stop, the sweep of running rows, a done mark    *)
(* and an operator's terminate act meanwhile.  Each SQL transaction is one *)
(* step, and so is what the workflow does between two awaits.              *)
(*                                                                         *)
(* Which replica is chosen, what a turn costs and the entries of parked    *)
(* calls (SessionGate) are left out.                                       *)
(***************************************************************************)
EXTENDS Naturals, Sequences, FiniteSets

CONSTANTS
    Turns,       \* the turn ids sent
    Placements,  \* how often one turn is placed (PLACEMENTS)
    MaxReleases, \* BOUND: releases of one turn
    MaxFaults,   \* BOUND: failed replicas, senders and calls, late claims, Stops, done marks,
                 \* terminates
    None

ASSUME TurnAssumption ==
    /\ Placements \in Nat \ {0} /\ MaxReleases \in Nat
    /\ MaxFaults \in Nat
    /\ None \notin Turns \cup {"prompt", "restart"} /\ None \notin [turn: Turns, n: Nat]

VARIABLES
    row,     \* ai_sessions: done, turn (durable_turn_id), att (turn_attempt), stop
             \* (interrupt_requested), and the mark of the transcript (turn_mark)
    log,     \* the user entries of the main transcript
    send,    \* where each send is
    wf,      \* the workflow
    places,  \* the placements that still run somewhere
    made,    \* numbers the placements that still run in the order they were made
    looks,   \* what the sweep and a Stop read of the row and of the workflow
    said,    \* turns whose placement has written an event
    taken,   \* messages the workflow accepted
    ended,   \* turns whose end the workflow has written
    outlived, \* history: turns that a placement given up on could write again (ClaimTurn)
    faults

vars == <<row, log, send, wf, places, made, looks, said, taken, ended, outlived, faults>>

\* The key of a transcript mark: the turn, or the turn's n-th continuation.
Key(t, n) == [turn |-> t, n |-> n]
NoLook == [at |-> "none", fresh |-> FALSE, state |-> None, settled |-> FALSE]

Closed == [up |-> "closed", run |-> 0, msg |-> None, cur |-> None, stage |-> "idle",
           cycle |-> 0, budget |-> 0, home |-> FALSE, kept |-> FALSE, again |-> FALSE,
           rel |-> 0, place |-> 0, stop |-> FALSE, stopNext |-> FALSE, end |-> FALSE]

Init ==
    /\ row = [done |-> FALSE, turn |-> None, att |-> None, stop |-> FALSE,
              key |-> None, mark |-> 0]
    /\ log = <<>>
    /\ send = [t \in Turns |-> "none"]
    /\ wf = [Closed EXCEPT !.up = "none"]
    /\ places = {} /\ made = 0
    /\ looks = [a \in {"sweep", "stop"} |-> NoLook]
    /\ said = {} /\ taken = {} /\ ended = {} /\ outlived = {}
    /\ faults = 0

-----------------------------------------------------------------------------
(* Helpers *)

Faulty == faults < MaxFaults /\ faults' = faults + 1

Open == wf.up = "open"
InTurn == wf.msg # None \/ wf.cur # None
Closing == wf.stage = "closing"

\* event_seq has moved past what was read: that look ends nothing any more, so it is only
\* followed where the workflow was described already, or where a Stop goes on to its signal.
Stale(l) == IF l.at = "gone" THEN NoLook ELSE [l EXCEPT !.fresh = FALSE]

\* An event of the session is appended: event_seq moves past what anyone read.
Logged == looks' = [a \in DOMAIN looks |-> Stale(looks[a])]

Idle(r) == [r EXCEPT !.turn = None]

\* The waited placement.
Waited(p) == wf.stage = "placed" /\ wf.place = p.id

\* `holds`: the row is this placement's and this turn's.
Holds(p) == row.att = p.att /\ row.turn = p.turn

\* Mutant: transcript appends are not fenced.
HoldsAnyway(p) == TRUE

\* `holdsOrLast`: or the session's last placement's, while no turn runs.
HoldsOrLast(p) == row.att = p.att /\ row.turn \in {p.turn, None}

\* It claimed its turn, and its process may write yet.
Active(p) == p.at \notin {"sent", "result"}

\* A user entry after the mark of the transcript (userEntryLanded).
Landed(p) == Len(log) > p.mark

-----------------------------------------------------------------------------
(* A send (DurableTurns.send) *)

Claim(t) ==
    /\ send[t] = "none" /\ row.turn = None /\ ~row.done
    /\ row' = [row EXCEPT !.turn = t, !.stop = FALSE]
    /\ send' = [send EXCEPT ![t] = "claimed"]
    /\ UNCHANGED <<log, wf, places, made, looks, said, taken, ended, faults, outlived>>

\* Its user.turn event, then the Update goes out, which waits for a worker in Temporal.
Ask(t) ==
    /\ send[t] = "claimed"
    /\ send' = [send EXCEPT ![t] = "asked"]
    /\ Logged
    /\ UNCHANGED <<row, log, wf, places, made, said, taken, ended, faults, outlived>>

\* Unanswered: the claim is kept, and the Update may be delivered yet.
GiveUp(t) ==
    /\ send[t] = "asked" /\ Faulty
    /\ send' = [send EXCEPT ![t] = "unknown"]
    /\ UNCHANGED <<row, log, wf, places, made, looks, said, taken, ended, outlived>>

\* The sender's process dies before its Update is out, or with a refusal in hand.
SenderDies(t) ==
    /\ send[t] \in {"claimed", "refused"} /\ Faulty
    /\ send' = [send EXCEPT ![t] = "over"]
    /\ UNCHANGED <<row, log, wf, places, made, looks, said, taken, ended, outlived>>

\* The validator of send_message: none pending, no turn but one whose end is written.
Takes == wf.msg = None /\ (~InTurn \/ Closing) /\ ~wf.end

\* Update-with-start: a first send starts the workflow; a closed one refuses it.
Deliver(t) ==
    /\ send[t] \in {"asked", "unknown"}
    /\ \/ /\ wf.up = "none" \/ (Open /\ Takes)
          /\ wf' = IF Open THEN [wf EXCEPT !.msg = t]
                   ELSE [Closed EXCEPT !.up = "open", !.msg = t]
          /\ taken' = taken \cup {t} /\ send' = [send EXCEPT ![t] = "over"]
       \/ /\ wf.up = "closed" \/ (Open /\ ~Takes)
          /\ send' = [send EXCEPT ![t] = IF @ = "asked" THEN "refused" ELSE "over"]
          /\ UNCHANGED <<wf, taken>>
    /\ UNCHANGED <<row, log, places, made, looks, said, ended, faults, outlived>>

\* A refused send gives its claim back.
GiveBack(t) ==
    /\ send[t] = "refused"
    /\ send' = [send EXCEPT ![t] = "over"]
    /\ row' = Idle(row)
    /\ IF row.turn # None THEN Logged ELSE UNCHANGED looks
    /\ UNCHANGED <<log, wf, places, made, said, taken, ended, faults, outlived>>

-----------------------------------------------------------------------------
(* The workflow *)

StartTurn(w) == [w EXCEPT !.cur = w.msg, !.msg = None, !.stage = "starting", !.rel = 0]

\* The main loop takes a message, or ends.
Take ==
    /\ Open /\ wf.stage = "idle"
    /\ \/ wf.msg # None /\ wf' = StartTurn(wf)
       \/ wf.msg = None /\ wf.end /\ wf' = Closed
    /\ made' = IF places = {} THEN 0 ELSE made
    /\ UNCHANGED <<row, log, send, places, looks, said, taken, ended, faults, outlived>>

Close(w) == [w EXCEPT !.stage = "closing", !.place = 0, !.cycle = 0, !.budget = 0,
                      !.kept = FALSE, !.again = FALSE, !.rel = 0]

\* placeTurn begins: `again` is its restarted continuation.
Placing(w) == [w EXCEPT !.stage = "placing", !.cycle = 0, !.budget = Placements,
                        !.kept = w.home, !.again = FALSE]

\* The settings are read; a Stop by then spends the message with the turn.
ReadSettings ==
    /\ Open /\ wf.stage = "starting"
    /\ wf' = IF wf.stop THEN Close(wf) ELSE Placing(wf)
    /\ UNCHANGED <<row, log, send, places, made, looks, said, taken, ended, faults, outlived>>

\* acquire_worker where there is no home, then session_turn there.
Place ==
    /\ Open /\ wf.stage = "placing"
    /\ made' = made + 1
    /\ places' = places \cup
         {[id |-> made', turn |-> wf.cur, n |-> wf.rel, att |-> <<wf.run, wf.cycle>>,
           again |-> wf.again, at |-> "sent", told |-> None, mute |-> FALSE, mark |-> 0, out |-> None]}
    /\ wf' = [wf EXCEPT !.stage = "placed", !.home = TRUE, !.place = made']
    /\ UNCHANGED <<row, log, send, looks, said, taken, ended, faults, outlived>>

\* Mutant: a Stop does not keep the turn from being placed again.
MovedStopped(w, free) ==
    LET budget == IF free /\ w.kept THEN w.budget + 1 ELSE w.budget
        next == [w EXCEPT !.cycle = @ + 1, !.budget = budget, !.home = FALSE,
                          !.kept = FALSE, !.again = TRUE, !.place = 0, !.stage = "placing"]
    IN IF next.cycle = budget THEN Close(next) ELSE next

\* Mutant: any full replica's refusal costs no placement, a kept home or not.
MovedFree(w, free) ==
    LET budget == IF free THEN w.budget + 1 ELSE w.budget
        next == [w EXCEPT !.cycle = @ + 1, !.budget = budget, !.home = FALSE,
                          !.kept = FALSE, !.again = TRUE, !.place = 0, !.stage = "placing"]
    IN IF w.stop \/ next.cycle = budget THEN Close(next) ELSE next

\* A lost or refused placement: placed again while its placements last (a kept home that
\* was full costs none), unless a Stop came.
Moved(w, free) ==
    LET budget == IF free /\ w.kept THEN w.budget + 1 ELSE w.budget
        next == [w EXCEPT !.cycle = @ + 1, !.budget = budget, !.home = FALSE,
                          !.kept = FALSE, !.again = TRUE, !.place = 0, !.stage = "placing"]
    IN IF w.stop \/ next.cycle = budget THEN Close(next) ELSE next

\* No replica takes it, past acquire_worker's retries.
AcquireFails ==
    /\ Open /\ wf.stage = "placing" /\ ~wf.home /\ Faulty
    /\ wf' = Moved(wf, FALSE)
    /\ UNCHANGED <<row, log, send, places, made, looks, said, taken, ended, outlived>>

\* Its heartbeat stopped, or no worker polled its queue, which is the end of it; one that was
\* started may run on a while, and write, or claim the turn as late as it likes (ClaimTurn).
Lost ==
    /\ Open /\ wf.stage = "placed"
    /\ \/ \E p \in places : Waited(p) /\ p.at # "result" /\ Faulty
       \/ (\A p \in places : ~Waited(p)) /\ UNCHANGED faults
    /\ wf' = Moved(wf, FALSE)
    /\ UNCHANGED <<row, log, send, places, made, looks, said, taken, ended, outlived>>

\* Past turn_max_seconds: over, not lost; its replica may run on.
OverTime ==
    /\ Open /\ Faulty
    /\ \E p \in places : Waited(p) /\ p.at \notin {"sent", "result"}
    /\ wf' = Close(wf)
    /\ UNCHANGED <<row, log, send, places, made, looks, said, taken, ended, outlived>>

\* The activity's result; a released turn waits for its calls to be decided.
Result(p) ==
    /\ Open /\ Waited(p) /\ p.at = "result"
    /\ places' = places \ {p}
    /\ wf' = CASE p.out \in {"shutdown", "full"} -> Moved(wf, p.out = "full")
               [] p.out = "released" /\ ~wf.stop ->
                    [wf EXCEPT !.stage = "released", !.place = 0, !.rel = @ + 1]
               [] OTHER -> Close(wf)
    /\ UNCHANGED <<row, log, send, made, looks, said, taken, ended, faults, outlived>>

\* Every parked call is decided: the turn is placed again, to run the approved ones.
Continue ==
    /\ Open /\ wf.stage = "released"
    /\ wf' = Placing(wf)
    /\ UNCHANGED <<row, log, send, places, made, looks, said, taken, ended, faults, outlived>>

\* finish_turn: the row goes idle if it still runs this turn.
FinishTurn ==
    /\ Open /\ Closing /\ wf.cur \notin ended
    /\ ended' = ended \cup {wf.cur} /\ said' = said \ {wf.cur}
    /\ IF row.turn = wf.cur
       THEN row' = [Idle(row) EXCEPT !.stop = FALSE] /\ Logged
       ELSE UNCHANGED <<row, looks>>
    /\ UNCHANGED <<log, send, wf, places, made, taken, faults, outlived>>

\* The workflow hears of it: a message taken meanwhile is the next turn's, in this run.
TurnOver ==
    /\ Open /\ Closing /\ wf.cur \in ended
    /\ wf' = [wf EXCEPT !.cur = None, !.stop = wf.stopNext, !.stopNext = FALSE,
                        !.stage = IF wf.msg # None THEN "idle" ELSE "finishing"]
    /\ UNCHANGED <<row, log, send, places, made, looks, said, taken, ended, faults, outlived>>

\* Mutant: the run goes on in a new one whatever came while its handlers finished.
ContinueBlind ==
    /\ Open /\ wf.stage = "finishing"
    /\ wf' = IF wf.end THEN Closed
             ELSE [Closed EXCEPT !.up = "open", !.run = wf.run + 1, !.home = wf.home]
    /\ UNCHANGED <<row, log, send, places, made, looks, said, taken, ended, faults, outlived>>

\* Its handlers have finished: the message taken meanwhile, the end, or a new run, which
\* keeps the home.
Finishing ==
    /\ Open /\ wf.stage = "finishing"
    /\ wf' = IF wf.msg # None THEN [wf EXCEPT !.stage = "idle"]
             ELSE IF wf.end THEN Closed
             ELSE [Closed EXCEPT !.up = "open", !.run = wf.run + 1, !.home = wf.home]
    /\ UNCHANGED <<row, log, send, places, made, looks, said, taken, ended, faults, outlived>>

-----------------------------------------------------------------------------
(* A placement (TurnHost.run) *)

Step(p, q) == places' = (places \ {p}) \cup {q}
\* Its run is over: what it returns is for whoever waits for it.
Ends(p, out) ==
    IF Waited(p) THEN Step(p, [p EXCEPT !.at = "result", !.out = out]) ELSE places' = places \ {p}

\* Its replica is shutting down, or every process there runs a turn.
Refuse(p) ==
    /\ p.at = "sent" /\ Faulty
    /\ \E out \in {"shutdown", "full"} : Ends(p, out)
    /\ UNCHANGED <<row, log, send, wf, made, looks, said, taken, ended, outlived>>

\* #claim: the row is this placement's from now on, and the first of each key sets the mark.
\* It asks for the turn only: so does one nobody waits for any more, and its attempt id may be
\* that of one which still runs (a run's ids come back with each turn and continuation).
ClaimTurn(p) ==
    /\ p.at = "sent"
    /\ IF row.turn = p.turn
       THEN /\ row' = [row EXCEPT !.att = p.att, !.key = Key(p.turn, p.n),
                                  !.mark = IF row.key = Key(p.turn, p.n) THEN @ ELSE Len(log)]
            /\ Step(p, [p EXCEPT !.at = "claimed", !.mark = row'.mark])
            /\ outlived' = outlived \cup
                 {q.turn : q \in {x \in places : IF x = p THEN ~Waited(p)
                                                 ELSE Active(x) /\ x.att = p.att}}
            /\ IF Waited(p) THEN UNCHANGED faults ELSE Faulty
       ELSE Ends(p, "over") /\ UNCHANGED <<row, outlived, faults>>
    /\ UNCHANGED <<log, send, wf, made, looks, said, taken, ended>>

\* Mutant: whether it is told it restarted is the workflow's word.
ChooseTrusting(p) ==
    /\ p.at = "claimed"
    /\ Step(p, [p EXCEPT !.at = "pushed", !.mark = 0, !.again = FALSE,
                  !.told = IF p.again THEN "restart" ELSE "prompt"])
    /\ UNCHANGED <<row, log, send, wf, made, looks, said, taken, ended, faults, outlived>>

\* What Claude Code is told: the message (or how the parked calls went, the approved ones
\* run now), or, once that is in the transcript, that the turn restarted.
Choose(p) ==
    /\ p.at = "claimed"
    /\ Step(p, [p EXCEPT !.at = "pushed", !.mark = 0, !.again = FALSE,
                  !.told = IF (p.again \/ p.n > 0) /\ Landed(p) THEN "restart" ELSE "prompt"])
    /\ UNCHANGED <<row, log, send, wf, made, looks, said, taken, ended, faults, outlived>>

\* Claude Code's user entry, appended if the placement may; refused once, it writes no more.
Entry(p, what, next) ==
    IF ~p.mute /\ HoldsOrLast(p)
    THEN log' = Append(log, [key |-> Key(p.turn, p.n), what |-> what]) /\ Step(p, next)
    ELSE UNCHANGED log /\ Step(p, [next EXCEPT !.mute = TRUE])

Land(p) ==
    /\ p.at = "pushed"
    /\ Entry(p, p.told, [p EXCEPT !.at = "working"])
    /\ UNCHANGED <<row, send, wf, made, looks, said, taken, ended, faults, outlived>>

\* The turn's events, while the placement holds it.
Say(p) ==
    /\ p.at \in {"pushed", "working"} /\ Holds(p)
    /\ said' = said \cup {p.turn} /\ Logged
    /\ UNCHANGED <<row, log, send, wf, places, made, taken, ended, faults, outlived>>

\* A call is held too long, or the replica shuts down: the process is let go, and ...
Release(p) ==
    /\ p.at = "working" /\ Waited(p) /\ wf.rel < MaxReleases
    /\ Step(p, [p EXCEPT !.at = "letting"])
    /\ UNCHANGED <<row, log, send, wf, made, looks, said, taken, ended, faults, outlived>>

\* ... what it writes as it ends is in the transcript before the turn is released.
LetGo(p) ==
    /\ p.at = "letting"
    /\ Entry(p, "results", [p EXCEPT !.at = "result", !.out = "released"])
    /\ UNCHANGED <<row, send, wf, made, looks, said, taken, ended, faults, outlived>>

Finish(p) ==
    /\ p.at = "working" /\ Ends(p, "over")
    /\ UNCHANGED <<row, log, send, wf, made, looks, said, taken, ended, faults, outlived>>

\* A Stop, by the row's flag on a tick of the fence or by the activity's cancel.
Abort(p) ==
    /\ p.at \in {"pushed", "working"}
    /\ (Holds(p) /\ row.stop) \/ (Waited(p) /\ wf.stop)
    /\ Ends(p, "over")
    /\ UNCHANGED <<row, log, send, wf, made, looks, said, taken, ended, faults, outlived>>

\* Its tick finds the row another's, its heartbeat that nobody waits, or a newer placement
\* of the session came to its replica: its process is closed, and nothing more is written.
Cut(p) ==
    /\ p.at # "sent" /\ p.at # "result"
    /\ ~Waited(p) \/ (p.at # "claimed" /\ ~Holds(p))
    /\ Ends(p, "over")
    /\ UNCHANGED <<row, log, send, wf, made, looks, said, taken, ended, faults, outlived>>

\* Its replica dies, or nobody waits for its result any more.
Gone(p) ==
    /\ IF p.at = "result" THEN ~Waited(p) /\ UNCHANGED faults ELSE Faulty
    /\ places' = places \ {p}
    /\ UNCHANGED <<row, log, send, wf, made, looks, said, taken, ended, outlived>>

-----------------------------------------------------------------------------
(* A Stop, the sweep, the session's end *)

\* Nothing of the row was written for RUNNING_GRACE_MS: longer than any send takes.
Quiet == row.turn # None /\ send[row.turn] \notin {"claimed", "asked", "refused"}

Look(a, at, settled) ==
    looks' = [looks EXCEPT ![a] = [at |-> at, fresh |-> TRUE, state |-> None, settled |-> settled]]

StopReads ==
    /\ looks["stop"].at = "none" /\ row.turn # None /\ Faulty
    /\ Look("stop", "read", Quiet)
    /\ UNCHANGED <<row, log, send, wf, places, made, said, taken, ended, outlived>>

StopFlags ==
    /\ looks["stop"].at = "read"
    /\ row' = [row EXCEPT !.stop = @ \/ row.turn # None]
    /\ looks' = [looks EXCEPT !["stop"].at = "flagged"]
    /\ UNCHANGED <<log, send, wf, places, made, said, taken, ended, faults, outlived>>

\* The interrupt handler: between turns it is ignored, once the turn's end is being written
\* it is for the message taken meanwhile, else it stops the turn.
Interrupted(w) ==
    IF ~InTurn THEN w
    ELSE IF Closing THEN [w EXCEPT !.stopNext = @ \/ w.msg # None]
    ELSE IF w.stage \in {"placing", "released"} THEN Close([w EXCEPT !.stop = TRUE])
    ELSE [w EXCEPT !.stop = TRUE]

StopSignals ==
    /\ looks["stop"].at = "flagged"
    /\ \/ /\ Open /\ wf' = Interrupted(wf)
          /\ looks' = [looks EXCEPT !["stop"] = NoLook] /\ UNCHANGED faults
       \/ /\ Faulty /\ looks' = [looks EXCEPT !["stop"] = NoLook] /\ UNCHANGED wf
       \/ /\ ~Open /\ looks' = [looks EXCEPT !["stop"].at = "gone"] /\ UNCHANGED <<wf, faults>>
    /\ UNCHANGED <<row, log, send, places, made, said, taken, ended, outlived>>

SweepReads ==
    /\ looks["sweep"].at = "none" /\ Quiet
    /\ Look("sweep", "gone", TRUE)
    /\ UNCHANGED <<row, log, send, wf, places, made, said, taken, ended, faults, outlived>>

State == IF wf.up = "none" THEN "not_found" ELSE IF wf.up = "closed" THEN "closed"
         ELSE IF InTurn THEN "open" ELSE "between_turns"

\* The workflow is described, and asked for the turn it holds.
Describe(a) ==
    /\ looks[a].at = "gone"
    /\ looks' = [looks EXCEPT ![a] =
         IF State = "open" \/ (State # "closed" /\ ~@.settled) THEN NoLook
         ELSE [@ EXCEPT !.at = "described", !.state = State]]
    /\ UNCHANGED <<row, log, send, wf, places, made, said, taken, ended, faults, outlived>>

\* Mutant: the row is ended whatever was written since it was read.
EndLostAnyway(a) ==
    /\ looks[a].at = "described"
    /\ row' = Idle(row)
    /\ looks' = [looks EXCEPT ![a] = NoLook]
    /\ UNCHANGED <<log, send, wf, places, made, said, taken, ended, faults, outlived>>

\* endLostTurn: the row goes idle if nothing was written since it was read.
EndLost(a) ==
    /\ looks[a].at = "described"
    /\ IF looks[a].fresh /\ row.turn # None
       THEN /\ row' = Idle(row)
            /\ looks' = [b \in DOMAIN looks |->
                 IF b = a THEN NoLook ELSE Stale(looks[b])]
       ELSE UNCHANGED row /\ looks' = [looks EXCEPT ![a] = NoLook]
    /\ UNCHANGED <<log, send, wf, places, made, said, taken, ended, faults, outlived>>

\* The session is marked done: the workflow is told before the row is committed.
MarkDone ==
    /\ row.turn = None /\ ~row.done /\ Faulty
    /\ row' = [row EXCEPT !.done = TRUE]
    /\ wf' = IF Open THEN [wf EXCEPT !.end = TRUE] ELSE wf
    /\ Logged
    /\ UNCHANGED <<log, send, places, made, said, taken, ended, outlived>>

Terminate ==
    /\ Open /\ Faulty /\ wf' = Closed
    /\ UNCHANGED <<row, log, send, places, made, looks, said, taken, ended, outlived>>

-----------------------------------------------------------------------------
Sending(t) == Claim(t) \/ Ask(t) \/ Deliver(t) \/ GiveBack(t)
Workflow == Take \/ ReadSettings \/ Place \/ Lost \/ Continue \/ FinishTurn \/ TurnOver \/ Finishing
Running(p) ==
    \/ ClaimTurn(p) \/ Choose(p) \/ Land(p) \/ Say(p) \/ LetGo(p)
    \/ Finish(p) \/ Abort(p) \/ Cut(p) \/ Result(p) \/ Gone(p)

Next ==
    \/ \E t \in Turns : Sending(t) \/ GiveUp(t) \/ SenderDies(t)
    \/ Workflow \/ AcquireFails \/ OverTime
    \/ \E p \in places : Running(p) \/ Release(p) \/ Refuse(p)
    \/ StopReads \/ StopFlags \/ StopSignals \/ SweepReads
    \/ \E a \in DOMAIN looks : Describe(a) \/ EndLost(a)
    \/ MarkDone \/ Terminate

Spec == Init /\ [][Next]_vars
-----------------------------------------------------------------------------
(* Properties *)

Stages == {"idle", "starting", "placing", "placed", "released", "closing", "finishing"}

\* Every variable has its type; a turn has its placements, and one more where the home it
\* kept was full (placeTurn's `placements`), a placement waited for is of the turn that runs.
TypeOK ==
    /\ row \in [done: BOOLEAN, turn: Turns \cup {None}, att: (Nat \X Nat) \cup {None},
                stop: BOOLEAN, key: [turn: Turns, n: Nat] \cup {None}, mark: Nat]
    /\ log \in Seq([key: [turn: Turns, n: Nat], what: {"prompt", "restart", "results"}])
    /\ send \in [Turns -> {"none", "claimed", "asked", "unknown", "refused", "over"}]
    /\ wf.stage \in Stages /\ wf.msg \in Turns \cup {None} /\ wf.cur \in Turns \cup {None}
    /\ wf.budget <= Placements + 1 /\ wf.cycle <= wf.budget
    /\ \A p \in places :
         /\ p.at \in {"sent", "claimed", "pushed", "working", "letting", "result"}
         /\ p.id \in 1..made /\ Waited(p) => p.turn = wf.cur
    /\ said \cup taken \cup ended \subseteq Turns
    /\ faults \in 0..MaxFaults

\* A turn's message, and how its released calls went, is in the transcript at most once,
\* however often it is placed and whichever placement's append lands late: the model reads it
\* twice only where a placement given up on claimed its turn late, or had its id given out
\* again (#claim's mark, #landed, holdsOrLast).
MessageOnce ==
    \A i, j \in 1..Len(log) :
        log[i] = log[j] /\ log[i].what = "prompt" => i = j \/ log[i].key.turn \in outlived

\* A placement that holds its turn is told that it restarted only if what the turn was sent,
\* or how its calls went, is in the transcript: no message is dropped because another turn's,
\* or a released process's, last entries were taken for it.
ToldWhatLanded ==
    \A p \in places : Active(p) /\ p.told = "restart" /\ Holds(p) /\ p.turn \notin outlived =>
        \E i \in 1..Len(log) : log[i] = [key |-> Key(p.turn, p.n), what |-> "prompt"]

\* What is appended of one turn is not torn apart by another turn's entries, however late the
\* appends of lost and released placements come (holdsOrLast, each turn_attempt its own),
\* unless one of the two turns could be written again by a placement given up on.
TurnsApart ==
    \A i, j, k \in 1..Len(log) :
        i < j /\ j < k /\ log[i].key.turn = log[k].key.turn
        => log[j].key.turn = log[i].key.turn \/ {log[i].key.turn, log[j].key.turn} \cap outlived # {}

\* A message the workflow accepted is the next, the running one, or its turn's end was
\* written, across runs, whatever was terminated aside: none is dropped while its handlers
\* finish or its end is written.
AcceptedNotLost ==
    Open => \A t \in taken : t \in {wf.msg, wf.cur} \cup ended

\* The row leaves a turn its workflow holds only by that turn's end, or for a look at the
\* workflow taken before it held the turn, and then only before its placement wrote anything.
OnlyItsEnd ==
    [][\A t \in Turns :
         (row.turn = t /\ row'.turn # t /\ Open /\ t \in {wf.msg, wf.cur} /\ t \notin ended')
         => /\ t \notin said
            /\ \E a \in DOMAIN looks :
                 looks[a].at = "described" /\ looks[a].fresh /\ looks'[a] = NoLook]_vars

\* Once the workflow has a Stop of its turn, it places the turn no more: not after its
\* settings were read, its worker was lost, its calls were decided or a replica refused it.
StoppedStays ==
    [][wf.stop /\ wf.cur # None /\ wf'.cur = wf.cur => made' = made]_vars

=============================================================================
