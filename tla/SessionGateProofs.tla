-------------------------- MODULE SessionGateProofs --------------------------
(***************************************************************************)
(* What TLAPS proves of SessionGate, for every set of calls, decisions and *)
(* bounds, with and without an operator who terminates the workflow.       *)
(***************************************************************************)
EXTENDS SessionGate, TLAPS

(***************************************************************************)
(* The inductive invariant.                                                *)
(***************************************************************************)
WasParked(r) == entry[r] \in {"pending", "resolving", "resolved"}

\* A call that was never parked has no row, no resolution and no late attempt; what is
\* parked has not ended.
KnownInv ==
  /\ \A r \in parked : entry[r] \in {"pending", "resolving"}
  /\ timers \subseteq opened
  /\ \A r \in opened : WasParked(r)
  /\ \A j \in jobs : WasParked(j.r)
  /\ \A c \in Cancellers : \A r \in todo[c] : WasParked(r)
  /\ \A r \in row : WasParked(r) \/ entry[r] = "gone"
  /\ \A l \in late : WasParked(l.r) \/ entry[l.r] = "gone"
  /\ \A r \in Requests : entry[r] \in {"unseen", "describing"} => resp[r] = None

\* A row is of a parked entry, and is there until its response is; an open still in flight
\* inserts nothing once its entry ended.
RowInv ==
  /\ \A r \in row : resp[r] = None
  /\ \A r \in row : ~Lost(r) => r \in parked
  /\ \A r \in opened : r \in row \/ resp[r] # None
  /\ \A l \in late : l.what = "open" /\ ~Lost(l.r) => l.r \in parked \/ resp[l.r] # None
  /\ \A r \in Requests : of[r].run <= run

\* What a resolution and a read have found is what the response says.
JobInv ==
  /\ \A j \in jobs : /\ j.at # "wait" => j.r \in opened
                     /\ j.at = "wrote" => resp[j.r] = j.out
                     /\ j.at = "missed" => resp[j.r] # None
  /\ \A r \in Requests : reads[r].at = "found" => resp[r] # None

\* Only a call that was never parked is told an outcome that is not recorded.
ToldInv ==
  \A r \in Requests : told[r] # None =>
    resp[r] = told[r] \/ (told[r] = "cancelled" /\ resp[r] = None /\ entry[r] = "settled")

IInv ==
  /\ KnownInv /\ RowInv /\ JobInv /\ ToldInv
  /\ ResolvingHasJob /\ EndedTurnHoldsNothing /\ StatusFollowsRows
(***************************************************************************)
(* What a resolution that begins does to the workflow's state.             *)
(***************************************************************************)
JobSet == [by : Resolvers, r : Requests, out : Outcomes, at : {"wait", "write", "wrote", "missed"}]

\* The part of the type invariant about resolutions.
WorkTypeOK ==
  /\ entry \in [Requests -> EntryStates]
  /\ timers \subseteq Requests
  /\ jobs \subseteq JobSet
  /\ todo \in [Cancellers -> SUBSET Requests]

\* From `rest`, `entries` and `running`, at most resolutions of the entries `started` begin:
\* an entry is resolving only beside a resolution that writes.
Moves(started, rest, entries, running) ==
  /\ \A r \in Requests :
       \/ entry'[r] = entries[r]
       \/ /\ r \in started /\ entry'[r] = "resolving"
          /\ \E k \in jobs' : k.r = r /\ k.at = "write"
  /\ rest \subseteq jobs'
  /\ \A k \in jobs' \ rest :
       k.r \in started /\ k.at \in {"wait", "write"} /\ (k.at = "write" => k.r \in opened)
  /\ timers' \subseteq running
  /\ \A c \in Cancellers : todo'[c] \subseteq todo[c] \union started

LEMMA BeginMoves ==
  ASSUME NEW by \in Resolvers, NEW r \in Requests, NEW out \in Outcomes,
         NEW rest \in SUBSET JobSet, NEW entries \in [Requests -> EntryStates],
         NEW running \in SUBSET Requests, Begin(by, r, out, rest, entries, running)
  PROVE  /\ entry' \in [Requests -> EntryStates] /\ timers' \subseteq Requests
         /\ jobs' \subseteq JobSet
         /\ \A started \in SUBSET Requests :
              r \in started /\ (\A c \in Cancellers : todo'[c] \subseteq todo[c] \union started)
                => Moves(started, rest, entries, running)
<1> DEFINE new == Job(by, r, out, IF r \in opened THEN "write" ELSE "wait")
<1>1. /\ new \in JobSet /\ new.r = r /\ new.at \in {"wait", "write"}
      /\ new.at = "write" <=> r \in opened
  BY DEF Job, JobSet
<1>2. jobs' = rest \union {new}
  BY DEF Begin
<1>3. jobs' \subseteq JobSet /\ new \in jobs' /\ \A k \in jobs' \ rest : k = new
  BY <1>1, <1>2
<1> HIDE DEF new
<1>4. entry' \in [Requests -> EntryStates] /\ timers' \subseteq running
  BY DEF Begin, EntryStates
<1>5. \A q \in Requests : entry'[q] = entries[q] \/ (q = r /\ entry'[q] = "resolving" /\ r \in opened)
  BY DEF Begin
<1>6. ASSUME NEW started \in SUBSET Requests, r \in started,
             \A c \in Cancellers : todo'[c] \subseteq todo[c] \union started
      PROVE  Moves(started, rest, entries, running)
  BY <1>1, <1>2, <1>3, <1>4, <1>5, <1>6 DEF Moves
<1> QED
  BY <1>3, <1>4, <1>6

LEMMA CancelMoves ==
  ASSUME WorkTypeOK, NEW by \in Cancellers, NEW listed \in SUBSET Requests,
         NEW rest \in SUBSET JobSet, NEW entries \in [Requests -> EntryStates],
         NEW running \in SUBSET Requests, CancelOf(by, listed, rest, entries, running)
  PROVE  WorkTypeOK' /\ Moves(listed, rest, entries, running)
<1>1. PICK r \in listed : todo' = [todo EXCEPT ![by] = listed \ {r}]
                         /\ Begin(by, r, "cancelled", rest, entries, running)
  BY DEF CancelOf
<1>2. by \in Resolvers /\ "cancelled" \in Outcomes /\ r \in Requests
  BY DEF Resolvers, Outcomes
<1>3. todo' \in [Cancellers -> SUBSET Requests]
  BY <1>1 DEF WorkTypeOK
<1>4. \A c \in Cancellers : todo'[c] \subseteq todo[c] \union listed
  BY <1>1 DEF WorkTypeOK
<1> QED
  BY <1>1, <1>2, <1>3, <1>4, BeginMoves DEF WorkTypeOK

\* What a resolution that is over may start next.
Rest(j) == IF j.by \in Cancellers THEN todo[j.by] ELSE {}

LEMMA OverMoves ==
  ASSUME WorkTypeOK, NEW j \in jobs, NEW entries \in [Requests -> EntryStates],
         NEW running \in SUBSET Requests, Over(j, entries, running)
  PROVE  WorkTypeOK' /\ Moves(Rest(j), jobs \ {j}, entries, running)
<1>1. jobs \ {j} \in SUBSET JobSet
  BY DEF WorkTypeOK
<1>2. CASE j.by \in Cancellers /\ todo[j.by] # {}
  BY <1>1, <1>2, CancelMoves DEF Over, WorkTypeOK, Rest
<1>3. CASE ~(j.by \in Cancellers /\ todo[j.by] # {})
  <2>1. jobs' = jobs \ {j} /\ entry' = entries /\ timers' = running /\ todo' = todo
    BY <1>3 DEF Over
  <2> QED
    BY <1>1, <2>1 DEF Moves, WorkTypeOK
<1> QED
  BY <1>2, <1>3
(***************************************************************************)
(* Types.                                                                  *)
(***************************************************************************)
DbTypeOK ==
  /\ row \subseteq Requests
  /\ resp \in [Requests -> Outcomes \union {None}]
  /\ status \in {"running", "waiting", "idle"}

LateTypeOK ==
  /\ late \subseteq [what : Outcomes \union {"open"}, r : Requests]
  /\ faults \in 0..MaxFaults /\ asks \in 0..MaxAsks

EntryTypeOK ==
  /\ parked \subseteq Requests
  /\ reads \in [Requests -> [at : {"none", "asked", "nothing", "found"},
                            timer : BOOLEAN, woke : BOOLEAN]]
  /\ wakes \subseteq Requests
  /\ told \in [Requests -> Outcomes \union {None}]

TurnTypeOK ==
  /\ run \in Spans /\ turn \in Spans
  /\ phase \in {"running", "released", "settling", "closing", "between", "ended"}
  /\ of \in [Requests -> [run : Spans, turn : Spans]]
  /\ opened \subseteq Requests /\ held \subseteq Requests

LEMMA TypeParts ==
  /\ TypeOK <=> WorkTypeOK /\ DbTypeOK /\ LateTypeOK /\ EntryTypeOK /\ TurnTypeOK
  /\ TypeOK' <=> WorkTypeOK' /\ DbTypeOK' /\ LateTypeOK' /\ EntryTypeOK' /\ TurnTypeOK'
BY DEF TypeOK, WorkTypeOK, DbTypeOK, LateTypeOK, EntryTypeOK, TurnTypeOK, JobSet

LEMMA WriteType ==
  ASSUME DbTypeOK, NEW r \in Requests, NEW out \in Outcomes \union {None}, Write(r, out)
  PROVE  DbTypeOK'
BY DEF DbTypeOK, Write, Recomputed

LEMMA ResolveInputType ==
  ASSUME DbTypeOK, NEW r \in Requests, NEW out \in Outcomes, ResolveInput(r, out)
  PROVE  DbTypeOK'
BY WriteType DEF DbTypeOK, ResolveInput, dbVars

LEMMA OpenInputType ==
  ASSUME DbTypeOK, NEW r \in Requests, OpenInput(r)
  PROVE  DbTypeOK'
BY DEF DbTypeOK, OpenInput, Recomputed, Outcomes

LEMMA FinishType ==
  ASSUME EntryTypeOK, NEW r \in Requests, NEW out \in Outcomes \union {None}, Finish(r, out)
  PROVE  EntryTypeOK'
BY DEF EntryTypeOK, Finish, NotRead

ReadKinds == [at : {"none", "asked", "nothing", "found"}, timer : BOOLEAN, woke : BOOLEAN]

LEMMA AdoptType ==
  ASSUME EntryTypeOK, NEW r \in Requests, NEW timer \in BOOLEAN, Adopt(r, timer)
  PROVE  reads' \in [Requests -> ReadKinds]
<1>1. reads[r] \in ReadKinds /\ reads \in [Requests -> ReadKinds]
  BY DEF EntryTypeOK, ReadKinds
<1>2. (reads[r].timer \/ timer) \in BOOLEAN /\ (reads[r].woke \/ ~timer) \in BOOLEAN
  OBVIOUS
<1>3. [at |-> reads[r].at, timer |-> reads[r].timer \/ timer, woke |-> reads[r].woke \/ ~timer]
        \in ReadKinds
  BY <1>1, <1>2 DEF ReadKinds
<1>4. [at |-> "asked", timer |-> timer, woke |-> FALSE] \in ReadKinds /\ NotRead \in ReadKinds
  BY DEF ReadKinds, NotRead
<1> QED
  BY <1>1, <1>3, <1>4 DEF Adopt

LEMMA FaultyType ==
  ASSUME LateTypeOK, Faulty PROVE faults' \in 0..MaxFaults
BY GateAssumption DEF LateTypeOK, Faulty

LEMMA AskedType ==
  ASSUME LateTypeOK, Asked PROVE asks' \in 0..MaxAsks
BY GateAssumption DEF LateTypeOK, Asked

LEMMA LateAdded ==
  ASSUME LateTypeOK, NEW r \in Requests, NEW what \in Outcomes \union {"open"},
         late' = late \union {[what |-> what, r |-> r]}
  PROVE  late' \subseteq [what : Outcomes \union {"open"}, r : Requests]
BY DEF LateTypeOK

LEMMA JobType ==
  ASSUME WorkTypeOK, NEW j \in jobs
  PROVE  /\ j.by \in Resolvers /\ j.r \in Requests /\ j.out \in Outcomes
         /\ j.at \in {"wait", "write", "wrote", "missed"} /\ jobs \ {j} \in SUBSET JobSet
BY DEF WorkTypeOK, JobSet

\* A call parks: only its own entry, row and waits change.
LEMMA ParkingType ==
  ASSUME TypeOK, NEW r \in Requests,
         Parking(r) \/ Decide(r) \/ Reading(r) \/ SweepRow(r) \/ OpenStalls(r)
  PROVE  TypeOK'
<1>0. WorkTypeOK /\ DbTypeOK /\ LateTypeOK /\ EntryTypeOK /\ TurnTypeOK
  BY TypeParts
<1> SUFFICES WorkTypeOK' /\ DbTypeOK' /\ LateTypeOK' /\ EntryTypeOK' /\ TurnTypeOK'
  BY TypeParts
<1>1. CASE Call(r)
  <2>1. TurnTypeOK'
    BY <1>0, <1>1 DEF Call, TurnTypeOK
  <2> QED
    BY <1>0, <1>1, <2>1 DEF Call, WorkTypeOK, DbTypeOK, LateTypeOK, EntryTypeOK, EntryStates, dbVars
<1>2. CASE SettledAtOnce(r) \/ NotAsked(r)
  <2>1. WorkTypeOK' /\ EntryTypeOK' /\ LateTypeOK' /\ TurnTypeOK'
    BY <1>0, <1>2 DEF SettledAtOnce, NotAsked, Settled, WorkTypeOK, EntryTypeOK, LateTypeOK,
       TurnTypeOK, EntryStates, Outcomes
  <2>2. DbTypeOK'
    BY <1>0, <1>2 DEF SettledAtOnce, NotAsked, DbTypeOK, dbVars, Outcomes
  <2> QED
    BY <2>1, <2>2
<1>3. CASE Park(r)
  BY <1>0, <1>3 DEF Park, WorkTypeOK, DbTypeOK, LateTypeOK, EntryTypeOK, TurnTypeOK, EntryStates,
     dbVars
<1>4. CASE OpenLands(r)
  BY <1>0, <1>4, OpenInputType DEF OpenLands, wfVars, WorkTypeOK, LateTypeOK, EntryTypeOK, TurnTypeOK
<1>5. CASE OpenTold(r)
  BY <1>0, <1>5 DEF OpenTold, dbVars, WorkTypeOK, DbTypeOK, LateTypeOK, EntryTypeOK, TurnTypeOK
<1>6. CASE OpenStalls(r)
  <2>1. LateTypeOK'
    BY <1>0, <1>6, LateAdded, FaultyType DEF OpenStalls, LateTypeOK
  <2> QED
    BY <1>0, <1>6, <2>1 DEF OpenStalls, wfVars, dbVars, WorkTypeOK, DbTypeOK, EntryTypeOK, TurnTypeOK
<1>7. CASE Decide(r)
  <2>1. DbTypeOK'
    BY <1>0, <1>7, WriteType DEF Decide, Outcomes
  <2> QED
    BY <1>0, <1>7, <2>1 DEF Decide, WorkTypeOK, LateTypeOK, EntryTypeOK, TurnTypeOK
<1>8. CASE Woken(r) \/ Recheck(r) \/ ReadRow(r)
  <2>1. reads' \in [Requests -> ReadKinds]
    <3>1. reads[r] \in ReadKinds /\ reads \in [Requests -> ReadKinds]
      BY <1>0 DEF EntryTypeOK, ReadKinds
    <3>2. CASE ReadRow(r)
      BY <3>1, <3>2 DEF ReadRow, ReadKinds
    <3>3. CASE Woken(r) \/ Recheck(r)
      BY <1>0, <3>1, <3>3, AdoptType DEF Woken, Recheck
    <3> QED
      BY <1>8, <3>2, <3>3
  <2>2. EntryTypeOK'
    BY <1>0, <1>8, <2>1 DEF Woken, Recheck, ReadRow, EntryTypeOK, ReadKinds
  <2> QED
    BY <1>0, <1>8, <2>2 DEF Woken, Recheck, ReadRow, dbVars, WorkTypeOK, DbTypeOK, LateTypeOK,
       TurnTypeOK
<1>9. CASE ReadReturns(r)
  <2>1. EntryTypeOK'
    <3>1. CASE Finish(r, resp[r])
      BY <1>0, <3>1, FinishType DEF DbTypeOK
    <3>2. CASE ~Finish(r, resp[r])
      <4>1. NotRead \in ReadKinds /\ [at |-> "asked", timer |-> FALSE, woke |-> FALSE] \in ReadKinds
        BY DEF ReadKinds, NotRead
      <4>2. reads' \in [Requests -> ReadKinds]
        BY <1>0, <1>9, <3>2, <4>1 DEF ReadReturns, EntryTypeOK, ReadKinds
      <4> QED
        BY <1>0, <1>9, <3>2, <4>2 DEF ReadReturns, EntryTypeOK, ReadKinds
    <3> QED
      BY <3>1, <3>2
  <2>2. WorkTypeOK'
    BY <1>0, <1>9 DEF ReadReturns, WorkTypeOK, Ended, EntryStates
  <2> QED
    BY <1>0, <1>9, <2>1, <2>2 DEF ReadReturns, dbVars, DbTypeOK, LateTypeOK, TurnTypeOK
<1>10. CASE SweepRow(r)
  <2>1. DbTypeOK'
    BY <1>0, <1>10 DEF SweepRow, DbTypeOK, Outcomes
  <2> QED
    BY <1>0, <1>10, <2>1 DEF SweepRow, wfVars, WorkTypeOK, LateTypeOK, EntryTypeOK, TurnTypeOK
<1> QED
  BY <1>1, <1>2, <1>3, <1>4, <1>5, <1>6, <1>7, <1>8, <1>9, <1>10 DEF Parking, Reading

\* A resolution of one entry begins.
LEMMA ResolveMoves ==
  ASSUME WorkTypeOK, NEW by \in Resolvers, NEW r \in Requests, NEW out \in Outcomes,
         Resolve(by, r, out)
  PROVE  WorkTypeOK' /\ Moves({r}, jobs, entry, timers)
<1>1. Begin(by, r, out, jobs, entry, timers) /\ todo' = todo
  BY DEF Resolve
<1> QED
  BY <1>1, BeginMoves DEF WorkTypeOK

LEMMA EndingMoves ==
  ASSUME TypeOK, NEW r \in Requests, Ending(r)
  PROVE  /\ WorkTypeOK' /\ Moves({r}, jobs, entry, timers) /\ asks' \in 0..MaxAsks
         /\ r \in timers \/ r \in PendingNow
         /\ UNCHANGED <<run, turn, phase, of, parked, opened, todo, reads, wakes, told,
                       held, dbVars, late, faults>>
<1>0. WorkTypeOK /\ LateTypeOK /\ Decisions \subseteq Outcomes /\ {"expired", "cancelled"} \subseteq Outcomes
      /\ {"timer", "withdraw", "respond"} \subseteq Resolvers
  BY TypeParts DEF Outcomes, Resolvers, Bounded
<1>1. CASE Fire(r)
  BY <1>0, <1>1, ResolveMoves DEF Fire, Resolve, LateTypeOK
<1>2. CASE Withdraw(r)
  BY <1>0, <1>2, ResolveMoves, AskedType DEF Withdraw, Resolve
<1>3. CASE Respond(r)
  BY <1>0, <1>3, ResolveMoves, AskedType DEF Respond, Resolve
<1> QED
  BY <1>1, <1>2, <1>3 DEF Ending

LEMMA EndingType ==
  ASSUME TypeOK, NEW r \in Requests, Ending(r)
  PROVE  TypeOK'
BY EndingMoves, TypeParts DEF dbVars, DbTypeOK, LateTypeOK, EntryTypeOK, TurnTypeOK
\* What a step of a resolution does: the entry it ends, if any, and what begins after it.
LEMMA JobGoesMoves ==
  ASSUME TypeOK, NEW j \in jobs, JobGoes(j)
  PROVE  /\ WorkTypeOK'
         /\ \/ entry[j.r] = "pending" /\ Moves({j.r}, jobs \ {j}, entry, timers)
            \/ Moves(Rest(j), jobs \ {j}, entry, timers)
<1>0. WorkTypeOK
  BY TypeParts
<1>1. CASE entry[j.r] = "pending"
  BY <1>0, <1>1, BeginMoves, JobType DEF JobGoes, WorkTypeOK
<1>2. CASE entry[j.r] # "pending"
  BY <1>0, <1>2, OverMoves DEF JobGoes, WorkTypeOK
<1> QED
  BY <1>1, <1>2

LEMMA JobEndsMoves ==
  ASSUME TypeOK, NEW j \in jobs, Over(j, Ended(j.r), timers \ {j.r})
  PROVE  WorkTypeOK' /\ Moves(Rest(j), jobs \ {j}, Ended(j.r), timers \ {j.r})
<1>1. WorkTypeOK
  BY TypeParts
<1>2. Ended(j.r) \in [Requests -> EntryStates] /\ timers \ {j.r} \in SUBSET Requests
  BY <1>1 DEF Ended, EntryStates, WorkTypeOK
<1> QED
  BY <1>1, <1>2, OverMoves

LEMMA ResolvingType ==
  ASSUME TypeOK, NEW j \in jobs, Resolving(j) \/ JobStalls(j) \/ JobFails(j)
  PROVE  TypeOK'
<1>0. WorkTypeOK /\ DbTypeOK /\ LateTypeOK /\ EntryTypeOK /\ TurnTypeOK
  BY TypeParts
<1>a. /\ j.by \in Resolvers /\ j.r \in Requests /\ j.out \in Outcomes
      /\ j.at \in {"wait", "write", "wrote", "missed"} /\ jobs \ {j} \subseteq JobSet
  BY <1>0, JobType
<1> SUFFICES WorkTypeOK' /\ DbTypeOK' /\ LateTypeOK' /\ EntryTypeOK' /\ TurnTypeOK'
  BY TypeParts
<1>1. CASE JobGoes(j)
  BY <1>0, <1>1, JobGoesMoves DEF JobGoes, dbVars, DbTypeOK, LateTypeOK, EntryTypeOK, TurnTypeOK
<1>2. CASE JobLands(j)
  <2>1. DbTypeOK'
    BY <1>0, <1>a, <1>2, ResolveInputType DEF JobLands
  <2>2. [j EXCEPT !.at = IF j.r \in row THEN "wrote" ELSE "missed"] \in JobSet
    BY <1>0 DEF WorkTypeOK, JobSet
  <2>3. jobs' \subseteq JobSet
    BY <1>a, <1>2, <2>2 DEF JobLands
  <2> QED
    BY <1>0, <1>2, <2>1, <2>3 DEF JobLands, WorkTypeOK, LateTypeOK, EntryTypeOK, TurnTypeOK
<1>3. CASE JobTold(j) \/ JobReads(j)
  <2>1. EntryTypeOK'
    BY <1>0, <1>a, <1>3, FinishType DEF JobTold, JobReads, DbTypeOK
  <2> QED
    BY <1>0, <1>3, <2>1, JobEndsMoves DEF JobTold, JobReads, dbVars, DbTypeOK, LateTypeOK, TurnTypeOK
<1>4. CASE JobStalls(j)
  <2>1. LateTypeOK'
    BY <1>0, <1>a, <1>4, LateAdded, FaultyType DEF JobStalls, LateTypeOK
  <2> QED
    BY <1>0, <1>4, <2>1 DEF JobStalls, wfVars, dbVars, WorkTypeOK, DbTypeOK, EntryTypeOK, TurnTypeOK
<1>5. CASE JobFails(j)
  <2>1. LateTypeOK'
    BY <1>0, <1>a, <1>5, LateAdded, FaultyType DEF JobFails, LateTypeOK
  <2>2. WorkTypeOK'
    BY <1>0, <1>a, <1>5 DEF JobFails, WorkTypeOK, EntryStates
  <2> QED
    BY <1>0, <1>5, <2>1, <2>2 DEF JobFails, dbVars, DbTypeOK, EntryTypeOK, TurnTypeOK
<1> QED
  BY <1>1, <1>2, <1>3, <1>4, <1>5 DEF Resolving

\* What a cancelAll over the pending entries starts.
LEMMA ListMoves ==
  ASSUME TypeOK, NEW by \in Cancellers, NEW listed \in SUBSET PendingNow,
         CancelOf(by, listed, jobs, entry, timers)
  PROVE  WorkTypeOK' /\ Moves(listed, jobs, entry, timers)
<1>1. WorkTypeOK /\ listed \in SUBSET Requests
  BY TypeParts DEF PendingNow, EntryTypeOK
<1> QED
  BY <1>1, CancelMoves DEF WorkTypeOK

LEMMA TurnType ==
  ASSUME TypeOK, Turns \/ BoundedCancel
  PROVE  TypeOK'
<1>0. WorkTypeOK /\ DbTypeOK /\ LateTypeOK /\ EntryTypeOK /\ TurnTypeOK
  BY TypeParts
<1> SUFFICES WorkTypeOK' /\ DbTypeOK' /\ LateTypeOK' /\ EntryTypeOK' /\ TurnTypeOK'
  BY TypeParts
<1>1. CASE BoundedCancel
  <2>1. WorkTypeOK'
    BY <1>1, ListMoves DEF BoundedCancel, Cancellers
  <2> QED
    BY <1>0, <1>1, <2>1, AskedType DEF BoundedCancel, dbVars, DbTypeOK, LateTypeOK, EntryTypeOK,
       TurnTypeOK
<1>2. CASE Release \/ Continue
  BY <1>0, <1>2 DEF Release, Continue, dbVars, WorkTypeOK, DbTypeOK, LateTypeOK, EntryTypeOK,
     TurnTypeOK
<1>3. CASE Close \/ Settle
  <2>1. WorkTypeOK'
    BY <1>0, <1>3, ListMoves DEF Close, Settle, Cancellers, WorkTypeOK
  <2> QED
    BY <1>0, <1>3, <2>1 DEF Close, Settle, dbVars, DbTypeOK, LateTypeOK, EntryTypeOK, TurnTypeOK
<1>4. CASE FinishTurn
  BY <1>0, <1>4 DEF FinishTurn, WorkTypeOK, DbTypeOK, LateTypeOK, EntryTypeOK, TurnTypeOK
<1>5. CASE NextTurn
  <2>1. turn + 1 \in Spans
    BY <1>0, <1>5, GateAssumption DEF NextTurn, MayGoOn, TurnTypeOK, Spans
  <2> QED
    BY <1>0, <1>5, <2>1 DEF NextTurn, WorkTypeOK, DbTypeOK, LateTypeOK, EntryTypeOK, TurnTypeOK
<1> QED
  BY <1>1, <1>2, <1>3, <1>4, <1>5 DEF Turns

\* A run that ends leaves only what may land late.
LEMMA StopsType ==
  ASSUME TypeOK, Stops
  PROVE  WorkTypeOK' /\ DbTypeOK' /\ LateTypeOK' /\ EntryTypeOK'
<1>0. WorkTypeOK /\ DbTypeOK /\ LateTypeOK /\ EntryTypeOK /\ TurnTypeOK
  BY TypeParts
<1>1. late' \subseteq [what : Outcomes \union {"open"}, r : Requests]
  <2>1. ASSUME NEW r \in parked
        PROVE  [what |-> "open", r |-> r] \in [what : Outcomes \union {"open"}, r : Requests]
    BY <1>0, <2>1 DEF EntryTypeOK
  <2>2. ASSUME NEW j \in jobs
        PROVE  [what |-> j.out, r |-> j.r] \in [what : Outcomes \union {"open"}, r : Requests]
    BY <1>0, <2>2, JobType
  <2>3. ASSUME NEW l \in late' PROVE l \in [what : Outcomes \union {"open"}, r : Requests]
    BY <1>0, <2>1, <2>2, <2>3 DEF Stops, LateTypeOK
  <2> QED
    BY <2>3
<1>2. WorkTypeOK'
  BY <1>0 DEF Stops, WorkTypeOK, EntryStates
<1>3. EntryTypeOK'
  BY <1>0 DEF Stops, EntryTypeOK, NotRead
<1> QED
  BY <1>0, <1>1, <1>2, <1>3 DEF Stops, dbVars, DbTypeOK, LateTypeOK

LEMMA RunType ==
  ASSUME TypeOK, Reset \/ Terminate \/ EndLostTurn
  PROVE  TypeOK'
<1>0. WorkTypeOK /\ DbTypeOK /\ LateTypeOK /\ EntryTypeOK /\ TurnTypeOK
  BY TypeParts
<1>1. CASE Reset
  <2>1. run + 1 \in Spans
    BY <1>0, <1>1, GateAssumption DEF Reset, MayGoOn, TurnTypeOK, Spans
  <2>2. TurnTypeOK'
    BY <1>0, <1>1, <2>1 DEF Reset, Stops, TurnTypeOK
  <2> QED
    BY <1>1, <2>2, StopsType, TypeParts DEF Reset
<1>2. CASE Terminate
  <2>1. TurnTypeOK'
    BY <1>0, <1>2 DEF Terminate, Stops, TurnTypeOK
  <2> QED
    BY <1>2, <2>1, StopsType, TypeParts DEF Terminate
<1>3. CASE EndLostTurn
  BY <1>0, <1>3, TypeParts DEF EndLostTurn, wfVars, WorkTypeOK, DbTypeOK, LateTypeOK, EntryTypeOK,
     TurnTypeOK
<1> QED
  BY <1>1, <1>2, <1>3

LEMMA LateType ==
  ASSUME TypeOK, NEW l \in late, LateLands(l)
  PROVE  TypeOK'
<1>0. WorkTypeOK /\ DbTypeOK /\ LateTypeOK /\ EntryTypeOK /\ TurnTypeOK
  BY TypeParts
<1>1. l.r \in Requests /\ l.what \in Outcomes \union {"open"}
  BY <1>0 DEF LateTypeOK
<1>2. DbTypeOK'
  BY <1>0, <1>1, OpenInputType, ResolveInputType DEF LateLands
<1> QED
  BY <1>0, <1>2, TypeParts DEF LateLands, wfVars, WorkTypeOK, LateTypeOK, EntryTypeOK, TurnTypeOK

LEMMA TypeStep == TypeOK /\ [Next]_vars => TypeOK'
<1> SUFFICES ASSUME TypeOK, [Next]_vars PROVE TypeOK'
  OBVIOUS
<1>1. CASE UNCHANGED vars
  BY <1>1 DEF vars, wfVars, dbVars, TypeOK
<1> QED
  BY <1>1, ParkingType, EndingType, ResolvingType, TurnType, RunType, LateType DEF Next

LEMMA InitType == Init => TypeOK
BY GateAssumption DEF Init, TypeOK, Spans, EntryStates, NotRead

\* Every variable keeps its kind: what the workflow, its activities and the sweeps write are
\* values of the enumerations, and the runs and turns stay within the bounds.
THEOREM TypeCorrect == Spec => []TypeOK
BY InitType, TypeStep, PTL DEF Spec
(***************************************************************************)
(* What the transactions do to the rows.                                   *)
(***************************************************************************)
\* Rows go only with their response, which is written once; the rows in `may` may come; the
\* session waits while a row of its run is open.
Writes(may) ==
  /\ \A r \in Requests : resp'[r] = resp[r] \/ (r \in row /\ resp'[r] # None)
  /\ \A r \in row' : resp'[r] = None /\ r \in row \union may
  /\ \A r \in row : r \in row' \/ resp'[r] # None
  /\ status' = "waiting" => row' # {}
  /\ (\E r \in row' : ~Lost(r)) => status' = "waiting"

LEMMA WriteWrites ==
  ASSUME TypeOK, IInv, NEW r \in row, NEW out \in Outcomes, Write(r, out)
  PROVE  Writes({}) /\ resp'[r] = out
<1>1. out # None
  BY GateAssumption
<1>2. /\ row' = row \ {r} /\ r \in Requests /\ row \subseteq Requests
      /\ \A q \in Requests : resp'[q] = IF q = r THEN out ELSE resp[q]
  BY DEF Write, TypeOK
<1>3. (status' = "waiting" => row' # {}) /\ ((\E q \in row' : ~Lost(q)) => status' = "waiting")
  BY DEF Write, Recomputed, IInv, StatusFollowsRows
<1> QED
  BY <1>1, <1>2, <1>3 DEF Writes, IInv, RowInv

LEMMA OpenWrites ==
  ASSUME TypeOK, IInv, NEW r \in Requests, OpenInput(r)
  PROVE  Writes(IF resp[r] = None THEN {r} ELSE {})
<1> DEFINE stale == {s \in row : of[s].run # of[r].run}
           opens == r \notin row /\ resp[r] = None
<1>1. /\ row' = (row \ stale) \union (IF opens THEN {r} ELSE {})
      /\ resp' = [s \in Requests |-> IF s \in stale THEN "cancelled" ELSE resp[s]]
      /\ status' = IF opens THEN "waiting" ELSE Recomputed(row \ stale)
  BY DEF OpenInput
<1>2. "cancelled" # None /\ stale \subseteq row /\ r \notin stale
  BY GateAssumption DEF Outcomes
<1> HIDE DEF stale
<1>3. (status' = "waiting" => row' # {}) /\ ((\E q \in row' : ~Lost(q)) => status' = "waiting")
  BY <1>1, <1>2 DEF Recomputed, IInv, StatusFollowsRows
<1>4. \A q \in Requests : resp'[q] = resp[q] \/ (q \in row /\ resp'[q] # None)
  BY <1>1, <1>2
<1>5. \A q \in row' : resp'[q] = None /\ q \in row \union (IF resp[r] = None THEN {r} ELSE {})
  BY <1>1, <1>2 DEF TypeOK, IInv, RowInv
<1>6. \A q \in row : q \in row' \/ resp'[q] # None
  BY <1>1, <1>2 DEF TypeOK
<1> QED
  BY <1>3, <1>4, <1>5, <1>6 DEF Writes

LEMMA ResolveWrites ==
  ASSUME TypeOK, IInv, NEW r \in Requests, NEW out \in Outcomes, ResolveInput(r, out)
  PROVE  /\ Writes({})
         /\ r \in row => resp'[r] = out
         /\ r \notin row => resp' = resp
<1>1. CASE r \in row
  BY <1>1, WriteWrites DEF ResolveInput
<1>2. CASE r \notin row
  BY <1>2 DEF ResolveInput, dbVars, Writes, TypeOK, IInv, RowInv, StatusFollowsRows
<1> QED
  BY <1>1, <1>2

\* The sweep sets a session idle that waited for its last row, whose run has ended.
LEMMA SweepWrites ==
  ASSUME TypeOK, IInv, NEW r \in Requests, SweepRow(r)
  PROVE  Writes({})
<1>1. /\ row' = row \ {r} /\ "cancelled" # None
      /\ \A q \in Requests : resp'[q] = IF q = r THEN "cancelled" ELSE resp[q]
  BY GateAssumption DEF SweepRow, TypeOK, Outcomes
<1>2. (status' = "waiting" => row' # {}) /\ ((\E q \in row' : ~Lost(q)) => status' = "waiting")
  BY <1>1 DEF SweepRow, IInv, StatusFollowsRows
<1> QED
  BY <1>1, <1>2 DEF SweepRow, Writes, IInv, RowInv

LEMMA Members ==
  ASSUME TypeOK
  PROVE  /\ row \subseteq Requests /\ parked \subseteq Requests /\ opened \subseteq Requests
         /\ timers \subseteq Requests /\ \A j \in jobs : j.r \in Requests
         /\ \A c \in Cancellers : todo[c] \subseteq Requests
         /\ \A l \in late : l.r \in Requests
BY DEF TypeOK

\* A transaction keeps the invariant: what it inserts is of a parked entry or of a run that
\* has ended, and the resolutions know what they wrote.
LEMMA WritesInv ==
  ASSUME TypeOK, TypeOK', IInv, NEW may \in SUBSET Requests, Writes(may),
         \A r \in may :
           /\ r \in parked \/ Lost(r)
           /\ WasParked(r) \/ entry[r] = "gone",
         late' \subseteq late,
         \A j \in jobs : \E k \in jobs' : k.r = j.r /\ (j.at # "wait" => k.at # "wait"),
         \A k \in jobs' :
           \/ k \in jobs
           \/ /\ \E j \in jobs : k.r = j.r /\ j.at # "wait"
              /\ k.at = "wrote" => resp'[k.r] = k.out
              /\ k.at = "missed" => resp'[k.r] # None,
         UNCHANGED <<run, phase, entry, of, parked, opened, timers, todo, reads, told>>
  PROVE  IInv'
<1>0. /\ \A r \in Requests : Lost(r)' <=> Lost(r)
      /\ \A r \in Requests : WasParked(r)' <=> WasParked(r)
      /\ \A r \in Requests : resp[r] # None => resp'[r] = resp[r]
  BY DEF Lost, WasParked, Writes, IInv, RowInv
<1>t. /\ row \subseteq Requests /\ row' \subseteq Requests /\ parked \subseteq Requests
      /\ opened \subseteq Requests /\ \A j \in jobs : j.r \in Requests
      /\ \A j \in jobs' : j.r \in Requests
      /\ \A l \in late : l.r \in Requests
  BY DEF TypeOK
<1>1. KnownInv'
  <2>1. \A j \in jobs' : WasParked(j.r)'
    BY <1>0, <1>t DEF IInv, KnownInv
  <2>2. \A r \in row' : WasParked(r)' \/ entry'[r] = "gone"
    BY <1>0, <1>t DEF IInv, KnownInv, Writes
  <2>3. \A r \in Requests : entry'[r] \in {"unseen", "describing"} => resp'[r] = None
    <3>1. \A r \in row : entry[r] \notin {"unseen", "describing"}
      BY <1>t DEF IInv, KnownInv, WasParked
    <3> QED
      BY <1>t, <3>1 DEF IInv, KnownInv, Writes
  <2>4. ASSUME NEW l \in late' PROVE WasParked(l.r)' \/ entry'[l.r] = "gone"
    <3>1. l \in late
      BY <2>4
    <3> QED
      BY <1>0, <1>t, <3>1 DEF IInv, KnownInv
  <2>7. \A r \in opened' : WasParked(r)'
    BY <1>0, <1>t DEF IInv, KnownInv
  <2>5. \A c \in Cancellers : \A r \in todo'[c] : WasParked(r)'
    BY <1>0, Members DEF IInv, KnownInv
  <2>6. (\A r \in parked' : entry'[r] \in {"pending", "resolving"}) /\ timers' \subseteq opened'
    BY DEF IInv, KnownInv
  <2> QED
    BY <2>1, <2>2, <2>3, <2>4, <2>5, <2>6, <2>7 DEF KnownInv
<1>2. RowInv'
  <2>1. ASSUME NEW r \in row' PROVE resp'[r] = None /\ (~Lost(r)' => r \in parked')
    <3>1. resp'[r] = None /\ r \in row \union may
      BY <2>1 DEF Writes
    <3>2. Lost(r)' <=> Lost(r)
      BY <1>0, <1>t, <2>1
    <3>3. ~Lost(r) => r \in parked
      BY <3>1 DEF IInv, RowInv
    <3> QED
      BY <3>1, <3>2, <3>3
  <2>2. \A r \in opened' : r \in row' \/ resp'[r] # None
    BY <1>0, <1>t DEF IInv, RowInv, Writes
  <2>3. ASSUME NEW l \in late', l.what = "open", ~Lost(l.r)'
        PROVE  l.r \in parked' \/ resp'[l.r] # None
    <3>1. l \in late
      BY <2>3
    <3>4. l.r \in Requests
      BY <1>t, <3>1
    <3>2. ~Lost(l.r)
      BY <1>0, <2>3, <3>4
    <3>3. l.r \in parked \/ resp[l.r] # None
      BY <2>3, <3>1, <3>2 DEF IInv, RowInv
    <3> QED
      BY <1>0, <3>4, <3>3
  <2>4. \A r \in Requests : of'[r].run <= run'
    BY DEF IInv, RowInv
  <2> QED
    BY <2>1, <2>2, <2>3, <2>4 DEF RowInv
<1>3. JobInv'
  <2>1. ASSUME NEW k \in jobs'
        PROVE  /\ k.at # "wait" => k.r \in opened'
               /\ k.at = "wrote" => resp'[k.r] = k.out
               /\ k.at = "missed" => resp'[k.r] # None
    <3>1. CASE k \in jobs
      <4>1. k.r \in Requests
        BY <1>t, <3>1
      <4>2. /\ k.at # "wait" => k.r \in opened
            /\ k.at = "wrote" => resp[k.r] = k.out
            /\ k.at = "missed" => resp[k.r] # None
        BY <3>1 DEF IInv, JobInv
      <4>3. k.out # None
        BY <3>1, GateAssumption DEF TypeOK
      <4> QED
        BY <1>0, <4>1, <4>2, <4>3
    <3>2. CASE k \notin jobs
      BY <3>2 DEF IInv, JobInv
    <3> QED
      BY <3>1, <3>2
  <2>2. \A r \in Requests : reads'[r].at = "found" => resp'[r] # None
    BY <1>0 DEF IInv, JobInv
  <2> QED
    BY <2>1, <2>2 DEF JobInv
<1>4. ToldInv'
  <2>1. \A r \in row : entry[r] # "settled"
    BY DEF IInv, KnownInv, WasParked
  <2> QED
    BY <1>0, <2>1 DEF IInv, ToldInv, Writes
<1>5. ResolvingHasJob'
  BY DEF IInv, ResolvingHasJob
<1>6. EndedTurnHoldsNothing'
  <2>1. ASSUME NEW r \in row', ~Lost(r)' PROVE r \in parked'
    BY <1>2, <2>1 DEF RowInv
  <2> QED
    BY <2>1 DEF IInv, EndedTurnHoldsNothing
<1>7. StatusFollowsRows'
  BY <1>0 DEF Writes, StatusFollowsRows, TypeOK
<1> QED
  BY <1>1, <1>2, <1>3, <1>4, <1>5, <1>6, <1>7 DEF IInv

(***************************************************************************)
(* What the workflow does to its entries.                                  *)
(***************************************************************************)
\* Resolutions begin, and the entries in `done` end as their responses say.
LEMMA MovesInv ==
  ASSUME TypeOK, TypeOK', IInv,
         NEW started \in SUBSET Requests, \A r \in started : WasParked(r),
         NEW done \in SUBSET Requests, \A r \in done : WasParked(r) /\ resp[r] # None,
         NEW rest \in SUBSET jobs, \A j \in jobs \ rest : j.at = "wait" \/ j.r \in done,
         NEW entries, \A r \in Requests : entries[r] = IF r \in done THEN "resolved" ELSE entry[r],
         NEW running \in SUBSET timers,
         Moves(started, rest, entries, running),
         parked' = parked \ done,
         \A r \in Requests : told'[r] = told[r] \/ (r \in done /\ told'[r] = resp[r]),
         \A r \in Requests : reads'[r].at = "found" => reads[r].at = "found",
         phase' \in {phase, "settling"}, phase = "ended" => phase' = "ended",
         UNCHANGED <<run, of, opened, row, resp, status, late>>
  PROVE  IInv'
<1>0. /\ \A r \in Requests : Lost(r)' <=> Lost(r)
      /\ \A r \in Requests : WasParked(r) => WasParked(r)'
      /\ \A r \in Requests : ~WasParked(r) => entry'[r] = entry[r]
  BY DEF Lost, WasParked, Moves
<1>1. KnownInv'
  <2>1. \A r \in parked' : entry'[r] \in {"pending", "resolving"}
    BY Members DEF IInv, KnownInv, Moves
  <2>2. timers' \subseteq opened' /\ \A r \in opened' : WasParked(r)'
    BY <1>0 DEF IInv, KnownInv, Moves, TypeOK
  <2>3. \A j \in jobs' : WasParked(j.r)'
    BY <1>0 DEF IInv, KnownInv, Moves, TypeOK
  <2>4. \A c \in Cancellers : \A r \in todo'[c] : WasParked(r)'
    BY <1>0 DEF IInv, KnownInv, Moves, TypeOK
  <2>5. /\ \A r \in row' : WasParked(r)' \/ entry'[r] = "gone"
        /\ \A l \in late' : WasParked(l.r)' \/ entry'[l.r] = "gone"
    BY <1>0 DEF IInv, KnownInv, TypeOK
  <2>6. \A r \in Requests : entry'[r] \in {"unseen", "describing"} => resp'[r] = None
    BY <1>0 DEF IInv, KnownInv, WasParked
  <2> QED
    BY <2>1, <2>2, <2>3, <2>4, <2>5, <2>6 DEF KnownInv
<1>2. RowInv'
  BY <1>0 DEF IInv, RowInv, TypeOK
<1>3. JobInv'
  BY DEF IInv, JobInv, Moves, TypeOK
<1>4. ToldInv'
  <2> SUFFICES ASSUME NEW r \in Requests, told'[r] # None
               PROVE  \/ resp'[r] = told'[r]
                      \/ told'[r] = "cancelled" /\ resp'[r] = None /\ entry'[r] = "settled"
    BY DEF ToldInv
  <2>1. CASE r \in done /\ told'[r] = resp[r]
    BY <2>1
  <2>2. CASE told'[r] = told[r]
    BY <1>0, <2>2 DEF IInv, ToldInv, WasParked
  <2> QED
    BY <2>1, <2>2
<1>5. ResolvingHasJob'
  <2> SUFFICES ASSUME NEW r \in parked', entry'[r] = "resolving"
               PROVE  \E j \in jobs' : j.r = r /\ j.at # "wait"
    BY DEF ResolvingHasJob
  <2>1. r \in parked /\ r \in Requests /\ r \notin done
    BY Members
  <2>2. CASE \E k \in jobs' : k.r = r /\ k.at = "write"
    BY <2>2
  <2>3. CASE entry[r] = "resolving"
    <3>1. PICK j \in jobs : j.r = r /\ j.at # "wait"
      BY <2>1, <2>3 DEF IInv, ResolvingHasJob
    <3>2. j \in rest /\ rest \subseteq jobs'
      BY <2>1, <3>1 DEF Moves
    <3> QED
      BY <3>1, <3>2
  <2> QED
    BY <2>1, <2>2, <2>3 DEF Moves
<1>6. EndedTurnHoldsNothing'
  BY <1>0 DEF IInv, EndedTurnHoldsNothing, TypeOK
<1>7. StatusFollowsRows'
  BY <1>0 DEF IInv, StatusFollowsRows, TypeOK
<1> QED
  BY <1>1, <1>2, <1>3, <1>4, <1>5, <1>6, <1>7 DEF IInv
\* Resolutions begin, and no entry ends.
LEMMA StartsInv ==
  ASSUME TypeOK, TypeOK', IInv,
         NEW started \in SUBSET Requests, \A r \in started : WasParked(r),
         NEW rest \in SUBSET jobs, \A j \in jobs \ rest : j.at = "wait",
         Moves(started, rest, entry, timers),
         phase' \in {phase, "settling"}, phase = "ended" => phase' = "ended",
         UNCHANGED <<run, of, parked, opened, reads, told, row, resp, status, late>>
  PROVE  IInv'
<1>1. parked' = parked \ {} /\ \A r \in Requests : entry[r] = IF r \in {} THEN "resolved" ELSE entry[r]
  OBVIOUS
<1>2. \A r \in {} : WasParked(r) /\ resp[r] # None
  OBVIOUS
<1>3. {} \in SUBSET Requests /\ timers \in SUBSET timers
  OBVIOUS
<1> QED
  BY <1>1, <1>2, <1>3, MovesInv

\* One entry ends as its response says, and resolutions may begin.
LEMMA EndsInv ==
  ASSUME TypeOK, TypeOK', IInv,
         NEW started \in SUBSET Requests, \A r \in started : WasParked(r),
         NEW x \in Requests, WasParked(x), resp[x] # None,
         NEW rest \in SUBSET jobs, \A j \in jobs \ rest : j.r = x,
         Moves(started, rest, Ended(x), timers \ {x}),
         NEW out, Finish(x, out), out = resp[x],
         UNCHANGED <<run, phase, of, opened, row, resp, status, late>>
  PROVE  IInv'
<1>1. parked' = parked \ {x} /\ \A r \in Requests : Ended(x)[r] = IF r \in {x} THEN "resolved" ELSE entry[r]
  BY DEF Finish, Ended, TypeOK
<1>2. \A r \in Requests : told'[r] = told[r] \/ (r \in {x} /\ told'[r] = resp[r])
  BY DEF Finish, TypeOK
<1>3. \A r \in Requests : reads'[r].at = "found" => reads[r].at = "found"
  BY DEF Finish, NotRead, TypeOK
<1>4. {x} \in SUBSET Requests /\ timers \ {x} \in SUBSET timers
  OBVIOUS
<1>5. \A r \in {x} : WasParked(r) /\ resp[r] # None
  OBVIOUS
<1>6. \A j \in jobs \ rest : j.at = "wait" \/ j.r \in {x}
  OBVIOUS
<1> QED
  BY <1>1, <1>2, <1>3, <1>4, <1>5, <1>6, MovesInv

(***************************************************************************)
(* The steps.                                                              *)
(***************************************************************************)
\* Nothing that the invariant reads changes, but the part of it that is given.
LEMMA Frame ==
  ASSUME IInv,
         UNCHANGED <<run, phase, entry, of, parked, opened, timers, jobs, todo, told, row, resp,
                     status>>,
         \A l \in late' \ late : /\ WasParked(l.r) \/ entry[l.r] = "gone"
                                 /\ l.what = "open" /\ ~Lost(l.r) => l.r \in parked \/ resp[l.r] # None,
         \A r \in Requests : reads'[r].at = "found" => resp[r] # None
  PROVE  IInv'
BY DEF IInv, KnownInv, RowInv, JobInv, ToldInv, ResolvingHasJob, EndedTurnHoldsNothing,
   StatusFollowsRows, WasParked, Lost

\* A call that was not parked before: its entry and its run are all that changes.
LEMMA NewEntryInv ==
  ASSUME TypeOK, IInv, NEW r \in Requests, entry[r] \in {"unseen", "describing"},
         entry' \in [Requests -> EntryStates],
         \A q \in Requests : q # r =>
           entry'[q] = entry[q] /\ of'[q] = of[q] /\ told'[q] = told[q] /\ resp'[q] = resp[q],
         of'[r].run <= run,
         \/ entry'[r] = "describing" /\ resp'[r] = None /\ told'[r] = told[r] /\ parked' = parked
         \/ entry'[r] = "settled" /\ told'[r] # None /\ parked' = parked
            /\ (resp'[r] = told'[r] \/ (told'[r] = "cancelled" /\ resp'[r] = None))
         \/ /\ entry'[r] = "pending" /\ resp'[r] = None /\ told'[r] = told[r]
            /\ parked' = parked \union {r} /\ phase = "running",
         UNCHANGED <<run, phase, opened, timers, jobs, todo, reads, row, status, late>>
  PROVE  IInv'
<1>0. /\ r \notin row /\ r \notin parked /\ r \notin opened /\ resp[r] = None /\ told[r] = None
      /\ \A j \in jobs : j.r # r
      /\ \A l \in late : l.r # r
      /\ \A c \in Cancellers : r \notin todo[c]
  BY DEF IInv, KnownInv, ToldInv, WasParked
<1>1. KnownInv'
  BY <1>0, Members DEF IInv, KnownInv, WasParked
<1>2. RowInv'
  BY <1>0, Members DEF IInv, RowInv, Lost
<1>3. JobInv'
  BY <1>0, Members DEF IInv, JobInv
<1>4. ToldInv'
  BY <1>0 DEF IInv, ToldInv
<1>5. ResolvingHasJob'
  BY <1>0, Members DEF IInv, ResolvingHasJob
<1>6. EndedTurnHoldsNothing' /\ StatusFollowsRows'
  BY <1>0, Members DEF IInv, EndedTurnHoldsNothing, StatusFollowsRows, Lost
<1> QED
  BY <1>1, <1>2, <1>3, <1>4, <1>5, <1>6 DEF IInv

LEMMA ParkingInv ==
  ASSUME TypeOK, TypeOK', IInv, NEW r \in Requests, Parking(r) \/ OpenStalls(r)
  PROVE  IInv'
<1>0. run \in Nat /\ None \notin Outcomes
  BY GateAssumption DEF TypeOK, Spans
<1>1. CASE Call(r)
  BY <1>0, <1>1, NewEntryInv DEF Call, TypeOK, dbVars, IInv, KnownInv
<1>2. CASE SettledAtOnce(r)
  <2>1. PICK d \in Decisions : resp' = [resp EXCEPT ![r] = d] /\ Settled(r, d)
    BY <1>2 DEF SettledAtOnce
  <2>2. d # None /\ of[r].run <= run
    BY <1>0 DEF Outcomes, IInv, RowInv
  <2> QED
    BY <1>2, <2>1, <2>2, NewEntryInv DEF SettledAtOnce, Settled, TypeOK
<1>3. CASE NotAsked(r)
  <2>1. "cancelled" # None /\ of[r].run <= run
    BY <1>0 DEF Outcomes, IInv, RowInv
  <2> QED
    BY <1>3, <2>1, NewEntryInv DEF NotAsked, Settled, TypeOK, dbVars, IInv, KnownInv
<1>4. CASE Park(r)
  <2>1. of[r].run <= run /\ resp[r] = None /\ phase = "running"
    BY <1>4 DEF Park, Live, IInv, RowInv, KnownInv
  <2> QED
    BY <1>4, <2>1, NewEntryInv DEF Park, TypeOK, dbVars
<1>5. CASE OpenLands(r)
  <2>1. Writes({r}) /\ r \in parked /\ WasParked(r)
    BY <1>5, OpenWrites DEF OpenLands, Opening, IInv, KnownInv, WasParked
  <2> QED
    BY <1>5, <2>1, WritesInv DEF OpenLands, wfVars
<1>6. CASE OpenTold(r)
  <2>1. r \in row \/ resp[r] # None
    BY <1>6 DEF OpenTold
  <2>2. WasParked(r)
    BY <1>6 DEF OpenTold, Opening, IInv, KnownInv, WasParked
  <2>3. /\ opened' = opened \union {r} /\ timers' = timers \union {r}
        /\ UNCHANGED <<run, turn, phase, entry, of, parked, jobs, todo, reads, wakes, told, held,
                       row, resp, status, late, faults, asks>>
    BY <1>6 DEF OpenTold, dbVars
  <2>4. KnownInv' /\ RowInv' /\ JobInv' /\ ToldInv'
    BY <2>1, <2>2, <2>3 DEF IInv, KnownInv, RowInv, JobInv, ToldInv, WasParked, Lost
  <2>5. ResolvingHasJob' /\ EndedTurnHoldsNothing' /\ StatusFollowsRows'
    BY <2>3 DEF IInv, ResolvingHasJob, EndedTurnHoldsNothing, StatusFollowsRows, Lost
  <2> QED
    BY <2>4, <2>5 DEF IInv
<1>7. CASE OpenStalls(r)
  <2>1. r \in parked /\ WasParked(r) /\ late' = late \union {[what |-> "open", r |-> r]}
    BY <1>7 DEF OpenStalls, Opening, IInv, KnownInv, WasParked
  <2>2. \A l \in late' \ late : l.r = r
    BY <2>1
  <2> QED
    BY <1>7, <2>1, <2>2, Frame DEF OpenStalls, wfVars, dbVars, IInv, JobInv
<1> QED
  BY <1>1, <1>2, <1>3, <1>4, <1>5, <1>6, <1>7 DEF Parking

LEMMA DecideInv ==
  ASSUME TypeOK, TypeOK', IInv, NEW r \in Requests, Decide(r) \/ SweepRow(r)
  PROVE  IInv'
<1>1. CASE Decide(r)
  <2>1. Writes({})
    BY <1>1, WriteWrites DEF Decide, Outcomes
  <2> QED
    BY <1>1, <2>1, WritesInv DEF Decide
<1>2. CASE SweepRow(r)
  <2>1. Writes({})
    BY <1>2, SweepWrites
  <2> QED
    BY <1>2, <2>1, WritesInv DEF SweepRow, wfVars
<1> QED
  BY <1>1, <1>2

LEMMA LateInv ==
  ASSUME TypeOK, TypeOK', IInv, NEW l \in late, LateLands(l)
  PROVE  IInv'
<1>1. l.r \in Requests /\ l.what \in Outcomes \union {"open"} /\ (WasParked(l.r) \/ entry[l.r] = "gone")
  BY DEF TypeOK, IInv, KnownInv
<1>2. CASE l.what = "open"
  <2>1. resp[l.r] = None => l.r \in parked \/ Lost(l.r)
    BY <1>2 DEF IInv, RowInv
  <2> DEFINE may == IF resp[l.r] = None THEN {l.r} ELSE {}
  <2>2. Writes(may)
    BY <1>1, <1>2, OpenWrites DEF LateLands
  <2>3. may \in SUBSET Requests /\ \A r \in may : r = l.r /\ resp[l.r] = None
    BY <1>1
  <2> HIDE DEF may
  <2> QED
    BY <1>1, <2>1, <2>2, <2>3, WritesInv DEF LateLands, wfVars
<1>3. CASE l.what # "open"
  <2>1. Writes({})
    BY <1>1, <1>3, ResolveWrites DEF LateLands
  <2> QED
    BY <2>1, WritesInv DEF LateLands, wfVars
<1> QED
  BY <1>2, <1>3

LEMMA ReadingInv ==
  ASSUME TypeOK, TypeOK', IInv, NEW r \in Requests, Reading(r)
  PROVE  IInv'
<1>1. CASE Woken(r) \/ Recheck(r) \/ ReadRow(r)
  <2>1. \A q \in Requests : reads'[q].at = "found" => resp[q] # None
    <3>1. CASE ReadRow(r)
      BY <3>1 DEF ReadRow, TypeOK, IInv, JobInv
    <3>2. CASE reads' = reads
      BY <3>2 DEF IInv, JobInv
    <3>3. ASSUME NEW timer \in BOOLEAN, Adopt(r, timer)
          PROVE  \A q \in Requests : reads'[q].at = "found" => resp[q] # None
      BY <3>3 DEF Adopt, NotRead, TypeOK, IInv, JobInv
    <3> QED
      BY <1>1, <3>1, <3>2, <3>3 DEF Woken, Recheck
  <2> QED
    BY <1>1, <2>1, Frame DEF Woken, Recheck, ReadRow, dbVars
<1>2. CASE ReadReturns(r)
  <2>1. CASE entry[r] = "pending" /\ reads[r].at = "found"
    <3>1. /\ Finish(r, resp[r]) /\ entry' = Ended(r) /\ timers' = timers \ {r}
          /\ UNCHANGED <<run, phase, of, opened, jobs, todo, row, resp, status, late>>
      BY <1>2, <2>1 DEF ReadReturns, dbVars
    <3>2. WasParked(r) /\ resp[r] # None
      BY <2>1 DEF WasParked, IInv, JobInv
    <3>3. Moves({}, jobs, Ended(r), timers \ {r})
      BY <3>1 DEF Moves
    <3>4. \A q \in {} : WasParked(q)
      OBVIOUS
    <3>5. jobs \in SUBSET jobs /\ {} \in SUBSET Requests /\ \A j \in jobs \ jobs : j.r = r
      OBVIOUS
    <3> QED
      BY <3>1, <3>2, <3>3, <3>4, <3>5, EndsInv
  <2>2. CASE ~(entry[r] = "pending" /\ reads[r].at = "found")
    <3>1. /\ timers' \subseteq timers
          /\ \A q \in Requests : reads'[q].at = "found" => reads[q].at = "found"
          /\ UNCHANGED <<run, phase, entry, of, parked, opened, jobs, todo, told, row, resp, status,
                         late>>
      BY <1>2, <2>2 DEF ReadReturns, dbVars, NotRead, TypeOK
    <3>2. Moves({}, jobs, entry, timers)
      BY <3>1 DEF Moves
    <3> QED
      BY <3>1, <3>2, MovesInv
  <2> QED
    BY <2>1, <2>2
<1> QED
  BY <1>1, <1>2 DEF Reading

LEMMA EndingInv ==
  ASSUME TypeOK, TypeOK', IInv, NEW r \in Requests, Ending(r)
  PROVE  IInv'
<1>1. WasParked(r)
  BY EndingMoves DEF PendingNow, IInv, KnownInv, WasParked
<1>2. {r} \in SUBSET Requests /\ \A q \in {r} : WasParked(q)
  BY <1>1
<1>3. /\ Moves({r}, jobs, entry, timers)
      /\ UNCHANGED <<run, phase, of, parked, opened, reads, told, row, resp, status, late>>
  BY EndingMoves DEF dbVars
<1>4. jobs \in SUBSET jobs /\ \A j \in jobs \ jobs : j.at = "wait"
  OBVIOUS
<1> QED
  BY <1>2, <1>3, <1>4, StartsInv

LEMMA ResolvingInv ==
  ASSUME TypeOK, TypeOK', IInv, NEW j \in jobs, Resolving(j) \/ JobStalls(j) \/ JobFails(j)
  PROVE  IInv'
<1>a. /\ j.r \in Requests /\ j.out \in Outcomes /\ WasParked(j.r) /\ j.out # None
      /\ j.at # "wait" => j.r \in opened
      /\ j.at = "wrote" => resp[j.r] = j.out
      /\ j.at = "missed" => resp[j.r] # None
  BY GateAssumption DEF TypeOK, IInv, KnownInv, JobInv
<1>b. Rest(j) \in SUBSET Requests /\ \A r \in Rest(j) : WasParked(r)
  BY DEF Rest, IInv, KnownInv, TypeOK
<1>c. {j.r} \in SUBSET Requests /\ (\A r \in {j.r} : WasParked(r)) /\ jobs \ {j} \in SUBSET jobs
      /\ \A k \in jobs \ (jobs \ {j}) : k = j
  BY <1>a
<1>1. CASE JobGoes(j)
  <2>1. /\ j.at = "wait"
        /\ UNCHANGED <<run, phase, of, parked, opened, reads, told, row, resp, status, late>>
    BY <1>1 DEF JobGoes, dbVars
  <2> QED
    BY <1>1, <1>b, <1>c, <2>1, JobGoesMoves, StartsInv
<1>2. CASE JobLands(j)
  <2> DEFINE new == [j EXCEPT !.at = IF j.r \in row THEN "wrote" ELSE "missed"]
  <2>1. /\ Writes({}) /\ (j.r \in row => resp'[j.r] = j.out) /\ (j.r \notin row => resp' = resp)
        /\ j.at = "write" /\ jobs' = (jobs \ {j}) \union {new}
        /\ UNCHANGED <<run, phase, entry, of, parked, opened, timers, todo, reads, told, late>>
    BY <1>2, <1>a, ResolveWrites DEF JobLands
  <2>2. /\ new.r = j.r /\ new.out = j.out /\ new.at \in {"wrote", "missed"}
        /\ new.at = "wrote" <=> j.r \in row
    BY DEF TypeOK
  <2>3. j.r \in row \/ resp[j.r] # None
    BY <1>a, <2>1 DEF IInv, RowInv
  <2> HIDE DEF new
  <2>4. ASSUME NEW i \in jobs
        PROVE  \E k \in jobs' : k.r = i.r /\ (i.at # "wait" => k.at # "wait")
    BY <2>1, <2>2, <2>4
  <2>5. ASSUME NEW k \in jobs'
        PROVE  \/ k \in jobs
               \/ /\ \E i \in jobs : k.r = i.r /\ i.at # "wait"
                  /\ k.at = "wrote" => resp'[k.r] = k.out
                  /\ k.at = "missed" => resp'[k.r] # None
    BY <2>1, <2>2, <2>3, <2>5
  <2> QED
    BY <2>1, <2>4, <2>5, WritesInv
<1>3. CASE JobTold(j) \/ JobReads(j)
  <2>1. /\ resp[j.r] # None
        /\ Finish(j.r, resp[j.r])
        /\ Over(j, Ended(j.r), timers \ {j.r})
        /\ UNCHANGED <<run, phase, of, opened, row, resp, status, late>>
    BY <1>3, <1>a DEF JobTold, JobReads, dbVars
  <2>2. Moves(Rest(j), jobs \ {j}, Ended(j.r), timers \ {j.r})
    BY <2>1, JobEndsMoves
  <2> QED
    BY <1>a, <1>b, <1>c, <2>1, <2>2, EndsInv
<1>4. CASE JobStalls(j)
  <2>1. late' = late \union {[what |-> j.out, r |-> j.r]} /\ j.out # "open"
    BY <1>4, <1>a, GateAssumption DEF JobStalls, Outcomes
  <2>2. \A l \in late' \ late : l.r = j.r /\ l.what # "open"
    BY <2>1
  <2> QED
    BY <1>4, <1>a, <2>2, Frame DEF JobStalls, wfVars, dbVars, IInv, JobInv
<1>5. CASE JobFails(j)
  <2>1. /\ entry' = [entry EXCEPT ![j.r] = "pending"] /\ jobs' = jobs \ {j}
        /\ \A c \in Cancellers : todo'[c] \subseteq todo[c]
        /\ UNCHANGED <<run, phase, of, parked, opened, timers, reads, told, row, resp, status>>
    BY <1>5 DEF JobFails, dbVars, TypeOK
  <2>2. \A l \in late' \ late : l.r = j.r /\ l.what # "open"
    BY <1>5, <1>a, GateAssumption DEF JobFails, Outcomes
  <2>3. /\ \A r \in Requests : r # j.r => entry'[r] = entry[r]
        /\ entry'[j.r] = "pending"
    BY <2>1, <1>a DEF TypeOK
  <2>4. KnownInv'
    BY <1>a, <2>1, <2>2, <2>3, Members DEF IInv, KnownInv, WasParked
  <2>5. RowInv'
    BY <2>1, <2>2 DEF IInv, RowInv, Lost
  <2>6. JobInv' /\ ToldInv'
    BY <1>a, <2>1, <2>3 DEF IInv, JobInv, ToldInv, WasParked
  <2>7. ResolvingHasJob'
    BY <2>1, <2>3, Members DEF IInv, ResolvingHasJob
  <2>8. EndedTurnHoldsNothing' /\ StatusFollowsRows'
    BY <2>1 DEF IInv, EndedTurnHoldsNothing, StatusFollowsRows, Lost
  <2> QED
    BY <2>4, <2>5, <2>6, <2>7, <2>8 DEF IInv
<1> QED
  BY <1>1, <1>2, <1>3, <1>4, <1>5 DEF Resolving

LEMMA TurnInv ==
  ASSUME TypeOK, TypeOK', IInv, Turns \/ BoundedCancel
  PROVE  IInv'
<1>a. PendingNow \in SUBSET Requests /\ \A r \in PendingNow : WasParked(r)
  BY Members DEF PendingNow, WasParked
<1>b. jobs \in SUBSET jobs /\ \A j \in jobs \ jobs : j.at = "wait"
  OBVIOUS
<1>c. ASSUME NEW by \in Cancellers, NEW listed \in SUBSET PendingNow,
             CancelOf(by, listed, jobs, entry, timers),
             phase' \in {phase, "settling"}, phase = "ended" => phase' = "ended",
             UNCHANGED <<run, of, parked, opened, reads, told, row, resp, status, late>>
      PROVE  IInv'
  BY <1>a, <1>b, <1>c, ListMoves, StartsInv
<1>1. CASE BoundedCancel
  BY <1>1, <1>c DEF BoundedCancel, Cancellers, dbVars
<1>2. CASE Release \/ Continue
  BY <1>2 DEF Release, Continue, dbVars, IInv, KnownInv, RowInv, JobInv, ToldInv, ResolvingHasJob,
     EndedTurnHoldsNothing, StatusFollowsRows, WasParked, Lost
<1>3. CASE (Close \/ Settle) /\ PendingNow # {}
  BY <1>3, <1>c DEF Close, Settle, Cancellers, dbVars
<1>4. CASE (Close \/ Settle) /\ PendingNow = {}
  <2>1. UNCHANGED <<run, entry, of, parked, opened, timers, jobs, todo, reads, told, row, resp, status, late>>
        /\ phase' # "ended" /\ phase # "ended"
    BY <1>4 DEF Close, Settle, dbVars
  <2>2. phase' = "closing" => parked = {}
    BY <1>4 DEF Close, Settle, PendingNow, IInv, KnownInv
  <2>3. phase' \in {"settling", "closing"}
    BY <1>4 DEF Close, Settle
  <2> QED
    BY <2>1, <2>2, <2>3 DEF IInv, KnownInv, RowInv, JobInv, ToldInv, ResolvingHasJob,
       EndedTurnHoldsNothing, StatusFollowsRows, WasParked, Lost
<1>5. CASE FinishTurn \/ NextTurn
  BY <1>5 DEF FinishTurn, NextTurn, IInv, KnownInv, RowInv, JobInv, ToldInv, ResolvingHasJob,
     EndedTurnHoldsNothing, StatusFollowsRows, WasParked, Lost
<1> QED
  BY <1>1, <1>2, <1>3, <1>4, <1>5 DEF Turns

LEMMA RunStepInv ==
  ASSUME TypeOK, TypeOK', IInv, Reset \/ Terminate \/ EndLostTurn
  PROVE  IInv'
<1>1. CASE Reset \/ Terminate
  <2>1. Stops /\ (run' = run + 1 \/ phase' = "ended") /\ run' \in {run, run + 1}
        /\ phase' \in {"running", "ended"}
    BY <1>1 DEF Reset, Terminate
  <2>2. run \in Nat /\ \A r \in Requests : of[r].run \in Nat /\ of[r].run <= run
    BY GateAssumption DEF TypeOK, Spans, IInv, RowInv
  <2>3. \A r \in Requests : Lost(r)'
    BY <2>1, <2>2 DEF Lost, Stops
  <2>4. /\ parked' = {} /\ opened' = {} /\ timers' = {} /\ jobs' = {}
        /\ \A c \in Cancellers : todo'[c] = {}
        /\ \A r \in Requests : entry'[r] = IF entry[r] = "unseen" THEN "unseen" ELSE "gone"
        /\ \A r \in Requests : told'[r] = None /\ reads'[r] = NotRead
        /\ UNCHANGED <<of, row, resp, status>>
    BY <2>1 DEF Stops, dbVars
  <2>5. ASSUME NEW l \in late' PROVE l.r \in Requests /\ entry'[l.r] = "gone"
    <3>1. l.r \in Requests /\ entry[l.r] # "unseen"
      <4>1. CASE l \in late
        BY <4>1, Members DEF IInv, KnownInv, WasParked
      <4>2. CASE l \in {[what |-> "open", r |-> r] : r \in {s \in parked \ opened : s \notin row}}
        BY <4>2, Members DEF IInv, KnownInv
      <4>3. CASE l \in {[what |-> k.out, r |-> k.r] : k \in {i \in jobs : i.at = "write"}}
        BY <4>3, Members DEF IInv, KnownInv, WasParked
      <4> QED
        BY <2>1, <2>5, <4>1, <4>2, <4>3 DEF Stops
    <3> QED
      BY <2>4, <3>1
  <2>6. KnownInv'
    <3>1. \A r \in row' : entry'[r] = "gone"
      BY <2>4, Members DEF IInv, KnownInv, WasParked
    <3>2. \A r \in Requests : entry'[r] \in {"unseen", "describing"} => resp'[r] = None
      BY <2>4 DEF IInv, KnownInv
    <3> QED
      BY <2>4, <2>5, <3>1, <3>2 DEF KnownInv
  <2>7. RowInv'
    BY <2>1, <2>2, <2>3, <2>4, <2>5, Members DEF IInv, RowInv
  <2>8. JobInv' /\ ToldInv' /\ ResolvingHasJob'
    BY <2>4 DEF JobInv, ToldInv, ResolvingHasJob, NotRead
  <2>9. EndedTurnHoldsNothing' /\ StatusFollowsRows'
    BY <2>1, <2>3, <2>4, Members DEF IInv, EndedTurnHoldsNothing, StatusFollowsRows
  <2> QED
    BY <2>6, <2>7, <2>8, <2>9 DEF IInv
<1>2. CASE EndLostTurn
  BY <1>2 DEF EndLostTurn, wfVars, IInv, KnownInv, RowInv, JobInv, ToldInv, ResolvingHasJob,
     EndedTurnHoldsNothing, StatusFollowsRows, WasParked, Lost
<1> QED
  BY <1>1, <1>2

LEMMA StepInv == TypeOK /\ IInv /\ [Next]_vars => IInv'
<1> SUFFICES ASSUME TypeOK, IInv, [Next]_vars PROVE IInv'
  OBVIOUS
<1>1. TypeOK'
  BY TypeStep
<1>2. CASE UNCHANGED vars
  BY <1>2 DEF vars, wfVars, dbVars, IInv, KnownInv, RowInv, JobInv, ToldInv, ResolvingHasJob,
     EndedTurnHoldsNothing, StatusFollowsRows, WasParked, Lost
<1> QED
  BY <1>1, <1>2, ParkingInv, DecideInv, LateInv, ReadingInv, EndingInv, ResolvingInv, TurnInv,
     RunStepInv DEF Next

LEMMA InitInv == Init => IInv
BY DEF Init, IInv, KnownInv, RowInv, JobInv, ToldInv, ResolvingHasJob, EndedTurnHoldsNothing,
   StatusFollowsRows, NotRead

\* The inductive invariant holds of every reachable state.
THEOREM Invariance == Spec => [](TypeOK /\ IInv)
BY InitType, InitInv, TypeStep, StepInv, PTL DEF Spec

(***************************************************************************)
(* What follows from it.                                                   *)
(***************************************************************************)
\* What the workflow says of an entry is what its response says, whoever resolved it and
\* whichever attempt landed: a decision is never lost, nor an expired call run as approved.
THEOREM ToldHolds == Spec => []ToldIsRecorded
<1>1. IInv => ToldIsRecorded
  BY DEF ToldIsRecorded, IInv, ToldInv, KnownInv, WasParked
<1> QED
  BY <1>1, Invariance, PTL

\* A turn that ended leaves no card that could still be answered.
THEOREM EndedTurnHolds == Spec => []EndedTurnHoldsNothing
<1>1. IInv => EndedTurnHoldsNothing
  BY DEF IInv
<1> QED
  BY <1>1, Invariance, PTL

\* The session waits exactly as long as a row of its run is open.
THEOREM StatusHolds == Spec => []StatusFollowsRows
<1>1. IInv => StatusFollowsRows
  BY DEF IInv
<1> QED
  BY <1>1, Invariance, PTL

\* An entry is never left resolving with nobody resolving it: settle cannot be stuck on one.
THEOREM ResolvingHolds == Spec => []ResolvingHasJob
<1>1. IInv => ResolvingHasJob
  BY DEF IInv
<1> QED
  BY <1>1, Invariance, PTL
=============================================================================
