-------------------------- MODULE AgentTurnsProofs --------------------------
(***************************************************************************)
(* What holds of a session's turns for any number of turns, placements,    *)
(* releases and faults, proved with TLAPS.  The properties of the          *)
(* transcript name the turns they leave out, those in `outlived`; the      *)
(* proofs use no bound on how long a placement given up on runs.           *)
(***************************************************************************)
EXTENDS AgentTurns, TLAPS

Ats == {"sent", "claimed", "pushed", "working", "letting", "result"}
Keys == [turn : Turns, n : Nat]
Entries == [key : Keys, what : {"prompt", "restart", "results"}]
Rows == [done : BOOLEAN, turn : Turns \cup {None}, att : (Nat \X Nat) \cup {None},
         stop : BOOLEAN, key : Keys \cup {None}, mark : Nat]
Workflows ==
  [up : {"none", "open", "closed"}, run : Nat, msg : Turns \cup {None}, cur : Turns \cup {None},
   stage : Stages, cycle : Nat, budget : Nat, home : BOOLEAN, kept : BOOLEAN, again : BOOLEAN,
   rel : Nat, place : Nat, stop : BOOLEAN, stopNext : BOOLEAN, end : BOOLEAN]
PlaceRecords ==
  [id : Nat, turn : Turns, n : Nat, att : Nat \X Nat, again : BOOLEAN, at : Ats,
   told : {"prompt", "restart", None}, mute : BOOLEAN, mark : Nat,
   out : {"shutdown", "full", "released", "over", None}]
Looks == [at : {"none", "read", "flagged", "gone", "described"}, fresh : BOOLEAN,
          state : {"not_found", "closed", "open", "between_turns", None}, settled : BOOLEAN]
Sends == {"none", "claimed", "asked", "unknown", "refused", "over"}

Typed ==
  /\ row \in Rows
  /\ log \in Seq(Entries)
  /\ send \in [Turns -> Sends]
  /\ wf \in Workflows
  /\ places \subseteq PlaceRecords
  /\ \A p \in places : p.at = "pushed" => p.told \in {"prompt", "restart"}
  /\ made \in Nat
  /\ looks \in [{"sweep", "stop"} -> Looks]
  /\ said \subseteq Turns /\ taken \subseteq Turns /\ ended \subseteq Turns /\ outlived \subseteq Turns
  /\ faults \in 0..MaxFaults

\* The workflow: what a stage says of its turn, its placements left and its Stop.
WfInv ==
  /\ ~Open => wf.msg = None /\ wf.cur = None /\ wf.stage = "idle"
  /\ wf.cur = None <=> wf.stage \in {"idle", "finishing"}
  /\ wf.stage \in {"placing", "released"} => ~wf.stop
  /\ wf.stage = "released" => wf.rel > 0
  /\ wf.stage \in {"placing", "placed"} => wf.cycle < wf.budget
  /\ wf.cycle <= wf.budget
  /\ wf.budget <= IF wf.kept THEN Placements ELSE Placements + 1
  /\ wf.up = "none" => taken = {}
  /\ AcceptedNotLost

\* A turn is delivered once; a send that is out has the row.
SendInv ==
  /\ \A t \in taken : send[t] = "over"
  /\ ended \cup said \subseteq taken
  /\ {wf.msg, wf.cur} \subseteq taken \cup {None}
  /\ wf.msg # None => wf.msg # wf.cur /\ wf.msg \notin ended \cup said
  /\ row.turn \notin ended
  /\ wf.up # "closed" => \A t \in Turns : send[t] \in {"claimed", "asked", "refused"} => row.turn = t

\* What a look read of the row is as it was while it is fresh, and nothing was said of its
\* turn since the workflow was found without one.
LookInv ==
  \A a \in DOMAIN looks : looks[a].fresh =>
    /\ row.turn # None
    /\ looks[a].settled => send[row.turn] \notin {"claimed", "asked", "refused"}
    /\ looks[a].at = "described" /\ ~looks[a].settled => wf.up = "closed"
    /\ looks[a].at = "described" /\ wf.up # "closed" => row.turn \notin said

KeyOf(p) == Key(p.turn, p.n)

\* The placements that still run: what numbers them, and whose they are.
PlaceInv ==
  /\ \A p \in places :
       /\ p.id \in 1..made
       /\ p.turn \in taken /\ p.turn # wf.msg
       /\ wf.stage = "starting" => p.turn # wf.cur
       /\ Waited(p) => p.turn = wf.cur /\ p.n = wf.rel /\ p.att = <<wf.run, wf.cycle>>
       /\ wf.stage = "released" /\ p.turn = wf.cur => p.n < wf.rel
       /\ wf.stage \in {"placing", "placed"} /\ p.turn = wf.cur => p.n <= wf.rel
       /\ wf.stage = "placing" /\ ~wf.again /\ wf.rel = 0 => p.turn # wf.cur
  /\ \A p, q \in places :
       /\ p.id = q.id => p = q
       /\ Waited(p) /\ p.at = "sent" /\ ~p.again /\ p.n = 0 /\ p.turn = q.turn => p = q

\* What a placement has that may write for its turn: the row's key and mark, alone.
HolderInv ==
  /\ \A p \in places : Active(p) /\ row.att = p.att /\ p.turn \notin outlived =>
       row.key = KeyOf(p) /\ (p.at = "claimed" => p.mark = row.mark)
  /\ \A p, q \in places : Active(p) /\ Active(q) /\ row.att = p.att /\ row.att = q.att /\ p # q =>
       p.turn \in outlived \/ q.turn \in outlived

\* p may still append its turn's message.
Pending(p) ==
  (p.at = "pushed" /\ p.told = "prompt") \/ (p.at = "claimed" /\ ~p.again /\ p.n = 0)
Prompted(k) == \E i \in 1..Len(log) : log[i] = [key |-> k, what |-> "prompt"]
Entered(k) == \E i \in 1..Len(log) : log[i].key = k
EnteredTurn(t) == \E i \in 1..Len(log) : log[i].key.turn = t

\* What a placement that holds its turn is told, and what the row's mark counts.
ToldInv ==
  /\ \A p \in places : p.at \in {"sent", "claimed"} => p.told = None
  /\ row.key \in Keys => row.key.turn \in taken
  /\ row.key \in Keys /\ row.key.turn = row.turn /\ row.mark < Len(log) =>
       Prompted(row.key) \/ row.turn \in outlived
  /\ \A p \in places : Active(p) /\ Holds(p) /\ p.turn \notin outlived =>
       /\ p.told = "restart" => Prompted(KeyOf(p))
       /\ p.at \in {"working", "letting"} /\ ~p.mute => Prompted(KeyOf(p))

\* What the transcript has of the turn that runs.
TurnLog ==
  /\ \A i \in 1..Len(log) :
       /\ log[i].key.turn \in taken /\ log[i].key.turn # wf.msg
       /\ wf.stage \in {"placing", "placed"} /\ log[i].key.turn = wf.cur => log[i].key.n <= wf.rel
       /\ wf.stage = "released" /\ log[i].key.turn = wf.cur => log[i].key.n < wf.rel
  /\ wf.stage = "starting" \/ (wf.stage = "placing" /\ ~wf.again /\ wf.rel = 0)
       => ~EnteredTurn(wf.cur)
  /\ wf.stage \in {"placing", "placed"} /\ Entered(Key(wf.cur, wf.rel)) /\ wf.cur \notin outlived
       => row.key = Key(wf.cur, wf.rel)
  /\ wf.stage \in {"placing", "placed", "released"} /\ EnteredTurn(wf.cur) /\ wf.cur \notin outlived
       => row.key \in Keys /\ row.key.turn = wf.cur

\* What a placement was told, or is to be, by what the transcript has.
MarkLog ==
  /\ row.mark <= Len(log)
  /\ \A i \in 1..Len(log) : i <= row.mark => log[i].key # row.key \/ log[i].key.turn \in outlived
  /\ \A p \in places : p.at = "claimed" /\ p.turn \notin outlived =>
       p.mark <= Len(log) /\ \A i \in 1..Len(log) : i <= p.mark => log[i].key # KeyOf(p)
  /\ \A p \in places : Waited(p) /\ p.at = "sent" /\ ~p.again /\ p.n = 0 => ~EnteredTurn(p.turn)
  /\ \A p \in places : Pending(p) /\ row.att = p.att /\ p.turn \notin outlived => ~Prompted(KeyOf(p))

\* Once the row's turn has an entry, only it has.
RowLog ==
  \A i, j \in 1..Len(log) :
    i < j /\ row.key \in Keys /\ log[i].key.turn = row.key.turn
    => log[j].key.turn = row.key.turn \/ {log[i].key.turn, log[j].key.turn} \cap outlived # {}

LogInv == TurnLog /\ MarkLog /\ RowLog /\ MessageOnce /\ TurnsApart

-----------------------------------------------------------------------------
(***************************************************************************)
(* The workflow's operators                                                *)
(***************************************************************************)
\* What moving a turn to another placement leaves of the workflow, and what it may come to.
Replaced(w, x) ==
  /\ x \in Workflows
  /\ x.up = w.up /\ x.run = w.run /\ x.msg = w.msg /\ x.cur = w.cur
  /\ x.stop = w.stop /\ x.end = w.end
  /\ x.place = 0 /\ x.kept = FALSE
  /\ \/ x.stage = "closing" /\ x.cycle = 0 /\ x.budget = 0
     \/ /\ x.stage = "placing" /\ ~w.stop /\ x.again /\ x.rel = w.rel
        /\ x.cycle = w.cycle + 1 /\ x.cycle # x.budget
        /\ x.budget \in {w.budget, IF w.kept THEN w.budget + 1 ELSE w.budget}

LEMMA ClosedWf == Closed \in Workflows
BY DEF Closed, Workflows, Stages

LEMMA CloseWf ==
  ASSUME NEW w \in Workflows
  PROVE  Replaced(w, Close(w)) /\ Close(w).stage = "closing"
BY DEF Close, Workflows, Stages, Replaced

LEMMA PlacingWf ==
  ASSUME NEW w \in Workflows
  PROVE  LET x == Placing(w) IN
         /\ x \in Workflows
         /\ x.up = w.up /\ x.run = w.run /\ x.msg = w.msg /\ x.cur = w.cur /\ x.rel = w.rel
         /\ x.stop = w.stop /\ x.end = w.end /\ x.place = w.place
         /\ x.stage = "placing" /\ x.cycle = 0 /\ x.budget = Placements /\ ~x.again
BY TurnAssumption DEF Placing, Workflows, Stages

LEMMA MovedWf ==
  ASSUME NEW w \in Workflows, NEW free \in BOOLEAN, w.stage \in {"placing", "placed"}
  PROVE  Replaced(w, Moved(w, free))
<1> DEFINE budget == IF free /\ w.kept THEN w.budget + 1 ELSE w.budget
           next == [w EXCEPT !.cycle = @ + 1, !.budget = budget, !.home = FALSE,
                             !.kept = FALSE, !.again = TRUE, !.place = 0, !.stage = "placing"]
<1>1. Moved(w, free) = IF w.stop \/ next.cycle = budget THEN Close(next) ELSE next
  BY DEF Moved
<1>2. /\ next \in Workflows
      /\ next.up = w.up /\ next.run = w.run /\ next.msg = w.msg /\ next.cur = w.cur
      /\ next.rel = w.rel /\ next.stop = w.stop /\ next.end = w.end /\ next.place = 0
      /\ next.stage = "placing" /\ next.again = TRUE /\ next.kept = FALSE
      /\ next.cycle = w.cycle + 1 /\ next.budget = budget
  <2>1. w.cycle + 1 \in Nat /\ budget \in Nat
    BY DEF Workflows
  <2> HIDE DEF budget
  <2> QED
    BY <2>1 DEF Workflows, Stages
<1> HIDE DEF next
<1>4. CASE w.stop \/ next.cycle = budget
  <2>1. Moved(w, free) = Close(next)
    BY <1>1, <1>4
  <2>2. Replaced(next, Close(next)) /\ Close(next).stage = "closing"
    BY <1>2, CloseWf
  <2> QED
    BY <1>2, <2>1, <2>2 DEF Replaced
<1>5. CASE ~(w.stop \/ next.cycle = budget)
  BY <1>1, <1>2, <1>5 DEF Replaced
<1> QED
  BY <1>4, <1>5

\* An interrupt sets the stop it means, and closes a turn that is not placed.
LEMMA InterruptedWf ==
  ASSUME Typed
  PROVE  LET x == Interrupted(wf) IN
         /\ x \in Workflows
         /\ x.up = wf.up /\ x.run = wf.run /\ x.msg = wf.msg /\ x.cur = wf.cur /\ x.end = wf.end
         /\ \/ /\ x.stage = wf.stage /\ x.place = wf.place /\ x.again = wf.again /\ x.rel = wf.rel
               /\ x.cycle = wf.cycle /\ x.budget = wf.budget /\ x.kept = wf.kept
               /\ (x.stop = wf.stop \/ wf.stage \notin {"placing", "released"})
            \/ /\ x.stage = "closing" /\ x.place = 0 /\ x.cycle = 0 /\ x.budget = 0 /\ ~x.kept
               /\ wf.stage \in {"placing", "released"} /\ InTurn
<1>. DEFINE stopped == [wf EXCEPT !.stop = TRUE]
<1>1. wf \in Workflows
  BY DEF Typed
<1>2. stopped \in Workflows /\ stopped.up = wf.up /\ stopped.run = wf.run /\ stopped.msg = wf.msg
      /\ stopped.cur = wf.cur /\ stopped.end = wf.end
  BY <1>1 DEF Workflows
<1>3. CASE ~InTurn
  <2>1. Interrupted(wf) = wf
    BY <1>3 DEF Interrupted
  <2> QED
    BY <1>1, <2>1
<1>4. CASE InTurn /\ Closing
  <2>1. Interrupted(wf) = [wf EXCEPT !.stopNext = wf.stopNext \/ wf.msg # None]
    BY <1>1, <1>4 DEF Interrupted, Workflows
  <2>2. wf.stage \notin {"placing", "released"}
    BY <1>4 DEF Closing
  <2> QED
    BY <1>1, <2>1, <2>2 DEF Workflows
<1>5. CASE InTurn /\ ~Closing /\ wf.stage \in {"placing", "released"}
  <2>1. Interrupted(wf) = Close(stopped)
    BY <1>5 DEF Interrupted
  <2>2. Replaced(stopped, Close(stopped)) /\ Close(stopped).stage = "closing"
    BY <1>2, CloseWf
  <2> HIDE DEF stopped
  <2> QED
    BY <1>2, <1>5, <2>1, <2>2 DEF Replaced
<1>6. CASE InTurn /\ ~Closing /\ wf.stage \notin {"placing", "released"}
  <2>1. Interrupted(wf) = stopped
    BY <1>6 DEF Interrupted
  <2> QED
    BY <1>1, <1>6, <2>1 DEF Workflows
<1> QED
  BY <1>3, <1>4, <1>5, <1>6

\* A message is taken by the main loop.
LEMMA TakeWf ==
  ASSUME wf \in Workflows
  PROVE  LET x == StartTurn(wf) IN
         /\ x \in Workflows
         /\ x.up = wf.up /\ x.run = wf.run /\ x.msg = None /\ x.cur = wf.msg /\ x.rel = 0
         /\ x.cycle = wf.cycle /\ x.budget = wf.budget /\ x.kept = wf.kept /\ x.end = wf.end
         /\ x.stage = "starting" /\ x.stop = wf.stop
BY DEF StartTurn, Workflows, Stages

\* A delivery gives the workflow its next message, and opens it if it is the first.
LEMMA DeliverWf ==
  ASSUME Typed, NEW t \in Turns, Deliver(t)
  PROVE  /\ wf' \in Workflows
         /\ \/ UNCHANGED <<wf, taken>> /\ send' = [send EXCEPT ![t] = IF @ = "asked" THEN "refused" ELSE "over"]
               /\ (wf.up = "none" => FALSE)
            \/ /\ taken' = taken \cup {t} /\ send' = [send EXCEPT ![t] = "over"]
               /\ wf'.up = "open" /\ wf'.msg = t
               /\ \/ /\ Open /\ wf.msg = None /\ (wf.cur = None \/ Closing)
                     /\ wf' = [wf EXCEPT !.msg = t]
                  \/ wf.up = "none" /\ wf' = [Closed EXCEPT !.up = "open", !.msg = t]
<1>1. wf \in Workflows
  BY DEF Typed
<1>2. CASE (wf.up = "none" \/ (Open /\ Takes)) /\ send' = [send EXCEPT ![t] = "over"]
           /\ taken' = taken \cup {t}
           /\ wf' = IF Open THEN [wf EXCEPT !.msg = t] ELSE [Closed EXCEPT !.up = "open", !.msg = t]
  <2>1. CASE Open
    <3>1. wf' = [wf EXCEPT !.msg = t]
      BY <1>2, <2>1
    <3>2. wf' \in Workflows /\ wf'.msg = t /\ wf'.up = wf.up
      BY <1>1, <3>1 DEF Workflows
    <3>3. wf.msg = None /\ (wf.cur = None \/ Closing)
      BY <1>2, <2>1 DEF Takes, InTurn, Open
    <3> QED
      BY <1>2, <2>1, <3>1, <3>2, <3>3 DEF Open
  <2>2. CASE ~Open
    <3>1. wf' = [Closed EXCEPT !.up = "open", !.msg = t] /\ wf.up = "none"
      BY <1>2, <2>2
    <3>2. wf' \in Workflows /\ wf'.msg = t /\ wf'.up = "open"
      BY <3>1 DEF Workflows, Closed, Stages
    <3> QED
      BY <1>2, <3>1, <3>2
  <2> QED
    BY <2>1, <2>2
<1>3. CASE (wf.up = "closed" \/ (Open /\ ~Takes)) /\ UNCHANGED <<wf, taken>>
           /\ send' = [send EXCEPT ![t] = IF @ = "asked" THEN "refused" ELSE "over"]
  BY <1>1, <1>3 DEF Open
<1> QED
  BY <1>2, <1>3 DEF Deliver
(***************************************************************************)
(* Types                                                                   *)
(***************************************************************************)
LEMMA StaleTyped ==
  ASSUME NEW l \in Looks
  PROVE  /\ Stale(l) \in Looks /\ Stale(l).fresh = FALSE
         /\ Stale(l).at = "none" \/ Stale(l).at = l.at
BY DEF Stale, NoLook, Looks

LEMMA LoggedTyped ==
  ASSUME Typed, Logged
  PROVE  looks' \in [{"sweep", "stop"} -> Looks]
BY StaleTyped DEF Typed, Logged

LEMMA IdleTyped ==
  ASSUME NEW r \in Rows
  PROVE  Idle(r) \in Rows /\ Idle(r).turn = None /\ Idle(r).att = r.att /\ Idle(r).key = r.key
         /\ Idle(r).mark = r.mark /\ Idle(r).stop = r.stop
BY DEF Rows, Idle

LEMMA FaultyTyped == Typed /\ (Faulty \/ UNCHANGED faults) => faults' \in 0..MaxFaults
BY TurnAssumption DEF Faulty, Typed

LEMMA SendingTyped ==
  ASSUME Typed, NEW t \in Turns, Sending(t) \/ GiveUp(t) \/ SenderDies(t)
  PROVE  Typed'
<1>1. CASE Claim(t)
  <2>1. row' \in Rows /\ send' \in [Turns -> Sends]
    BY <1>1 DEF Claim, Typed, Rows, Sends
  <2> QED
    BY <1>1, <2>1 DEF Claim, Typed
<1>2. CASE GiveBack(t)
  <2>1. row' \in Rows /\ send' \in [Turns -> Sends] /\ looks' \in [{"sweep", "stop"} -> Looks]
    BY <1>2, LoggedTyped, IdleTyped DEF GiveBack, Typed, Sends
  <2> QED
    BY <1>2, <2>1 DEF GiveBack, Typed
<1>3. CASE Ask(t)
  <2>1. send' \in [Turns -> Sends] /\ looks' \in [{"sweep", "stop"} -> Looks]
    BY <1>3, LoggedTyped DEF Ask, Typed, Sends
  <2> QED
    BY <1>3, <2>1 DEF Ask, Typed
<1>4. CASE GiveUp(t) \/ SenderDies(t)
  <2>1. send' \in [Turns -> Sends] /\ faults' \in 0..MaxFaults
    BY <1>4, TurnAssumption DEF GiveUp, SenderDies, Faulty, Typed, Sends
  <2> QED
    BY <1>4, <2>1 DEF GiveUp, SenderDies, Typed
<1>5. CASE Deliver(t)
  <2>1. wf' \in Workflows
    BY <1>5, DeliverWf
  <2>2. send' \in [Turns -> Sends] /\ taken' \subseteq Turns
    BY <1>5 DEF Deliver, Typed, Sends
  <2> QED
    BY <1>5, <2>1, <2>2 DEF Deliver, Typed
<1> QED
  BY <1>1, <1>2, <1>3, <1>4, <1>5 DEF Sending

\* A placement: the home is kept, and the placement numbered.
LEMMA PlaceWf ==
  ASSUME Typed, Place
  PROVE  /\ wf' \in Workflows
         /\ wf'.up = wf.up /\ wf'.run = wf.run /\ wf'.msg = wf.msg /\ wf'.cur = wf.cur
         /\ wf'.rel = wf.rel /\ wf'.cycle = wf.cycle /\ wf'.budget = wf.budget
         /\ wf'.kept = wf.kept /\ wf'.end = wf.end /\ wf'.stop = wf.stop
         /\ wf'.stage = "placed" /\ wf'.place = made'
<1>1. wf \in Workflows /\ made' \in Nat
  BY DEF Typed, Place
<1>2. wf' = [wf EXCEPT !.stage = "placed", !.home = TRUE, !.place = made']
  BY DEF Place
<1> QED
  BY <1>1, <1>2 DEF Workflows, Stages

\* A turn whose end was heard of is over; a message taken meanwhile is next.
LEMMA TurnOverWf ==
  ASSUME Typed, TurnOver
  PROVE  /\ wf' \in Workflows
         /\ wf'.up = wf.up /\ wf'.run = wf.run /\ wf'.msg = wf.msg /\ wf'.cur = None
         /\ wf'.rel = wf.rel /\ wf'.cycle = wf.cycle /\ wf'.budget = wf.budget
         /\ wf'.kept = wf.kept /\ wf'.end = wf.end /\ wf'.place = wf.place
         /\ wf'.stage = (IF wf.msg # None THEN "idle" ELSE "finishing")
<1>1. wf \in Workflows
  BY DEF Typed
<1>2. wf' = [wf EXCEPT !.cur = None, !.stop = wf.stopNext, !.stopNext = FALSE,
                       !.stage = IF wf.msg # None THEN "idle" ELSE "finishing"]
  BY DEF TurnOver
<1>3. (IF wf.msg # None THEN "idle" ELSE "finishing") \in Stages
  BY DEF Stages
<1> QED
  BY <1>1, <1>2, <1>3 DEF Workflows

\* A run that ends goes on with its message, closes, or is continued in a new one.
LEMMA FinishingWf ==
  ASSUME Typed, Finishing
  PROVE  /\ wf' \in Workflows
         /\ \/ /\ wf.msg # None
               /\ wf'.up = wf.up /\ wf'.run = wf.run /\ wf'.msg = wf.msg /\ wf'.cur = wf.cur
               /\ wf'.rel = wf.rel /\ wf'.cycle = wf.cycle /\ wf'.budget = wf.budget
               /\ wf'.kept = wf.kept /\ wf'.stage = "idle"
            \/ wf' = Closed /\ wf.msg = None
            \/ /\ wf.msg = None
               /\ wf'.up = "open" /\ wf'.msg = None /\ wf'.cur = None /\ wf'.stage = "idle"
               /\ wf'.cycle = 0 /\ wf'.budget = 0 /\ wf'.kept = FALSE
<1>1. wf \in Workflows
  BY DEF Typed
<1>2. CASE wf.msg # None
  <2>1. wf' = [wf EXCEPT !.stage = "idle"]
    BY <1>2 DEF Finishing
  <2> QED
    BY <1>1, <1>2, <2>1 DEF Workflows, Stages
<1>3. CASE wf.msg = None /\ wf.end
  BY <1>3, ClosedWf DEF Finishing
<1>4. CASE wf.msg = None /\ ~wf.end
  <2>1. wf' = [Closed EXCEPT !.up = "open", !.run = wf.run + 1, !.home = wf.home]
    BY <1>4 DEF Finishing
  <2>2. wf.run + 1 \in Nat /\ wf.home \in BOOLEAN
    BY <1>1 DEF Workflows
  <2> QED
    BY <1>4, <2>1, <2>2 DEF Workflows, Stages, Closed
<1> QED
  BY <1>2, <1>3, <1>4

\* The end is asked for; nothing else of the workflow changes.
LEMMA EndWf ==
  ASSUME wf \in Workflows
  PROVE  LET x == [wf EXCEPT !.end = TRUE] IN
         /\ x \in Workflows
         /\ x.up = wf.up /\ x.run = wf.run /\ x.msg = wf.msg /\ x.cur = wf.cur /\ x.rel = wf.rel
         /\ x.cycle = wf.cycle /\ x.budget = wf.budget /\ x.kept = wf.kept
         /\ x.stage = wf.stage /\ x.stop = wf.stop /\ x.again = wf.again /\ x.place = wf.place
BY DEF Workflows

\* A released turn counts its release.
LEMMA ReleasedWf ==
  ASSUME wf \in Workflows
  PROVE  LET x == [wf EXCEPT !.stage = "released", !.place = 0, !.rel = @ + 1] IN
         /\ x \in Workflows
         /\ x.up = wf.up /\ x.run = wf.run /\ x.msg = wf.msg /\ x.cur = wf.cur
         /\ x.rel = wf.rel + 1 /\ x.cycle = wf.cycle /\ x.budget = wf.budget /\ x.kept = wf.kept
         /\ x.stage = "released" /\ x.stop = wf.stop /\ x.end = wf.end
<1>1. wf.rel + 1 \in Nat
  BY DEF Workflows
<1> QED
  BY <1>1 DEF Workflows, Stages

\* What a placement's result does to the workflow.
LEMMA ResultWf ==
  ASSUME Typed, NEW p \in places, Result(p)
  PROVE  /\ Replaced(wf, wf') \/
            /\ p.out = "released" /\ ~wf.stop
            /\ wf' = [wf EXCEPT !.stage = "released", !.place = 0, !.rel = @ + 1]
         /\ wf' \in Workflows
<1>1. wf \in Workflows /\ wf.stage = "placed"
  BY DEF Typed, Result, Waited
<1>2. CASE p.out \in {"shutdown", "full"}
  <2>1. wf' = Moved(wf, p.out = "full")
    BY <1>2 DEF Result
  <2> QED
    BY <1>1, <2>1, MovedWf DEF Replaced
<1>3. CASE p.out = "released" /\ ~wf.stop
  <2>1. wf' = [wf EXCEPT !.stage = "released", !.place = 0, !.rel = @ + 1]
    BY <1>3 DEF Result
  <2> QED
    BY <1>1, <1>3, <2>1, ReleasedWf
<1>4. CASE p.out \notin {"shutdown", "full"} /\ ~(p.out = "released" /\ ~wf.stop)
  <2>1. wf' = Close(wf)
    BY <1>4 DEF Result
  <2> QED
    BY <1>1, <2>1, CloseWf DEF Replaced
<1> QED
  BY <1>2, <1>3, <1>4

LEMMA WorkflowTyped ==
  ASSUME Typed, WfInv, Workflow \/ AcquireFails \/ OverTime
  PROVE  Typed'
<1>0. wf \in Workflows
  BY DEF Typed
<1>1. CASE Take
  <2>1. wf' \in Workflows
    BY <1>0, <1>1, ClosedWf, TakeWf DEF Take
  <2>2. made' \in Nat
    BY <1>1 DEF Take, Typed
  <2> QED
    BY <1>1, <2>1, <2>2 DEF Take, Typed
<1>2. CASE ReadSettings \/ Continue
  <2>1. wf' \in {Close(wf), Placing(wf)}
    BY <1>2 DEF ReadSettings, Continue
  <2>2. wf' \in Workflows
    BY <1>0, <2>1, CloseWf, PlacingWf DEF Replaced
  <2> QED
    BY <1>2, <2>2 DEF ReadSettings, Continue, Typed
<1>3. CASE Place
  <2>1. wf' \in Workflows /\ made' \in Nat
    BY <1>3, PlaceWf DEF Place, Typed
  <2>2. places' \subseteq PlaceRecords /\ \A p \in places' \ places : p.at = "sent"
    <3>1. made' \in Nat /\ wf.rel \in Nat /\ wf.run \in Nat /\ wf.cycle \in Nat /\ wf.again \in BOOLEAN
          /\ wf.cur \in Turns
      BY <1>0, <1>3, <2>1 DEF Workflows, WfInv, Place
    <3>2. [id |-> made', turn |-> wf.cur, n |-> wf.rel, att |-> <<wf.run, wf.cycle>>,
            again |-> wf.again, at |-> "sent", told |-> None, mute |-> FALSE, mark |-> 0, out |-> None]
            \in PlaceRecords
      BY <3>1 DEF PlaceRecords, Ats
    <3>3. \A x \in places' \ places : x.at = "sent"
      BY <1>3 DEF Place
    <3> QED
      BY <1>3, <3>2, <3>3 DEF Place, Typed
  <2> QED
    BY <1>3, <2>1, <2>2 DEF Place, Typed
<1>4. CASE Lost \/ AcquireFails
  <2>1. wf' \in Workflows
    BY <1>0, <1>4, MovedWf DEF Lost, AcquireFails, Replaced
  <2>2. faults' \in 0..MaxFaults /\ places' \subseteq places
    BY <1>4, FaultyTyped DEF Lost, AcquireFails
  <2> QED
    BY <1>4, <2>1, <2>2 DEF Lost, AcquireFails, Typed
<1>5. CASE OverTime
  <2>1. wf' \in Workflows /\ faults' \in 0..MaxFaults
    BY <1>0, <1>5, CloseWf, FaultyTyped DEF OverTime, Replaced
  <2> QED
    BY <1>5, <2>1 DEF OverTime, Typed
<1>6. CASE FinishTurn
  <2>1. wf.cur \in Turns
    BY <1>0, <1>6 DEF Workflows, WfInv, FinishTurn, Closing
  <2>2. [Idle(row) EXCEPT !.stop = FALSE] \in Rows
    BY IdleTyped DEF Typed, Rows
  <2>3. row' \in Rows /\ looks' \in [{"sweep", "stop"} -> Looks]
    BY <1>6, <2>2, LoggedTyped DEF FinishTurn, Typed
  <2> QED
    BY <1>6, <2>1, <2>3 DEF FinishTurn, Typed
<1>7. CASE TurnOver
  BY <1>7, TurnOverWf DEF TurnOver, Typed
<1>8. CASE Finishing
  BY <1>8, FinishingWf DEF Finishing, Typed
<1> QED
  BY <1>1, <1>2, <1>3, <1>4, <1>5, <1>6, <1>7, <1>8 DEF Workflow

\* How a placement moves: it goes on as q, or is gone.
Moves(p, q) ==
  /\ q.id = p.id /\ q.turn = p.turn /\ q.n = p.n /\ q.att = p.att
  /\ p.at # "result" /\ q.at # "sent"
  /\ p.mute => q.mute

LEMMA MoveTyped ==
  ASSUME NEW p \in PlaceRecords, NEW at \in Ats \ {"sent"}, p.at # "result"
  PROVE  /\ [p EXCEPT !.at = at] \in PlaceRecords /\ Moves(p, [p EXCEPT !.at = at])
         /\ \A out \in {"shutdown", "full", "released", "over"} :
              [p EXCEPT !.at = at, !.out = out] \in PlaceRecords
              /\ Moves(p, [p EXCEPT !.at = at, !.out = out])
         /\ \A mark \in Nat : [p EXCEPT !.at = at, !.mark = mark] \in PlaceRecords
                              /\ Moves(p, [p EXCEPT !.at = at, !.mark = mark])
         /\ \A told \in {"prompt", "restart"} :
              [p EXCEPT !.at = at, !.mark = 0, !.again = FALSE, !.told = told] \in PlaceRecords
              /\ Moves(p, [p EXCEPT !.at = at, !.mark = 0, !.again = FALSE, !.told = told])
BY DEF PlaceRecords, Ats, Moves

LEMMA MuteTyped ==
  ASSUME NEW p \in PlaceRecords, NEW q \in PlaceRecords, Moves(p, q)
  PROVE  [q EXCEPT !.mute = TRUE] \in PlaceRecords /\ Moves(p, [q EXCEPT !.mute = TRUE])
         /\ [q EXCEPT !.mute = TRUE].at = q.at /\ [q EXCEPT !.mute = TRUE].mute = TRUE
         /\ [q EXCEPT !.mute = TRUE].told = q.told /\ [q EXCEPT !.mute = TRUE].mark = q.mark
BY DEF PlaceRecords, Moves

\* A placement's run ends: its result waits to be heard, or it is gone.
LEMMA EndsMoves ==
  ASSUME Typed, NEW p \in places, p.at # "result",
         NEW out \in {"shutdown", "full", "released", "over"}, Ends(p, out)
  PROVE  \/ places' = places \ {p}
         \/ \E q \in PlaceRecords : Moves(p, q) /\ Step(p, q) /\ q.at = "result"
                /\ q.told = p.told /\ q.mute = p.mute
<1> DEFINE q == [p EXCEPT !.at = "result", !.out = out]
<1>1. p \in PlaceRecords /\ "result" \in Ats \ {"sent"}
  BY DEF Typed, Ats
<1>2. q \in PlaceRecords /\ Moves(p, q)
  BY <1>1, MoveTyped
<1>3. q.at = "result" /\ q.told = p.told /\ q.mute = p.mute
  BY <1>1 DEF PlaceRecords
<1> QED
  BY <1>2, <1>3 DEF Ends

\* An append of a placement's user entry, or its refusal.
LEMMA EntryMoves ==
  ASSUME Typed, NEW p \in places, NEW q \in PlaceRecords, Moves(p, q),
         NEW what, Entry(p, what, q)
  PROVE  \/ /\ ~p.mute /\ HoldsOrLast(p) /\ Step(p, q)
            /\ log' = Append(log, [key |-> KeyOf(p), what |-> what])
         \/ /\ UNCHANGED log
            /\ \E x \in PlaceRecords : Moves(p, x) /\ Step(p, x) /\ x.at = q.at /\ x.mute
                                       /\ x.told = q.told /\ x.mark = q.mark
<1>1. p \in PlaceRecords
  BY DEF Typed
<1>2. CASE ~p.mute /\ HoldsOrLast(p)
  BY <1>2 DEF Entry, KeyOf
<1>3. CASE ~(~p.mute /\ HoldsOrLast(p))
  <2>1. UNCHANGED log /\ Step(p, [q EXCEPT !.mute = TRUE])
    BY <1>3 DEF Entry
  <2> QED
    BY <1>1, <2>1, MuteTyped
<1> QED
  BY <1>2, <1>3

\* What a placement's claim does: the row is its own, and q counts from the row's mark.
Outlives(p) ==
  {q.turn : q \in {x \in places : IF x = p THEN ~Waited(p) ELSE Active(x) /\ x.att = p.att}}

LEMMA ClaimTurnMoves ==
  ASSUME Typed, NEW p \in places, ClaimTurn(p)
  PROVE  \/ /\ row.turn = p.turn
            /\ row' \in Rows /\ row'.turn = row.turn /\ row'.att = p.att /\ row'.key = KeyOf(p)
            /\ row'.mark = (IF row.key = KeyOf(p) THEN row.mark ELSE Len(log))
            /\ row'.stop = row.stop /\ row'.done = row.done
            /\ outlived' = outlived \cup Outlives(p) /\ outlived' \subseteq Turns
            /\ \E q \in PlaceRecords : Moves(p, q) /\ Step(p, q) /\ q.at = "claimed" /\ q.again = p.again
                                       /\ q.mark = row'.mark /\ q.told = p.told /\ q.mute = p.mute
         \/ /\ UNCHANGED <<row, outlived>>
            /\ \/ places' = places \ {p}
               \/ \E q \in PlaceRecords : Moves(p, q) /\ Step(p, q) /\ q.at = "result"
                     /\ q.told = p.told /\ q.mute = p.mute
<1>1. p \in PlaceRecords /\ row \in Rows /\ Len(log) \in Nat /\ p.at = "sent"
  BY DEF Typed, ClaimTurn
<1>2. CASE row.turn = p.turn
  <2>1. row' = [row EXCEPT !.att = p.att, !.key = KeyOf(p),
                           !.mark = IF row.key = KeyOf(p) THEN row.mark ELSE Len(log)]
    BY <1>2 DEF ClaimTurn, KeyOf
  <2>2. KeyOf(p) \in Keys /\ p.att \in Nat \X Nat
    BY <1>1 DEF KeyOf, Key, Keys, PlaceRecords
  <2>3. row' \in Rows /\ row'.turn = row.turn /\ row'.att = p.att /\ row'.key = KeyOf(p)
        /\ row'.mark = (IF row.key = KeyOf(p) THEN row.mark ELSE Len(log))
        /\ row'.stop = row.stop /\ row'.done = row.done
    BY <1>1, <2>1, <2>2 DEF Rows
  <2>4. Step(p, [p EXCEPT !.at = "claimed", !.mark = row'.mark])
    BY <1>2 DEF ClaimTurn
  <2>5. row'.mark \in Nat /\ "claimed" \in Ats \ {"sent"}
    BY <2>3 DEF Rows, Ats
  <2>6. [p EXCEPT !.at = "claimed", !.mark = row'.mark] \in PlaceRecords
        /\ Moves(p, [p EXCEPT !.at = "claimed", !.mark = row'.mark])
    BY <1>1, <2>5, MoveTyped
  <2>7. /\ [p EXCEPT !.at = "claimed", !.mark = row'.mark].at = "claimed"
        /\ [p EXCEPT !.at = "claimed", !.mark = row'.mark].mark = row'.mark
        /\ [p EXCEPT !.at = "claimed", !.mark = row'.mark].told = p.told
        /\ [p EXCEPT !.at = "claimed", !.mark = row'.mark].again = p.again
        /\ [p EXCEPT !.at = "claimed", !.mark = row'.mark].mute = p.mute
    BY <1>1 DEF PlaceRecords
  <2>8. outlived' = outlived \cup Outlives(p)
    BY <1>2 DEF ClaimTurn, Outlives
  <2>9. Outlives(p) \subseteq Turns /\ outlived \subseteq Turns
    BY DEF Outlives, Typed, PlaceRecords
  <2> QED
    BY <1>2, <2>3, <2>4, <2>6, <2>7, <2>8, <2>9
<1>3. CASE row.turn # p.turn
  <2>1. Ends(p, "over") /\ UNCHANGED <<row, outlived>>
    BY <1>3 DEF ClaimTurn
  <2> QED
    BY <1>1, <2>1, EndsMoves
<1> QED
  BY <1>2, <1>3

\* The other variables of a placement's own steps.
placeVars == <<send, wf, made, taken, ended>>

Quits(p) == Refuse(p) \/ Finish(p) \/ Abort(p) \/ Cut(p) \/ Gone(p)

LEMMA QuitMoves ==
  ASSUME Typed, NEW p \in places, Quits(p)
  PROVE  /\ UNCHANGED placeVars /\ UNCHANGED <<row, log, looks, said, outlived>> /\ faults' \in 0..MaxFaults
         /\ \/ places' = places \ {p}
            \/ \E q \in PlaceRecords : Moves(p, q) /\ Step(p, q) /\ q.at = "result"
                  /\ q.told = p.told /\ q.mute = p.mute
<1>1. CASE Refuse(p)
  <2>1. PICK out \in {"shutdown", "full"} : Ends(p, out)
    BY <1>1 DEF Refuse
  <2> QED
    BY <1>1, <2>1, EndsMoves, FaultyTyped DEF Refuse, placeVars
<1>2. CASE Finish(p) \/ Abort(p) \/ Cut(p)
  <2>1. p.at # "result" /\ Ends(p, "over")
    BY <1>2 DEF Finish, Abort, Cut
  <2> QED
    BY <1>2, <2>1, EndsMoves, FaultyTyped DEF Finish, Abort, Cut, placeVars
<1>3. CASE Gone(p)
  <2>1. faults' \in 0..MaxFaults
    BY <1>3, FaultyTyped DEF Gone
  <2> QED
    BY <1>3, <2>1 DEF Gone, placeVars
<1> QED
  BY <1>1, <1>2, <1>3 DEF Quits

LEMMA ChooseMoves ==
  ASSUME Typed, NEW p \in places, Choose(p)
  PROVE  /\ UNCHANGED placeVars /\ UNCHANGED <<row, log, looks, said, faults, outlived>> /\ p.at = "claimed"
         /\ \E q \in PlaceRecords : Moves(p, q) /\ Step(p, q) /\ q.at = "pushed" /\ q.mute = p.mute
              /\ q.told = (IF (p.again \/ p.n > 0) /\ Landed(p) THEN "restart" ELSE "prompt")
<1> DEFINE told == IF (p.again \/ p.n > 0) /\ Landed(p) THEN "restart" ELSE "prompt"
           q == [p EXCEPT !.at = "pushed", !.mark = 0, !.again = FALSE, !.told = told]
<1>1. p \in PlaceRecords /\ "pushed" \in Ats \ {"sent"} /\ p.at = "claimed"
  BY DEF Typed, Ats, Choose
<1>2. told \in {"prompt", "restart"}
  OBVIOUS
<1>3. Step(p, q)
  BY DEF Choose
<1> HIDE DEF told
<1>4. q \in PlaceRecords /\ Moves(p, q)
  BY <1>1, <1>2, MoveTyped
<1>5. q.at = "pushed" /\ q.mute = p.mute /\ q.told = told
  BY <1>1 DEF PlaceRecords
<1>6. UNCHANGED placeVars /\ UNCHANGED <<row, log, looks, said, faults, outlived>>
  BY DEF Choose, placeVars
<1> HIDE DEF q
<1> QED
  BY <1>1, <1>3, <1>4, <1>5, <1>6 DEF told

\* What an append of `what` by p does, p becoming q or a muted one like it.
Appends(p, what, at) ==
  \/ /\ ~p.mute /\ HoldsOrLast(p)
     /\ log' = Append(log, [key |-> KeyOf(p), what |-> what])
     /\ \E q \in PlaceRecords : Moves(p, q) /\ Step(p, q) /\ q.at = at /\ q.told = p.told
                                /\ q.mute = p.mute
  \/ /\ UNCHANGED log
     /\ \E q \in PlaceRecords : Moves(p, q) /\ Step(p, q) /\ q.at = at /\ q.told = p.told /\ q.mute

LEMMA LandMoves ==
  ASSUME Typed, NEW p \in places, Land(p)
  PROVE  /\ UNCHANGED placeVars /\ UNCHANGED <<row, looks, said, faults, outlived>> /\ p.at = "pushed"
         /\ Appends(p, p.told, "working")
<1> DEFINE q == [p EXCEPT !.at = "working"]
<1>1. p \in PlaceRecords /\ "working" \in Ats \ {"sent"} /\ p.at = "pushed"
  BY DEF Typed, Ats, Land
<1>2. q \in PlaceRecords /\ Moves(p, q)
  BY <1>1, MoveTyped
<1>3. q.at = "working" /\ q.told = p.told /\ q.mute = p.mute
  BY <1>1 DEF PlaceRecords
<1>4. Entry(p, p.told, q)
  BY DEF Land
<1> HIDE DEF q
<1>5. UNCHANGED placeVars /\ UNCHANGED <<row, looks, said, faults, outlived>>
  BY DEF Land, placeVars
<1> QED
  BY <1>1, <1>2, <1>3, <1>4, <1>5, EntryMoves DEF Appends

LEMMA LetGoMoves ==
  ASSUME Typed, NEW p \in places, LetGo(p)
  PROVE  /\ UNCHANGED placeVars /\ UNCHANGED <<row, looks, said, faults, outlived>> /\ p.at = "letting"
         /\ Appends(p, "results", "result")
<1> DEFINE q == [p EXCEPT !.at = "result", !.out = "released"]
<1>1. p \in PlaceRecords /\ "result" \in Ats \ {"sent"} /\ p.at = "letting"
  BY DEF Typed, Ats, LetGo
<1>2. q \in PlaceRecords /\ Moves(p, q)
  BY <1>1, MoveTyped
<1>3. q.at = "result" /\ q.told = p.told /\ q.mute = p.mute
  BY <1>1 DEF PlaceRecords
<1>4. Entry(p, "results", q)
  BY DEF LetGo
<1> HIDE DEF q
<1>5. UNCHANGED placeVars /\ UNCHANGED <<row, looks, said, faults, outlived>>
  BY DEF LetGo, placeVars
<1> QED
  BY <1>1, <1>2, <1>3, <1>4, <1>5, EntryMoves DEF Appends

LEMMA ReleaseMoves ==
  ASSUME Typed, NEW p \in places, Release(p)
  PROVE  /\ UNCHANGED placeVars /\ UNCHANGED <<row, log, looks, said, faults, outlived>> /\ p.at = "working"
         /\ \E q \in PlaceRecords : Moves(p, q) /\ Step(p, q) /\ q.at = "letting"
              /\ q.told = p.told /\ q.mute = p.mute
<1> DEFINE q == [p EXCEPT !.at = "letting"]
<1>1. p \in PlaceRecords /\ "letting" \in Ats \ {"sent"} /\ p.at = "working"
  BY DEF Typed, Ats, Release
<1>2. q \in PlaceRecords /\ Moves(p, q)
  BY <1>1, MoveTyped
<1>3. q.at = "letting" /\ q.told = p.told /\ q.mute = p.mute
  BY <1>1 DEF PlaceRecords
<1> QED
  BY <1>1, <1>2, <1>3 DEF Release, placeVars

Acts(p) == ClaimTurn(p) \/ Choose(p) \/ Land(p) \/ LetGo(p) \/ Release(p) \/ Quits(p)

\* In each step of its own a placement moves on or is gone; nothing of the workflow changes.
LEMMA ActMoves ==
  ASSUME Typed, NEW p \in places, Acts(p)
  PROVE  /\ UNCHANGED placeVars
         /\ \/ places' = places \ {p}
            \/ \E q \in PlaceRecords : Moves(p, q) /\ Step(p, q)
<1>1. CASE ClaimTurn(p)
  BY <1>1, ClaimTurnMoves DEF ClaimTurn, placeVars
<1>2. CASE Choose(p)
  BY <1>2, ChooseMoves
<1>3. CASE Land(p)
  BY <1>3, LandMoves DEF Appends
<1>4. CASE LetGo(p)
  BY <1>4, LetGoMoves DEF Appends
<1>5. CASE Release(p)
  BY <1>5, ReleaseMoves
<1>6. CASE Quits(p)
  BY <1>6, QuitMoves
<1> QED
  BY <1>1, <1>2, <1>3, <1>4, <1>5, <1>6 DEF Acts

LEMMA AppendTyped ==
  ASSUME Typed, NEW p \in places, NEW what \in {"prompt", "restart", "results"}
  PROVE  Append(log, [key |-> KeyOf(p), what |-> what]) \in Seq(Entries)
<1>1. KeyOf(p) \in Keys
  BY DEF Typed, PlaceRecords, KeyOf, Key, Keys
<1>2. [key |-> KeyOf(p), what |-> what] \in Entries
  BY <1>1 DEF Entries
<1> QED
  BY <1>2 DEF Typed

LEMMA PlacementTyped ==
  ASSUME Typed, WfInv, NEW p \in places, Acts(p) \/ Say(p) \/ Result(p)
  PROVE  Typed'
<1>1. CASE Acts(p)
  <2>1. wf' = wf /\ send' = send /\ made' = made /\ taken' = taken /\ ended' = ended
    BY <1>1, ActMoves DEF placeVars
  <2>2. places' \subseteq PlaceRecords
    BY <1>1, ActMoves DEF Typed, Step
  <2>3. CASE ClaimTurn(p)
    <3>0. faults' \in 0..MaxFaults
      BY <2>3, FaultyTyped DEF ClaimTurn
    <3>1. row' \in Rows /\ outlived' \subseteq Turns /\ UNCHANGED <<log, looks, said>>
      BY <2>3, ClaimTurnMoves DEF ClaimTurn, Typed
    <3>2. \A x \in places' : x.at = "pushed" => x.told \in {"prompt", "restart"}
      BY <2>3, ClaimTurnMoves DEF Typed, Step
    <3> QED
      BY <2>1, <2>2, <3>0, <3>1, <3>2 DEF Typed
  <2>4. CASE Choose(p)
    <3>0. PICK q \in PlaceRecords : Step(p, q) /\ q.told \in {"prompt", "restart"}
      <4>1. PICK q \in PlaceRecords : Step(p, q)
              /\ q.told = (IF (p.again \/ p.n > 0) /\ Landed(p) THEN "restart" ELSE "prompt")
        BY <2>4, ChooseMoves
      <4>2. q.told \in {"prompt", "restart"}
        BY <4>1
      <4> QED
        BY <4>1, <4>2
    <3>1. \A x \in places' : x.at = "pushed" => x.told \in {"prompt", "restart"}
      BY <3>0 DEF Typed, Step
    <3> QED
      BY <2>1, <2>2, <2>4, <3>1, ChooseMoves DEF Typed, PlaceRecords
  <2>5. CASE Land(p) \/ LetGo(p)
    <3>1. p.at = "pushed" => p.told \in {"prompt", "restart"}
      BY DEF Typed, PlaceRecords
    <3>2. log' \in Seq(Entries)
      BY <2>5, <3>1, LandMoves, LetGoMoves, AppendTyped DEF Appends, Typed
    <3>3. \A x \in places' : x.at = "pushed" => x.told \in {"prompt", "restart"}
      BY <2>5, LandMoves, LetGoMoves DEF Appends, Typed, Step
    <3> QED
      BY <2>1, <2>2, <2>5, <3>2, <3>3, LandMoves, LetGoMoves DEF Typed
  <2>6. CASE Release(p)
    <3>1. \A x \in places' : x.at = "pushed" => x.told \in {"prompt", "restart"}
      BY <2>6, ReleaseMoves DEF Typed, Step
    <3> QED
      BY <2>1, <2>2, <2>6, <3>1, ReleaseMoves DEF Typed
  <2>7. CASE Quits(p)
    <3>1. \A x \in places' : x.at = "pushed" => x.told \in {"prompt", "restart"}
      BY <2>7, QuitMoves DEF Typed, Step
    <3> QED
      BY <2>1, <2>2, <2>7, <3>1, QuitMoves DEF Typed
  <2> QED
    BY <1>1, <2>3, <2>4, <2>5, <2>6, <2>7 DEF Acts
<1>2. CASE Say(p)
  <2>1. looks' \in [{"sweep", "stop"} -> Looks] /\ p.turn \in Turns
    BY <1>2, LoggedTyped DEF Say, Typed, PlaceRecords
  <2> QED
    BY <1>2, <2>1 DEF Say, Typed
<1>3. CASE Result(p)
  BY <1>3, ResultWf DEF Result, Typed
<1> QED
  BY <1>1, <1>2, <1>3

\* The looks of the sweep and of a Stop.
LEMMA LookTyped ==
  ASSUME Typed, WfInv,
         StopReads \/ StopFlags \/ StopSignals \/ SweepReads \/ MarkDone \/ Terminate
           \/ \E a \in DOMAIN looks : Describe(a) \/ EndLost(a)
  PROVE  Typed'
<1>0. wf \in Workflows /\ NoLook \in Looks /\ DOMAIN looks = {"sweep", "stop"}
      /\ (row.turn # None) \in BOOLEAN
  BY DEF Typed, NoLook, Looks
<1>1. CASE StopReads \/ SweepReads
  <2>0. Quiet \in BOOLEAN
    BY DEF Quiet
  <2>a. ASSUME NEW a \in {"sweep", "stop"}, NEW at \in {"read", "gone"}, NEW settled \in BOOLEAN,
               Look(a, at, settled)
        PROVE  looks' \in [{"sweep", "stop"} -> Looks]
    <3>1. [at |-> at, fresh |-> TRUE, state |-> None, settled |-> settled] \in Looks
      BY DEF Looks
    <3> QED
      BY <2>a, <3>1 DEF Look, Typed
  <2>1. looks' \in [{"sweep", "stop"} -> Looks]
    BY <1>1, <2>0, <2>a DEF StopReads, SweepReads
  <2>2. faults' \in 0..MaxFaults
    BY <1>1, FaultyTyped DEF StopReads, SweepReads
  <2> QED
    BY <1>1, <2>1, <2>2 DEF StopReads, SweepReads, Typed
<1>2. CASE StopFlags
  <2>1. row' \in Rows
    BY <1>2 DEF StopFlags, Typed, Rows
  <2>2. looks' \in [{"sweep", "stop"} -> Looks]
    BY <1>2 DEF StopFlags, Typed, Looks
  <2> QED
    BY <1>2, <2>1, <2>2 DEF StopFlags, Typed
<1>3. CASE StopSignals
  <2>1. looks' \in [{"sweep", "stop"} -> Looks]
    BY <1>0, <1>3 DEF StopSignals, Typed, Looks
  <2>2. faults' \in 0..MaxFaults /\ wf' \in Workflows
    BY <1>0, <1>3, FaultyTyped, InterruptedWf DEF StopSignals
  <2> QED
    BY <1>3, <2>1, <2>2 DEF StopSignals, Typed
<1>4. ASSUME NEW a \in DOMAIN looks, Describe(a) PROVE Typed'
  <2>1. State \in {"not_found", "closed", "open", "between_turns"}
    BY DEF State
  <2>2. looks' \in [{"sweep", "stop"} -> Looks]
    BY <1>0, <1>4, <2>1 DEF Describe, Typed, Looks
  <2> QED
    BY <1>4, <2>2 DEF Describe, Typed
<1>5. ASSUME NEW a \in DOMAIN looks, EndLost(a) PROVE Typed'
  <2>1. row' \in Rows
    BY <1>5, IdleTyped DEF EndLost, Typed
  <2>2. \A b \in DOMAIN looks : Stale(looks[b]) \in Looks
    BY StaleTyped DEF Typed
  <2>3. CASE looks[a].fresh /\ row.turn # None
    <3>1. looks' = [b \in DOMAIN looks |-> IF b = a THEN NoLook ELSE Stale(looks[b])]
      BY <1>5, <2>3 DEF EndLost
    <3> QED
      BY <1>0, <1>5, <2>1, <2>2, <3>1 DEF EndLost, Typed
  <2>4. CASE ~(looks[a].fresh /\ row.turn # None)
    <3>1. looks' = [looks EXCEPT ![a] = NoLook]
      BY <1>5, <2>4 DEF EndLost
    <3>2. looks' \in [{"sweep", "stop"} -> Looks]
      BY <1>0, <1>5, <3>1 DEF Typed
    <3> QED
      BY <1>0, <1>5, <2>1, <3>2 DEF EndLost, Typed
  <2> QED
    BY <2>3, <2>4
<1>6. CASE MarkDone
  <2>1. row' \in Rows /\ faults' \in 0..MaxFaults
    BY <1>6, FaultyTyped DEF MarkDone, Typed, Rows
  <2>2. looks' \in [{"sweep", "stop"} -> Looks] /\ wf' \in Workflows
    BY <1>0, <1>6, LoggedTyped, EndWf DEF MarkDone
  <2> QED
    BY <1>6, <2>1, <2>2 DEF MarkDone, Typed
<1>7. CASE Terminate
  BY <1>7, ClosedWf, FaultyTyped DEF Terminate, Typed
<1> QED
  BY <1>1, <1>2, <1>3, <1>4, <1>5, <1>6, <1>7

Looking ==
  \/ StopReads \/ StopFlags \/ StopSignals \/ SweepReads \/ MarkDone \/ Terminate
  \/ \E a \in DOMAIN looks : Describe(a) \/ EndLost(a)

\* The steps, as the lemmas take them.
LEMMA NextCases ==
  ASSUME [Next]_vars
  PROVE  \/ \E t \in Turns : Sending(t) \/ GiveUp(t) \/ SenderDies(t)
         \/ Workflow \/ AcquireFails \/ OverTime
         \/ \E p \in places : Acts(p) \/ Say(p) \/ Result(p)
         \/ Looking
         \/ UNCHANGED vars
BY DEF Next, Running, Acts, Quits, Looking

LEMMA TypedStep == Typed /\ WfInv /\ [Next]_vars => Typed'
<1> SUFFICES ASSUME Typed, WfInv, [Next]_vars PROVE Typed'
  OBVIOUS
<1>1. CASE UNCHANGED vars
  BY <1>1 DEF vars, Typed
<1> QED
  BY <1>1, NextCases, SendingTyped, WorkflowTyped, PlacementTyped, LookTyped DEF Looking

(***************************************************************************)
(* The workflow's stages, placements and accepted messages                 *)
(***************************************************************************)
LEMMA WfKept ==
  ASSUME WfInv, UNCHANGED <<wf, taken, ended>>
  PROVE  WfInv'
BY DEF WfInv, Open, AcceptedNotLost

\* A turn moved to another placement, or over.
LEMMA WfReplaced ==
  ASSUME Typed, WfInv, wf.stage \notin {"idle", "finishing"}, Replaced(wf, wf'), UNCHANGED <<taken, ended>>,
         wf.stage \in {"placing", "placed"} \/ wf'.stage = "closing"
  PROVE  WfInv'
<1>1. /\ wf.cycle \in Nat /\ wf.budget \in Nat /\ wf.kept \in BOOLEAN
      /\ wf'.cycle \in Nat /\ wf'.budget \in Nat /\ wf'.kept \in BOOLEAN
  BY DEF Typed, Workflows, Replaced
<1>2. wf'.stage \in {"closing", "placing"} /\ wf'.up = wf.up /\ wf'.msg = wf.msg /\ wf'.cur = wf.cur
      /\ (wf'.stage = "placing" => ~wf'.stop)
  BY DEF Replaced
<1>3. wf.cur # None
  BY DEF WfInv
<1>4. /\ wf'.cycle <= wf'.budget
      /\ wf'.stage = "placing" => wf'.cycle < wf'.budget
      /\ wf'.budget <= IF wf'.kept THEN Placements ELSE Placements + 1
  BY <1>1, TurnAssumption DEF Replaced, WfInv
<1> QED
  BY <1>2, <1>3, <1>4 DEF WfInv, Open, AcceptedNotLost

LEMMA WfStepSending ==
  ASSUME Typed, WfInv, NEW t \in Turns, Sending(t) \/ GiveUp(t) \/ SenderDies(t)
  PROVE  WfInv'
<1>1. CASE ~Deliver(t)
  BY <1>1, WfKept DEF Sending, Claim, Ask, GiveBack, GiveUp, SenderDies
<1>2. CASE Deliver(t)
  <2>0. wf \in Workflows /\ UNCHANGED ended /\ t # None /\ None \notin taken
    BY <1>2, TurnAssumption DEF Typed, Deliver
  <2>1. CASE UNCHANGED <<wf, taken>>
    BY <2>0, <2>1, WfKept
  <2>2. CASE Open /\ wf.msg = None /\ (wf.cur = None \/ Closing) /\ wf' = [wf EXCEPT !.msg = t]
             /\ taken' = taken \cup {t}
    <3>1. /\ wf'.up = wf.up /\ wf'.msg = t /\ wf'.cur = wf.cur /\ wf'.stage = wf.stage
          /\ wf'.stop = wf.stop /\ wf'.rel = wf.rel /\ wf'.cycle = wf.cycle
          /\ wf'.budget = wf.budget /\ wf'.kept = wf.kept
      BY <2>0, <2>2 DEF Workflows
    <3> QED
      BY <2>0, <2>2, <3>1 DEF WfInv, Open, AcceptedNotLost
  <2>3. CASE wf.up = "none" /\ wf' = [Closed EXCEPT !.up = "open", !.msg = t]
             /\ taken' = taken \cup {t}
    <3>1. /\ wf'.up = "open" /\ wf'.msg = t /\ wf'.cur = None /\ wf'.stage = "idle"
          /\ wf'.cycle = 0 /\ wf'.budget = 0 /\ wf'.kept = FALSE
      BY <2>3 DEF Closed
    <3> QED
      BY <2>0, <2>3, <3>1, TurnAssumption DEF WfInv, Open, AcceptedNotLost
  <2> QED
    BY <1>2, <2>1, <2>2, <2>3, DeliverWf
<1> QED
  BY <1>1, <1>2

LEMMA WfStepWorkflow ==
  ASSUME Typed, WfInv, Workflow \/ AcquireFails \/ OverTime
  PROVE  WfInv'
<1>0. wf \in Workflows
  BY DEF Typed
<1>1. CASE Take
  <2>1. CASE wf.msg # None /\ wf' = StartTurn(wf)
    BY <1>0, <1>1, <2>1, TakeWf DEF Take, WfInv, Open, AcceptedNotLost
  <2>2. CASE wf' = Closed
    BY <1>0, <1>1, <2>2, TurnAssumption DEF Take, Closed, WfInv, Open, AcceptedNotLost
  <2> QED
    BY <1>1, <2>1, <2>2 DEF Take
<1>2. CASE ReadSettings /\ wf.stop
  <2>1. wf' = Close(wf) /\ UNCHANGED <<taken, ended>> /\ wf.stage = "starting"
    BY <1>2 DEF ReadSettings
  <2> QED
    BY <1>0, <2>1, CloseWf, WfReplaced
<1>3. CASE (ReadSettings /\ ~wf.stop) \/ Continue
  <2>1. wf' = Placing(wf) /\ UNCHANGED <<taken, ended>> /\ wf.stage \in {"starting", "released"}
        /\ ~wf.stop /\ Open
    BY <1>3 DEF ReadSettings, Continue, WfInv
  <2>2. Placements \in Nat \ {0}
    BY TurnAssumption
  <2> QED
    BY <1>0, <2>1, <2>2, PlacingWf DEF WfInv, Open, AcceptedNotLost
<1>4. CASE Place
  BY <1>0, <1>4, PlaceWf DEF Place, WfInv, Open, AcceptedNotLost
<1>5. CASE Lost \/ AcquireFails
  <2>1. wf' = Moved(wf, FALSE) /\ UNCHANGED <<taken, ended>> /\ wf.stage \in {"placing", "placed"}
    BY <1>5 DEF Lost, AcquireFails
  <2> QED
    BY <1>0, <2>1, MovedWf, WfReplaced
<1>6. CASE OverTime
  <2>1. wf' = Close(wf) /\ UNCHANGED <<taken, ended>> /\ wf.stage = "placed"
    BY <1>6 DEF OverTime, Waited
  <2> QED
    BY <1>0, <2>1, CloseWf, WfReplaced
<1>7. CASE FinishTurn
  BY <1>7 DEF FinishTurn, WfInv, Open, AcceptedNotLost
<1>8. CASE TurnOver
  BY <1>8, TurnOverWf DEF TurnOver, WfInv, Open, AcceptedNotLost, Closing
<1>9. CASE Finishing
  <2>1. UNCHANGED <<taken, ended>> /\ wf.stage = "finishing" /\ Open /\ None \notin taken
    BY <1>9, TurnAssumption DEF Finishing, Typed
  <2>2. CASE wf' = Closed
    BY <2>1, <2>2, TurnAssumption DEF Closed, WfInv, Open, AcceptedNotLost
  <2>3. CASE wf.msg # None
    BY <1>0, <1>9, <2>1, <2>3, FinishingWf DEF WfInv, Open, AcceptedNotLost
  <2>4. CASE wf.msg = None /\ wf' # Closed
    <3>1. wf'.up = "open" /\ wf'.msg = None /\ wf'.cur = None /\ wf'.stage = "idle"
          /\ wf'.cycle = 0 /\ wf'.budget = 0 /\ wf'.kept = FALSE
      BY <1>9, <2>4, FinishingWf
    <3>2. wf.cur = None /\ taken \subseteq ended
      BY <2>1, <2>4 DEF WfInv, AcceptedNotLost
    <3> QED
      BY <2>1, <3>1, <3>2, TurnAssumption DEF WfInv, Open, AcceptedNotLost
  <2> QED
    BY <2>2, <2>3, <2>4
<1> QED
  BY <1>1, <1>2, <1>3, <1>4, <1>5, <1>6, <1>7, <1>8, <1>9 DEF Workflow

LEMMA WfStepRest ==
  ASSUME Typed, WfInv, (\E p \in places : Acts(p) \/ Say(p) \/ Result(p)) \/ Looking
  PROVE  WfInv'
<1>0. wf \in Workflows
  BY DEF Typed
<1>1. ASSUME NEW p \in places, Acts(p) \/ Say(p) PROVE WfInv'
  <2>1. UNCHANGED <<wf, taken, ended>>
    BY <1>1, ActMoves DEF Say, placeVars
  <2> QED
    BY <2>1, WfKept
<1>2. ASSUME NEW p \in places, Result(p) PROVE WfInv'
  <2>1. UNCHANGED <<taken, ended>> /\ wf.stage = "placed" /\ Open
    BY <1>2 DEF Result, Waited
  <2>2. CASE Replaced(wf, wf')
    BY <2>1, <2>2, WfReplaced
  <2>3. CASE ~wf.stop /\ wf' = [wf EXCEPT !.stage = "released", !.place = 0, !.rel = @ + 1]
    <3>1. wf.rel \in Nat
      BY <1>0 DEF Workflows
    <3> QED
      BY <1>0, <2>1, <2>3, <3>1, ReleasedWf DEF WfInv, Open, AcceptedNotLost
  <2> QED
    BY <1>2, <2>2, <2>3, ResultWf
<1>3. CASE Looking
  <2>1. CASE StopSignals /\ wf' = Interrupted(wf)
    <3>1. UNCHANGED <<taken, ended>>
      BY <2>1 DEF StopSignals
    <3>2. wf'.up = wf.up /\ wf'.msg = wf.msg /\ wf'.cur = wf.cur
      BY <2>1, InterruptedWf
    <3>3. AcceptedNotLost'
      BY <3>1, <3>2 DEF WfInv, AcceptedNotLost, Open
    <3>4. CASE /\ wf'.stage = wf.stage /\ wf'.rel = wf.rel
               /\ wf'.cycle = wf.cycle /\ wf'.budget = wf.budget /\ wf'.kept = wf.kept
               /\ (wf'.stop = wf.stop \/ wf.stage \notin {"placing", "released"})
      BY <3>1, <3>2, <3>3, <3>4 DEF WfInv, Open
    <3>5. CASE /\ wf'.stage = "closing" /\ wf'.cycle = 0 /\ wf'.budget = 0 /\ ~wf'.kept
               /\ wf.stage \in {"placing", "released"}
      BY <3>1, <3>2, <3>3, <3>5, TurnAssumption DEF WfInv, Open
    <3> QED
      BY <2>1, <3>4, <3>5, InterruptedWf
  <2>2. CASE MarkDone /\ wf' = [wf EXCEPT !.end = TRUE]
    <3>1. UNCHANGED <<taken, ended>>
      BY <2>2 DEF MarkDone
    <3> QED
      BY <1>0, <2>2, <3>1, EndWf DEF WfInv, Open, AcceptedNotLost
  <2>3. CASE Terminate
    BY <2>3, TurnAssumption DEF Terminate, Closed, WfInv, Open, AcceptedNotLost
  <2>4. CASE UNCHANGED <<wf, taken, ended>>
    BY <2>4, WfKept
  <2> QED
    BY <1>3, <2>1, <2>2, <2>3, <2>4 DEF Looking, StopReads, StopFlags, StopSignals, SweepReads,
       MarkDone, Describe, EndLost
<1> QED
  BY <1>1, <1>2, <1>3

LEMMA WfStep == Typed /\ WfInv /\ [Next]_vars => WfInv'
<1> SUFFICES ASSUME Typed, WfInv, [Next]_vars PROVE WfInv'
  OBVIOUS
<1>1. CASE UNCHANGED vars
  BY <1>1, WfKept DEF vars
<1> QED
  BY <1>1, NextCases, WfStepSending, WfStepWorkflow, WfStepRest

LEMMA InitWf == Init => Typed /\ WfInv
<1> SUFFICES ASSUME Init PROVE Typed /\ WfInv
  OBVIOUS
<1>1. wf = [Closed EXCEPT !.up = "none"]
  BY DEF Init
<1>2. wf \in Workflows /\ wf.up = "none" /\ wf.msg = None /\ wf.cur = None /\ wf.stage = "idle"
      /\ wf.cycle = 0 /\ wf.budget = 0 /\ wf.kept = FALSE
  BY <1>1 DEF Closed, Workflows, Stages
<1>3. row \in Rows /\ looks \in [{"sweep", "stop"} -> Looks] /\ log \in Seq(Entries)
      /\ send \in [Turns -> Sends] /\ faults \in 0..MaxFaults
  BY TurnAssumption DEF Init, Rows, NoLook, Looks, Sends
<1>4. places = {} /\ made = 0 /\ said = {} /\ taken = {} /\ ended = {} /\ outlived = {}
  BY DEF Init
<1> QED
  BY <1>2, <1>3, <1>4, TurnAssumption DEF Typed, WfInv, Open, AcceptedNotLost

\* A message the workflow accepted is pending, running or ended, for any number of turns,
\* placements, Stops, terminates and runs.
THEOREM AcceptedHolds == Spec => []AcceptedNotLost
<1>1. Spec => [](Typed /\ WfInv)
  BY InitWf, TypedStep, WfStep, PTL DEF Spec
<1>2. WfInv => AcceptedNotLost
  BY DEF WfInv
<1> QED
  BY <1>1, <1>2, PTL

\* A stopped turn is never placed again: no step that leaves it running numbers a placement.
THEOREM StoppedStaysHolds == Spec => StoppedStays
<1>1. Spec => [](Typed /\ WfInv)
  BY InitWf, TypedStep, WfStep, PTL DEF Spec
<1>2. ASSUME Typed, WfInv, [Next]_vars, wf.stop, wf.cur # None
      PROVE  UNCHANGED made
  <2>1. ~Take /\ ~Place
    BY <1>2 DEF Take, Place, WfInv
  <2>2. ASSUME NEW p \in places, Acts(p) PROVE UNCHANGED made
    BY <1>2, <2>2, ActMoves DEF placeVars
  <2> QED
    BY <1>2, <2>1, <2>2, NextCases DEF Sending, Claim, Ask, Deliver, GiveBack, GiveUp, SenderDies,
       Workflow, ReadSettings, Lost, Continue, FinishTurn, TurnOver, Finishing, AcquireFails, OverTime,
       Say, Result, Looking, StopReads, StopFlags, StopSignals, SweepReads, MarkDone, Terminate,
       Describe, EndLost, vars
<1>3. Typed /\ WfInv /\ [Next]_vars => [wf.stop /\ wf.cur # None /\ wf'.cur = wf.cur => made' = made]_vars
  BY <1>2
<1> QED
  BY <1>1, <1>3, PTL DEF Spec, StoppedStays

(***************************************************************************)
(* A turn's send, its row and the looks at it                              *)
(***************************************************************************)
LEMMA LoggedLooks ==
  ASSUME Typed, Logged
  PROVE  DOMAIN looks' = DOMAIN looks /\ \A a \in DOMAIN looks : looks'[a].fresh = FALSE
BY StaleTyped DEF Typed, Logged

LEMMA LogsLookInv ==
  ASSUME Typed, Logged
  PROVE  LookInv'
BY LoggedLooks DEF LookInv

LEMMA SendStepSending ==
  ASSUME Typed, Typed', WfInv, SendInv, LookInv, NEW t \in Turns, Sending(t) \/ GiveUp(t) \/ SenderDies(t)
  PROVE  SendInv' /\ LookInv'
<1>0. None \notin Turns /\ send \in [Turns -> Sends] /\ taken \subseteq Turns
  BY TurnAssumption DEF Typed
<1>1. CASE Claim(t)
  <2>1. row'.turn = t /\ send' = [send EXCEPT ![t] = "claimed"] /\ row.turn = None
        /\ send[t] = "none" /\ UNCHANGED <<wf, looks, said, taken, ended>>
    BY <1>1 DEF Claim, Typed, Rows
  <2>2. t \notin taken
    BY <2>1 DEF SendInv
  <2>3. SendInv'
    BY <1>0, <2>1, <2>2 DEF SendInv
  <2>4. LookInv'
    BY <2>1 DEF LookInv
  <2> QED
    BY <2>3, <2>4
<1>2. CASE Ask(t)
  <2>1. SendInv'
    BY <1>0, <1>2 DEF Ask, SendInv
  <2> QED
    BY <1>2, <2>1, LogsLookInv DEF Ask
<1>3. CASE GiveUp(t) \/ SenderDies(t)
  <2>1. send' \in {[send EXCEPT ![t] = "unknown"], [send EXCEPT ![t] = "over"]}
        /\ UNCHANGED <<row, wf, looks, said, taken, ended>>
    BY <1>3 DEF GiveUp, SenderDies
  <2>2. send[t] \in {"asked", "claimed", "refused"}
    BY <1>3 DEF GiveUp, SenderDies
  <2>3. SendInv'
    BY <1>0, <2>1, <2>2 DEF SendInv
  <2>4. LookInv'
    BY <1>0, <2>1 DEF LookInv, Typed, Rows
  <2> QED
    BY <2>3, <2>4
<1>4. CASE GiveBack(t)
  <2>1. send' = [send EXCEPT ![t] = "over"] /\ row'.turn = None /\ send[t] = "refused"
        /\ UNCHANGED <<wf, said, taken, ended>>
    BY <1>4, IdleTyped DEF GiveBack, Typed
  <2>2. SendInv'
    BY <1>0, <2>1 DEF SendInv, Typed
  <2>3. CASE row.turn # None
    BY <1>4, <2>3, LogsLookInv, <2>2 DEF GiveBack
  <2>4. CASE row.turn = None
    BY <1>4, <2>1, <2>2, <2>4 DEF GiveBack, LookInv
  <2> QED
    BY <2>3, <2>4
<1>5. CASE Deliver(t)
  <2>0. UNCHANGED <<row, looks, said, ended>> /\ send[t] \in {"asked", "unknown"} /\ t \notin taken
    BY <1>5 DEF Deliver, SendInv
  <2>1. CASE UNCHANGED <<wf, taken>> /\ send' = [send EXCEPT ![t] = IF @ = "asked" THEN "refused" ELSE "over"]
    <3>1. send'[t] \in {"refused", "over"} /\ (send'[t] = "refused" => send[t] = "asked")
          /\ \A u \in Turns \ {t} : send'[u] = send[u]
      BY <1>0, <2>0, <2>1
    <3>2. SendInv'
      BY <1>0, <2>0, <2>1, <3>1 DEF SendInv
    <3>3. LookInv'
      BY <1>0, <2>0, <2>1, <3>1 DEF LookInv, Typed, Rows
    <3> QED
      BY <3>2, <3>3
  <2>2. CASE taken' = taken \cup {t} /\ send' = [send EXCEPT ![t] = "over"] /\ wf'.msg = t
             /\ wf'.up = "open" /\ wf'.cur = wf.cur /\ wf.up # "closed"
    <3>1. t \notin ended \cup said /\ t # wf.cur
      BY <1>0, <2>0 DEF SendInv
    <3>2. SendInv'
      BY <1>0, <2>0, <2>2, <3>1 DEF SendInv
    <3>3. LookInv'
      BY <1>0, <2>0, <2>2 DEF LookInv, Typed, Rows
    <3> QED
      BY <3>2, <3>3
  <2>3. Closed.cur = None /\ (wf.up = "none" => wf.cur = None) /\ wf \in Workflows
    BY DEF Closed, WfInv, Open, Typed
  <2>4. wf' = [wf EXCEPT !.msg = t] => wf'.cur = wf.cur
    BY <2>3 DEF Workflows
  <2>5. wf' = [Closed EXCEPT !.up = "open", !.msg = t] => wf'.cur = None
    BY DEF Closed
  <2> QED
    BY <1>5, <2>1, <2>2, <2>3, <2>4, <2>5, DeliverWf DEF Open
<1> QED
  BY <1>1, <1>2, <1>3, <1>4, <1>5 DEF Sending

\* The workflow's own steps: its messages and turns are among those it had, and it never
\* opens again.
LEMMA SendKept ==
  ASSUME Typed, SendInv, LookInv, UNCHANGED <<row, send, said, taken, looks, ended>>,
         wf'.msg \in {wf.msg, None}, wf'.cur \in {wf.cur, wf.msg, None},
         wf'.msg # None => wf'.cur \in {wf.cur, None}, wf.up = "closed" => wf'.up = "closed"
  PROVE  SendInv' /\ LookInv'
<1>1. SendInv'
  BY DEF SendInv
<1>2. LookInv'
  BY DEF LookInv
<1> QED
  BY <1>1, <1>2

LEMMA SendStepWorkflow ==
  ASSUME Typed, Typed', WfInv, SendInv, LookInv, Workflow \/ AcquireFails \/ OverTime
  PROVE  SendInv' /\ LookInv'
<1>0. wf \in Workflows
  BY DEF Typed
<1>1. CASE ~FinishTurn
  <2>1. UNCHANGED <<row, send, said, taken, looks, ended>> /\ Open
    BY <1>1 DEF Workflow, Take, ReadSettings, Place, Lost, Continue, TurnOver, Finishing,
       AcquireFails, OverTime
  <2>2. /\ wf'.msg \in {wf.msg, None} /\ wf'.cur \in {wf.cur, wf.msg, None}
        /\ wf'.msg # None => wf'.cur \in {wf.cur, None}
    <3>1. CASE Take
      BY <1>0, <3>1, TakeWf DEF Take, Closed
    <3>2. CASE ReadSettings \/ Continue
      <4>1. wf' \in {Close(wf), Placing(wf)}
        BY <3>2 DEF ReadSettings, Continue
      <4>2. Close(wf).msg = wf.msg /\ Close(wf).cur = wf.cur
        BY <1>0, CloseWf DEF Replaced
      <4>3. Placing(wf).msg = wf.msg /\ Placing(wf).cur = wf.cur
        BY <1>0, PlacingWf
      <4> QED
        BY <4>1, <4>2, <4>3
    <3>3. CASE Place
      BY <3>3, PlaceWf
    <3>4. CASE Lost \/ AcquireFails
      <4>1. wf' = Moved(wf, FALSE) /\ wf.stage \in {"placing", "placed"}
        BY <3>4 DEF Lost, AcquireFails
      <4> QED
        BY <1>0, <4>1, MovedWf DEF Replaced
    <3>5. CASE OverTime
      BY <1>0, <3>5, CloseWf DEF OverTime, Replaced
    <3>6. CASE TurnOver
      BY <3>6, TurnOverWf
    <3>7. CASE Finishing
      <4>1. Closed.msg = None /\ Closed.cur = None
        BY DEF Closed
      <4> QED
        BY <3>7, <4>1, FinishingWf
    <3> QED
      BY <1>1, <3>1, <3>2, <3>3, <3>4, <3>5, <3>6, <3>7 DEF Workflow
  <2> QED
    BY <2>1, <2>2, SendKept DEF Open
<1>2. CASE FinishTurn
  <2>1. wf.cur \in taken /\ ended' = ended \cup {wf.cur} /\ said' \subseteq said
        /\ UNCHANGED <<wf, send, taken>>
    BY <1>0, <1>2 DEF FinishTurn, WfInv, SendInv, Closing
  <2>2. wf.cur # wf.msg
    BY <1>0, <1>2 DEF FinishTurn, WfInv, SendInv, Closing
  <2>3. send[wf.cur] = "over" /\ wf.cur \in Turns
    BY <2>1 DEF SendInv, Typed
  <2>4. CASE row.turn = wf.cur
    <3>1. row'.turn = None /\ Logged
      BY <1>2, <2>4, IdleTyped DEF FinishTurn, Typed, Rows
    <3>2. SendInv'
      BY <2>1, <2>2, <2>3, <2>4, <3>1, TurnAssumption DEF SendInv, Typed
    <3> QED
      BY <3>1, <3>2, LogsLookInv
  <2>5. CASE row.turn # wf.cur
    <3>1. UNCHANGED <<row, looks>>
      BY <1>2, <2>5 DEF FinishTurn
    <3>2. SendInv'
      BY <2>1, <2>2, <2>5, <3>1 DEF SendInv
    <3>3. LookInv'
      BY <2>1, <3>1 DEF LookInv
    <3> QED
      BY <3>2, <3>3
  <2> QED
    BY <2>4, <2>5
<1> QED
  BY <1>1, <1>2

LEMMA SendStepPlacement ==
  ASSUME Typed, Typed', WfInv, SendInv, LookInv, \A q \in places : q.turn \in taken /\ q.turn # wf.msg,
         NEW p \in places, Acts(p) \/ Say(p) \/ Result(p)
  PROVE  SendInv' /\ LookInv'
<1>0. wf \in Workflows
  BY DEF Typed
<1>1. CASE Acts(p)
  <2>1. UNCHANGED <<send, wf, taken, ended>>
    BY <1>1, ActMoves DEF placeVars
  <2>2. UNCHANGED <<looks, said>> /\ row'.turn = row.turn
    <3>1. CASE ClaimTurn(p)
      BY <3>1, ClaimTurnMoves DEF ClaimTurn
    <3>2. CASE ~ClaimTurn(p)
      BY <1>1, <3>2, ChooseMoves, LandMoves, LetGoMoves, ReleaseMoves, QuitMoves DEF Acts
    <3> QED
      BY <3>1, <3>2
  <2>3. SendInv'
    BY <2>1, <2>2 DEF SendInv
  <2>4. LookInv'
    BY <2>1, <2>2 DEF LookInv
  <2> QED
    BY <2>3, <2>4
<1>2. CASE Say(p)
  <2>1. UNCHANGED <<row, send, wf, taken, ended>> /\ said' = said \cup {p.turn} /\ Logged
    BY <1>2 DEF Say
  <2>2. SendInv'
    BY <2>1 DEF SendInv
  <2> QED
    BY <2>1, <2>2, LogsLookInv
<1>3. CASE Result(p)
  <2>1. UNCHANGED <<row, send, said, taken, looks, ended>> /\ Open
    BY <1>3 DEF Result
  <2>2. wf'.msg = wf.msg /\ wf'.cur = wf.cur
    BY <1>0, <1>3, ResultWf, ReleasedWf DEF Replaced
  <2> QED
    BY <2>1, <2>2, SendKept DEF Open
<1> QED
  BY <1>1, <1>2, <1>3

LEMMA SendStepLooking ==
  ASSUME Typed, Typed', WfInv, SendInv, LookInv, Looking
  PROVE  SendInv' /\ LookInv'
<1>0. wf \in Workflows /\ None \notin Turns /\ ended \subseteq Turns /\ NoLook.fresh = FALSE
      /\ DOMAIN looks = {"sweep", "stop"}
  BY TurnAssumption DEF Typed, NoLook
<1>1. ASSUME NEW a \in DOMAIN looks, NEW at \in {"read", "gone"}, NEW settled \in BOOLEAN,
             Look(a, at, settled), row.turn # None, settled => Quiet,
             UNCHANGED <<row, send, wf, said, taken, ended>>
      PROVE  SendInv' /\ LookInv'
  <2>1. SendInv'
    BY <1>1 DEF SendInv
  <2>2. looks' = [looks EXCEPT ![a] = [at |-> at, fresh |-> TRUE, state |-> None, settled |-> settled]]
    BY <1>1 DEF Look
  <2>3. \A b \in DOMAIN looks' : looks'[b].fresh =>
          (b # a /\ looks'[b] = looks[b]) \/ (looks'[b].at = at /\ looks'[b].settled = settled)
    BY <2>2
  <2>4. LookInv'
    BY <1>1, <2>2, <2>3 DEF LookInv, Quiet
  <2> QED
    BY <2>1, <2>4
<1>2. CASE StopReads
  BY <1>0, <1>1, <1>2 DEF StopReads, Quiet
<1>3. CASE SweepReads
  BY <1>0, <1>1, <1>3 DEF SweepReads, Quiet
<1>4. CASE StopFlags
  <2>1. row'.turn = row.turn /\ UNCHANGED <<send, wf, said, taken, ended>>
    BY <1>4 DEF StopFlags, Typed, Rows
  <2>2. DOMAIN looks' = DOMAIN looks /\ \A a \in DOMAIN looks : looks'[a].fresh = looks[a].fresh
        /\ looks'[a].settled = looks[a].settled /\ (looks'[a].at = looks[a].at \/ looks'[a].at = "flagged")
    BY <1>0, <1>4 DEF StopFlags, Typed, Looks
  <2>3. SendInv'
    BY <2>1 DEF SendInv
  <2>4. LookInv'
    BY <2>1, <2>2 DEF LookInv
  <2> QED
    BY <2>3, <2>4
<1>5. CASE StopSignals
  <2>1. UNCHANGED <<row, send, said, taken, ended>> /\ wf'.msg = wf.msg /\ wf'.cur = wf.cur /\ wf'.up = wf.up
    BY <1>5, InterruptedWf DEF StopSignals
  <2>2. DOMAIN looks' = DOMAIN looks /\ \A a \in DOMAIN looks : looks'[a].fresh =>
          looks[a].fresh /\ looks'[a].settled = looks[a].settled
          /\ (looks'[a].at = looks[a].at \/ looks'[a].at = "gone")
    BY <1>0, <1>5 DEF StopSignals, Typed, Looks
  <2>3. SendInv'
    BY <2>1 DEF SendInv
  <2>4. LookInv'
    BY <2>1, <2>2 DEF LookInv
  <2> QED
    BY <2>3, <2>4
<1>6. ASSUME NEW a \in DOMAIN looks, Describe(a) PROVE SendInv' /\ LookInv'
  <2>1. UNCHANGED <<row, send, wf, said, taken, ended>>
    BY <1>6 DEF Describe
  <2>2. DOMAIN looks' = DOMAIN looks /\ \A b \in DOMAIN looks : looks'[b].fresh =>
          looks[b].fresh /\ looks'[b].settled = looks[b].settled
          /\ (looks'[b].at = looks[b].at \/ (State # "open" /\ (State = "closed" \/ looks[b].settled)))
    BY <1>0, <1>6 DEF Describe, Typed, Looks
  <2>3. SendInv'
    BY <2>1 DEF SendInv
  <2>4. ASSUME State # "open", wf.up # "closed", row.turn # None PROVE row.turn \notin said
    <3>1. wf.up = "none" \/ (Open /\ ~InTurn)
      BY <1>0, <2>4 DEF State, Workflows, Open
    <3>2. said \subseteq ended
      BY <1>0, <3>1 DEF SendInv, WfInv, AcceptedNotLost, InTurn, Typed
    <3> QED
      BY <3>2 DEF SendInv
  <2>5. LookInv'
    BY <2>1, <2>2, <2>4 DEF LookInv, State
  <2> QED
    BY <2>3, <2>5
<1>7. ASSUME NEW a \in DOMAIN looks, EndLost(a) PROVE SendInv' /\ LookInv'
  <2>1. UNCHANGED <<send, wf, said, taken, ended>> /\ looks[a].at = "described"
    BY <1>7 DEF EndLost
  <2>2. CASE looks[a].fresh /\ row.turn # None
    <3>1. row'.turn = None /\ \A b \in DOMAIN looks' : looks'[b].fresh = FALSE
      <4>1. row'.turn = None
        BY <1>7, <2>2, IdleTyped DEF EndLost, Typed
      <4>2. looks' = [b \in DOMAIN looks |-> IF b = a THEN NoLook ELSE Stale(looks[b])]
        BY <1>7, <2>2 DEF EndLost
      <4>3. \A b \in DOMAIN looks : Stale(looks[b]).fresh = FALSE
        BY StaleTyped DEF Typed
      <4> QED
        BY <1>0, <4>1, <4>2, <4>3
    <3>2. wf.up # "closed" => send[row.turn] \notin {"claimed", "asked", "refused"}
      BY <2>1, <2>2 DEF LookInv
    <3>3. SendInv'
      BY <1>0, <2>1, <3>1, <3>2 DEF SendInv
    <3> QED
      BY <3>1, <3>3 DEF LookInv
  <2>3. CASE ~(looks[a].fresh /\ row.turn # None)
    <3>1. UNCHANGED row /\ looks' = [looks EXCEPT ![a] = NoLook]
      BY <1>7, <2>3 DEF EndLost
    <3>2. SendInv'
      BY <2>1, <3>1 DEF SendInv
    <3>3. LookInv'
      BY <1>0, <2>1, <3>1 DEF LookInv
    <3> QED
      BY <3>2, <3>3
  <2> QED
    BY <2>2, <2>3
<1>8. CASE MarkDone
  <2>1. row'.turn = row.turn /\ UNCHANGED <<send, said, taken, ended>> /\ Logged
    BY <1>8 DEF MarkDone, Typed, Rows
  <2>2. wf'.msg = wf.msg /\ wf'.cur = wf.cur /\ wf'.up = wf.up
    BY <1>0, <1>8, EndWf DEF MarkDone
  <2>3. SendInv'
    BY <2>1, <2>2 DEF SendInv
  <2> QED
    BY <2>1, <2>3, LogsLookInv
<1>9. CASE Terminate
  <2>1. UNCHANGED <<row, send, said, taken, looks, ended>> /\ Open
        /\ wf'.msg = None /\ wf'.cur = None
    BY <1>9 DEF Terminate, Closed
  <2> QED
    BY <2>1, SendKept DEF Open
<1> QED
  BY <1>2, <1>3, <1>4, <1>5, <1>6, <1>7, <1>8, <1>9 DEF Looking

(***************************************************************************)
(* Steps in which no placement starts or moves                             *)
(***************************************************************************)
\* The workflow as it goes on: between turns or over, as it was, with its next message, or
\* with its turn on its way to a placement, again after a lost one or a release.
WfCalm ==
  \/ wf'.stage \in {"idle", "closing", "finishing"}
  \/ /\ wf'.stage = wf.stage /\ wf'.cur = wf.cur /\ wf'.rel = wf.rel /\ wf'.again = wf.again
     /\ wf'.run = wf.run /\ wf'.cycle = wf.cycle /\ wf'.place = wf.place
  \/ wf'.stage = "starting" /\ wf'.cur = wf.msg
  \/ /\ wf'.stage = "placing" /\ wf'.cur = wf.cur /\ wf'.rel = wf.rel
     /\ \/ wf.stage = "starting"
        \/ wf.stage = "released" /\ wf.rel > 0
        \/ wf.stage \in {"placing", "placed"} /\ wf'.again
  \/ wf.stage = "placed" /\ wf'.stage = "released" /\ wf'.cur = wf.cur /\ wf'.rel = wf.rel + 1

\* What the row says of its holder and the transcript stay, and the row is let go at most, or
\* taken by a turn the workflow never had.
Calm ==
  /\ places' \subseteq places /\ (made' = made \/ places = {})
  /\ UNCHANGED <<log, outlived>>
  /\ row'.att = row.att /\ row'.key = row.key /\ row'.mark = row.mark
  /\ row'.turn \in {row.turn, None} \/ row'.turn \notin taken
  /\ taken \subseteq taken'
  /\ wf'.msg \in {wf.msg, None} \/ wf'.msg \notin taken
  /\ WfCalm

LEMMA CalmSending ==
  ASSUME Typed, SendInv, NEW t \in Turns, Sending(t) \/ GiveUp(t) \/ SenderDies(t)
  PROVE  Calm
<1>1. CASE ~Deliver(t)
  <2>1. UNCHANGED <<wf, taken, places, made, log, outlived>>
    BY <1>1 DEF Sending, Claim, Ask, GiveBack, GiveUp, SenderDies
  <2>2. /\ row'.att = row.att /\ row'.key = row.key /\ row'.mark = row.mark
        /\ row'.turn \in {row.turn, None} \/ row'.turn \notin taken
    <3>1. CASE Claim(t)
      BY <3>1 DEF Claim, Typed, Rows, SendInv
    <3>2. CASE GiveBack(t)
      BY <3>2, IdleTyped DEF GiveBack, Typed
    <3>3. CASE ~Claim(t) /\ ~GiveBack(t)
      BY <1>1, <3>3 DEF Sending, Ask, GiveUp, SenderDies
    <3> QED
      BY <3>1, <3>2, <3>3
  <2> QED
    BY <2>1, <2>2 DEF Calm, WfCalm
<1>2. CASE Deliver(t)
  <2>1. UNCHANGED <<row, places, made, log, outlived>> /\ taken \subseteq taken' /\ t \notin taken
    BY <1>2 DEF Deliver, SendInv
  <2>2. CASE UNCHANGED wf
    BY <2>1, <2>2 DEF Calm, WfCalm
  <2>3. CASE wf' = [wf EXCEPT !.msg = t]
    BY <2>1, <2>3 DEF Calm, WfCalm, Typed, Workflows
  <2>4. CASE wf' = [Closed EXCEPT !.up = "open", !.msg = t]
    BY <2>1, <2>4 DEF Calm, WfCalm, Closed
  <2> QED
    BY <1>2, <2>2, <2>3, <2>4, DeliverWf
<1> QED
  BY <1>1, <1>2

\* A turn moved to another placement, or over.
LEMMA CalmMoved ==
  ASSUME Replaced(wf, wf'), wf.stage \in {"placing", "placed"} \/ wf'.stage = "closing"
  PROVE  WfCalm /\ wf'.msg = wf.msg
BY DEF Replaced, WfCalm

LEMMA CalmWorkflow ==
  ASSUME Typed, WfInv, Workflow \/ AcquireFails \/ OverTime, ~Place
  PROVE  Calm
<1>0. wf \in Workflows
  BY DEF Typed
<1>1. /\ UNCHANGED <<places, log, outlived, taken>> /\ (made' = made \/ places = {})
      /\ row'.att = row.att /\ row'.key = row.key /\ row'.mark = row.mark
      /\ row'.turn \in {row.turn, None}
  <2>1. CASE FinishTurn
    <3>1. Idle(row) \in Rows /\ Idle(row).turn = None /\ Idle(row).att = row.att
          /\ Idle(row).key = row.key /\ Idle(row).mark = row.mark
      BY IdleTyped DEF Typed
    <3> QED
      BY <2>1, <3>1 DEF FinishTurn, Rows
  <2>2. CASE ~FinishTurn
    BY <2>2 DEF Workflow, Take, ReadSettings, Lost, Continue, TurnOver, Finishing, AcquireFails, OverTime
  <2> QED
    BY <2>1, <2>2
<1>2. WfCalm /\ wf'.msg \in {wf.msg, None}
  <2>1. CASE Take
    BY <1>0, <2>1, TakeWf DEF Take, Closed, WfCalm
  <2>2. CASE (ReadSettings /\ wf.stop) \/ OverTime
    <3>1. wf' = Close(wf)
      BY <2>2 DEF ReadSettings, OverTime
    <3> QED
      BY <1>0, <3>1, CloseWf, CalmMoved
  <2>3. CASE (ReadSettings /\ ~wf.stop) \/ Continue
    <3>1. wf' = Placing(wf) /\ (wf.stage = "starting" \/ (wf.stage = "released" /\ wf.rel > 0))
      BY <2>3 DEF ReadSettings, Continue, WfInv
    <3> QED
      BY <1>0, <3>1, PlacingWf DEF WfCalm
  <2>4. CASE Lost \/ AcquireFails
    <3>1. wf' = Moved(wf, FALSE) /\ wf.stage \in {"placing", "placed"}
      BY <2>4 DEF Lost, AcquireFails
    <3> QED
      BY <1>0, <3>1, MovedWf, CalmMoved
  <2>5. CASE FinishTurn
    BY <2>5 DEF FinishTurn, WfCalm
  <2>6. CASE TurnOver
    BY <2>6, TurnOverWf DEF WfCalm
  <2>7. CASE Finishing
    <3>1. Closed.msg = None /\ Closed.stage = "idle"
      BY DEF Closed
    <3>2. wf'.stage = "idle" /\ wf'.msg \in {wf.msg, None}
      BY <2>7, <3>1, FinishingWf
    <3> QED
      BY <3>2 DEF WfCalm
  <2> QED
    BY <2>1, <2>2, <2>3, <2>4, <2>5, <2>6, <2>7 DEF Workflow
<1> QED
  BY <1>1, <1>2 DEF Calm

LEMMA CalmLooking ==
  ASSUME Typed, Looking
  PROVE  Calm
<1>0. wf \in Workflows
  BY DEF Typed
<1>1. UNCHANGED <<places, made, log, outlived, taken>>
  BY DEF Looking, StopReads, StopFlags, StopSignals, SweepReads, MarkDone, Terminate, Describe, EndLost
<1>2. /\ row'.att = row.att /\ row'.key = row.key /\ row'.mark = row.mark
      /\ row'.turn \in {row.turn, None}
  <2>1. CASE StopFlags \/ MarkDone
    BY <2>1 DEF StopFlags, MarkDone, Typed, Rows
  <2>2. ASSUME NEW a \in DOMAIN looks, EndLost(a) 
        PROVE  /\ row'.att = row.att /\ row'.key = row.key /\ row'.mark = row.mark
               /\ row'.turn \in {row.turn, None}
    BY <2>2, IdleTyped DEF EndLost, Typed
  <2>3. CASE UNCHANGED row
    BY <2>3
  <2> QED
    BY <2>1, <2>2, <2>3 DEF Looking, StopReads, StopSignals, SweepReads, Terminate, Describe
<1>3. WfCalm /\ wf'.msg \in {wf.msg, None}
  <2>1. CASE UNCHANGED wf
    BY <2>1 DEF WfCalm
  <2>2. CASE wf' = Interrupted(wf)
    <3>1. wf'.run = wf.run /\ wf'.msg = wf.msg /\ wf'.cur = wf.cur
      BY <2>2, InterruptedWf
    <3>2. CASE /\ wf'.stage = wf.stage /\ wf'.place = wf.place /\ wf'.again = wf.again
               /\ wf'.rel = wf.rel /\ wf'.cycle = wf.cycle
      BY <3>1, <3>2 DEF WfCalm
    <3>3. CASE wf'.stage = "closing"
      BY <3>1, <3>3 DEF WfCalm
    <3> QED
      BY <2>2, <3>2, <3>3, InterruptedWf
  <2>3. CASE wf' = [wf EXCEPT !.end = TRUE]
    BY <1>0, <2>3, EndWf DEF WfCalm
  <2>4. CASE wf' = Closed
    BY <2>4 DEF Closed, WfCalm
  <2> QED
    BY <2>1, <2>2, <2>3, <2>4 DEF Looking, StopReads, StopFlags, StopSignals, SweepReads, MarkDone,
       Terminate, Describe, EndLost
<1> QED
  BY <1>1, <1>2, <1>3 DEF Calm

LEMMA CalmResult ==
  ASSUME Typed, NEW p \in places, Result(p) \/ Say(p)
  PROVE  Calm
<1>1. CASE Say(p)
  BY <1>1 DEF Say, Calm, WfCalm
<1>2. CASE Result(p)
  <2>1. UNCHANGED <<row, made, log, outlived, taken>> /\ places' \subseteq places
        /\ wf.stage = "placed" /\ wf \in Workflows
    BY <1>2 DEF Result, Waited, Typed
  <2>2. CASE Replaced(wf, wf')
    BY <2>1, <2>2, CalmMoved DEF Calm
  <2>3. CASE wf' = [wf EXCEPT !.stage = "released", !.place = 0, !.rel = @ + 1]
    BY <2>1, <2>3, ReleasedWf DEF Calm, WfCalm
  <2> QED
    BY <1>2, <2>2, <2>3, ResultWf
<1> QED
  BY <1>1, <1>2

\* Every step is calm, or makes a placement, or moves one.
LEMMA StepCases ==
  ASSUME Typed, WfInv, SendInv, [Next]_vars
  PROVE  Calm \/ Place \/ \E p \in places : Acts(p)
<1>1. CASE UNCHANGED vars
  BY <1>1 DEF vars, Calm, WfCalm
<1> QED
  BY <1>1, NextCases, CalmSending, CalmWorkflow, CalmLooking, CalmResult

\* A placement's own step: it moves on as q, or it is gone, which is calm.
LEMMA ActCases ==
  ASSUME Typed, NEW p \in places, Acts(p)
  PROVE  /\ UNCHANGED <<wf, made, taken, ended>>
         /\ \/ Calm
            \/ \E q \in PlaceRecords : Moves(p, q) /\ Step(p, q)
<1>1. UNCHANGED <<wf, made, taken, ended>>
  BY ActMoves DEF placeVars
<1>2. CASE places' = places \ {p} /\ UNCHANGED <<row, log, outlived>>
  BY <1>1, <1>2 DEF Calm, WfCalm
<1>3. CASE ClaimTurn(p)
  <2>1. UNCHANGED log
    BY <1>3 DEF ClaimTurn
  <2> QED
    BY <1>1, <1>2, <1>3, <2>1, ClaimTurnMoves
<1>4. CASE Quits(p)
  BY <1>1, <1>2, <1>4, QuitMoves
<1>5. CASE Choose(p) \/ Release(p)
  BY <1>1, <1>5, ChooseMoves, ReleaseMoves
<1>6. CASE Land(p) \/ LetGo(p)
  BY <1>1, <1>6, LandMoves, LetGoMoves DEF Appends
<1> QED
  BY <1>3, <1>4, <1>5, <1>6 DEF Acts

(***************************************************************************)
(* The placements                                                          *)
(***************************************************************************)
LEMMA PlaceCalm ==
  ASSUME Typed, Typed', PlaceInv, Calm
  PROVE  PlaceInv'
<1>1. ASSUME NEW p \in places'
      PROVE  /\ p.id \in 1..made'
             /\ p.turn \in taken' /\ p.turn # wf'.msg
             /\ wf'.stage = "starting" => p.turn # wf'.cur
             /\ Waited(p)' => p.turn = wf'.cur /\ p.n = wf'.rel /\ p.att = <<wf'.run, wf'.cycle>>
             /\ wf'.stage = "released" /\ p.turn = wf'.cur => p.n < wf'.rel
             /\ wf'.stage \in {"placing", "placed"} /\ p.turn = wf'.cur => p.n <= wf'.rel
             /\ wf'.stage = "placing" /\ ~wf'.again /\ wf'.rel = 0 => p.turn # wf'.cur
  <2>0. p \in PlaceRecords /\ wf \in Workflows /\ p \in places
    BY DEF Calm, Typed
  <2>1. p \in places /\ p.turn # None /\ p.n \in Nat /\ wf.rel \in Nat
    BY <2>0, TurnAssumption DEF PlaceRecords, Workflows
  <2>2. /\ p.id \in 1..made /\ p.turn \in taken /\ p.turn # wf.msg
        /\ wf.stage = "starting" => p.turn # wf.cur
        /\ Waited(p) => p.turn = wf.cur /\ p.n = wf.rel /\ p.att = <<wf.run, wf.cycle>>
        /\ wf.stage = "released" /\ p.turn = wf.cur => p.n < wf.rel
        /\ wf.stage \in {"placing", "placed"} /\ p.turn = wf.cur => p.n <= wf.rel
        /\ wf.stage = "placing" /\ ~wf.again /\ wf.rel = 0 => p.turn # wf.cur
    BY <2>1 DEF PlaceInv
  <2>3. p.id \in 1..made' /\ p.turn \in taken' /\ p.turn # wf'.msg
    BY <2>1, <2>2 DEF Calm
  <2> QED
    BY <2>1, <2>2, <2>3 DEF Calm, WfCalm, Waited
<1>2. ASSUME NEW p \in places', NEW q \in places'
      PROVE  /\ p.id = q.id => p = q
             /\ Waited(p)' /\ p.at = "sent" /\ ~p.again /\ p.n = 0 /\ p.turn = q.turn => p = q
  <2>1. p \in places /\ q \in places /\ (Waited(p)' => Waited(p))
    BY DEF Calm, WfCalm, Waited
  <2> QED
    BY <2>1 DEF PlaceInv
<1> QED
  BY <1>1, <1>2 DEF PlaceInv

LEMMA PlaceMoves ==
  ASSUME Typed, PlaceInv, UNCHANGED <<wf, made, taken>>, NEW p \in places,
         NEW q \in PlaceRecords, Moves(p, q), Step(p, q)
  PROVE  PlaceInv'
<1>1. \A x \in places' : x = q \/ (x \in places /\ x # p)
  BY DEF Step
<1>2. q.id = p.id /\ q.turn = p.turn /\ q.n = p.n /\ q.att = p.att /\ q.at # "sent"
  BY DEF Moves
<1>3. \A x : Waited(x)' <=> Waited(x)
  BY DEF Waited
<1>4. Waited(q) <=> Waited(p)
  BY <1>2 DEF Waited
<1>5. ASSUME NEW x \in places'
      PROVE  /\ x.id \in 1..made'
             /\ x.turn \in taken' /\ x.turn # wf'.msg
             /\ wf'.stage = "starting" => x.turn # wf'.cur
             /\ Waited(x)' => x.turn = wf'.cur /\ x.n = wf'.rel /\ x.att = <<wf'.run, wf'.cycle>>
             /\ wf'.stage = "released" /\ x.turn = wf'.cur => x.n < wf'.rel
             /\ wf'.stage \in {"placing", "placed"} /\ x.turn = wf'.cur => x.n <= wf'.rel
             /\ wf'.stage = "placing" /\ ~wf'.again /\ wf'.rel = 0 => x.turn # wf'.cur
  <2>1. CASE x = q
    BY <1>2, <1>3, <1>4, <2>1 DEF PlaceInv
  <2>2. CASE x # q
    BY <1>1, <1>3, <1>5, <2>2 DEF PlaceInv
  <2> QED
    BY <2>1, <2>2
<1>6. ASSUME NEW x \in places', NEW y \in places'
      PROVE  /\ x.id = y.id => x = y
             /\ Waited(x)' /\ x.at = "sent" /\ ~x.again /\ x.n = 0 /\ x.turn = y.turn => x = y
  <2>1. CASE x = q /\ y = q
    BY <2>1
  <2>2. CASE x = q /\ y # q
    <3>1. y \in places /\ y # p
      BY <1>1, <2>2
    <3> QED
      BY <1>2, <2>2, <3>1 DEF PlaceInv
  <2>3. CASE x # q /\ y = q
    <3>1. x \in places /\ x # p
      BY <1>1, <2>3
    <3> QED
      BY <1>2, <1>3, <2>3, <3>1 DEF PlaceInv
  <2>4. CASE x # q /\ y # q
    BY <1>1, <1>3, <1>6, <2>4 DEF PlaceInv
  <2> QED
    BY <2>1, <2>2, <2>3, <2>4
<1> QED
  BY <1>5, <1>6 DEF PlaceInv

\* What a placement is as it starts.
LEMMA NewPlace ==
  ASSUME Typed, WfInv, Place
  PROVE  \E new \in PlaceRecords :
           /\ places' = places \cup {new}
           /\ new.id = made + 1 /\ new.turn = wf.cur /\ new.n = wf.rel /\ new.att = <<wf.run, wf.cycle>>
           /\ new.again = wf.again /\ new.at = "sent" /\ new.told = None
<1>1. made + 1 \in Nat /\ wf.rel \in Nat /\ wf.run \in Nat /\ wf.cycle \in Nat /\ wf.again \in BOOLEAN
      /\ wf.cur \in Turns /\ made' = made + 1
  BY DEF Typed, Workflows, WfInv, Place
<1> DEFINE new == [id |-> made', turn |-> wf.cur, n |-> wf.rel, att |-> <<wf.run, wf.cycle>>,
                   again |-> wf.again, at |-> "sent", told |-> None, mute |-> FALSE, mark |-> 0, out |-> None]
<1>2. new \in PlaceRecords
  BY <1>1 DEF PlaceRecords, Ats
<1>3. places' = places \cup {new}
  BY DEF Place
<1> QED
  BY <1>1, <1>2, <1>3

LEMMA PlacePlace ==
  ASSUME Typed, WfInv, SendInv, PlaceInv, Place
  PROVE  PlaceInv'
<1>1. PICK new \in PlaceRecords :
           /\ places' = places \cup {new}
           /\ new.id = made + 1 /\ new.turn = wf.cur /\ new.n = wf.rel /\ new.att = <<wf.run, wf.cycle>>
           /\ new.again = wf.again /\ new.at = "sent" /\ new.told = None
  BY NewPlace
<1>2. /\ wf'.run = wf.run /\ wf'.msg = wf.msg /\ wf'.cur = wf.cur /\ wf'.rel = wf.rel
      /\ wf'.cycle = wf.cycle /\ wf'.stage = "placed" /\ wf'.place = made'
  BY PlaceWf
<1>3. made \in Nat /\ made' = made + 1 /\ wf.rel \in Nat /\ UNCHANGED taken /\ wf.stage = "placing"
  BY DEF Typed, Workflows, Place
<1>4. wf.cur \in taken /\ wf.cur # wf.msg
  BY <1>3 DEF SendInv, WfInv
<1>5. ASSUME NEW x \in places PROVE x.id \in 1..made /\ x.id \in Nat /\ ~Waited(x)'
  BY <1>2, <1>3 DEF PlaceInv, Waited
<1>6. ASSUME NEW x \in places'
      PROVE  /\ x.id \in 1..made'
             /\ x.turn \in taken' /\ x.turn # wf'.msg
             /\ Waited(x)' => x.turn = wf'.cur /\ x.n = wf'.rel /\ x.att = <<wf'.run, wf'.cycle>>
             /\ x.turn = wf'.cur => x.n <= wf'.rel
  <2>1. CASE x = new
    BY <1>1, <1>2, <1>3, <1>4, <2>1
  <2>2. CASE x \in places
    BY <1>2, <1>3, <1>5, <2>2 DEF PlaceInv
  <2> QED
    BY <1>1, <1>6, <2>1, <2>2
<1>7. ASSUME NEW x \in places', NEW y \in places'
      PROVE  /\ x.id = y.id => x = y
             /\ Waited(x)' /\ x.at = "sent" /\ ~x.again /\ x.n = 0 /\ x.turn = y.turn => x = y
  <2>1. CASE x \in places /\ y \in places
    BY <1>5, <2>1 DEF PlaceInv
  <2>2. CASE x = new /\ y \in places
    <3>1. ~wf.again /\ wf.rel = 0 => y.turn # wf.cur
      BY <1>3, <2>2 DEF PlaceInv
    <3> QED
      BY <1>1, <1>3, <1>5, <2>2, <3>1
  <2>3. CASE x \in places /\ y = new
    BY <1>1, <1>3, <1>5, <2>3
  <2> QED
    BY <1>1, <1>7, <2>1, <2>2, <2>3
<1> QED
  BY <1>2, <1>6, <1>7 DEF PlaceInv

LEMMA PlaceStep ==
  ASSUME Typed, Typed', WfInv, SendInv, PlaceInv, [Next]_vars
  PROVE  PlaceInv'
BY StepCases, ActCases, PlaceCalm, PlaceMoves, PlacePlace

LEMMA SendStep ==
  ASSUME Typed, Typed', WfInv, SendInv, LookInv, PlaceInv, [Next]_vars
  PROVE  SendInv' /\ LookInv'
<1>0. \A q \in places : q.turn \in taken /\ q.turn # wf.msg
  BY DEF PlaceInv
<1>1. CASE UNCHANGED vars
  BY <1>1 DEF vars, SendInv, LookInv
<1> QED
  BY <1>0, <1>1, NextCases, SendStepSending, SendStepWorkflow, SendStepPlacement, SendStepLooking

(***************************************************************************)
(* The row's holder, and what a placement is told                          *)
(***************************************************************************)
\* The turn of a placement that has the row is the one its workflow runs.
LEMMA HeldIsCurrent ==
  ASSUME Typed, WfInv, SendInv, PlaceInv, Open, NEW q \in places, row.turn = q.turn
  PROVE  q.turn = wf.cur
<1>1. q.turn \in taken /\ q.turn # wf.msg
  BY DEF PlaceInv
<1>2. q.turn \notin ended
  BY DEF SendInv
<1> QED
  BY <1>1, <1>2 DEF WfInv, AcceptedNotLost

\* What a successful claim leaves: the row is the placement's, as far as nobody outlives it.
Claimed(p, q) ==
  /\ p.at = "sent" /\ row.turn = p.turn /\ row'.turn = p.turn
  /\ row'.att = p.att /\ row'.key = KeyOf(p)
  /\ row'.mark = (IF row.key = KeyOf(p) THEN row.mark ELSE Len(log))
  /\ Moves(p, q) /\ Step(p, q)
  /\ q.at = "claimed" /\ q.again = p.again /\ q.mark = row'.mark /\ q.told = p.told
  /\ outlived \subseteq outlived' /\ (~Waited(p) => p.turn \in outlived')
  /\ \A x \in places \ {p} : Active(x) /\ x.att = p.att => x.turn \in outlived'
  /\ UNCHANGED <<log, wf, taken>>

\* Claude Code is told q's message.
Chosen(p, q) ==
  /\ p.at = "claimed" /\ q.at = "pushed" /\ Moves(p, q) /\ Step(p, q)
  /\ q.told = IF (p.again \/ p.n > 0) /\ Landed(p) THEN "restart" ELSE "prompt"
  /\ UNCHANGED <<row, log, wf, taken, outlived>>

\* p's entry is in the transcript, and q goes on.
Appended(p, q, what) ==
  /\ ~p.mute /\ HoldsOrLast(p) /\ Moves(p, q) /\ Step(p, q) /\ q.told = p.told
  /\ \/ p.at = "pushed" /\ q.at = "working" /\ what = p.told
     \/ p.at = "letting" /\ q.at = "result" /\ what = "results"
  /\ log' = Append(log, [key |-> KeyOf(p), what |-> what])
  /\ UNCHANGED <<row, wf, taken, outlived>>

\* p goes on without a word.
Drifts(p, q) ==
  /\ Moves(p, q) /\ Step(p, q) /\ q.told = p.told
  /\ \/ q.at = "result"
     \/ q.at = "working" /\ q.mute /\ p.at = "pushed"
     \/ q.at = "letting" /\ p.at = "working" /\ q.mute = p.mute
  /\ UNCHANGED <<row, log, wf, taken, outlived>>

LEMMA ActKinds ==
  ASSUME Typed, NEW p \in places, Acts(p)
  PROVE  \/ Calm
         \/ \E q \in PlaceRecords : Claimed(p, q) \/ Chosen(p, q) \/ Drifts(p, q)
         \/ \E q \in PlaceRecords, what \in {"prompt", "restart", "results"} : Appended(p, q, what)
<1>0. UNCHANGED <<wf, made, taken>>
  BY ActMoves DEF placeVars
<1>1. CASE places' = places \ {p} /\ UNCHANGED <<row, log, outlived>>
  BY <1>0, <1>1 DEF Calm, WfCalm
<1>2. CASE ClaimTurn(p)
  <2>0. UNCHANGED log /\ p.at = "sent"
    BY <1>2 DEF ClaimTurn
  <2>1. CASE UNCHANGED <<row, outlived>>
               /\ \E q \in PlaceRecords : Moves(p, q) /\ Step(p, q) /\ q.at = "result"
                     /\ q.told = p.told /\ q.mute = p.mute
    BY <1>0, <2>0, <2>1 DEF Drifts
  <2>2. CASE outlived' = outlived \cup Outlives(p)
    <3>1. (~Waited(p) => p.turn \in outlived')
          /\ \A x \in places \ {p} : Active(x) /\ x.att = p.att => x.turn \in outlived'
      BY <2>2 DEF Outlives
    <3>2. outlived \subseteq outlived'
      BY <2>2
    <3>4. CASE /\ row.turn = p.turn
               /\ row' \in Rows /\ row'.turn = row.turn /\ row'.att = p.att /\ row'.key = KeyOf(p)
               /\ row'.mark = (IF row.key = KeyOf(p) THEN row.mark ELSE Len(log))
               /\ \E q \in PlaceRecords : Moves(p, q) /\ Step(p, q) /\ q.at = "claimed" /\ q.again = p.again
                                       /\ q.mark = row'.mark /\ q.told = p.told /\ q.mute = p.mute
      BY <1>0, <2>0, <3>1, <3>2, <3>4 DEF Claimed
    <3> QED
      BY <1>1, <1>2, <2>0, <2>1, <3>4, ClaimTurnMoves
  <2> QED
    BY <1>1, <1>2, <2>0, <2>1, <2>2, ClaimTurnMoves
<1>3. CASE Choose(p)
  BY <1>0, <1>3, ChooseMoves DEF Chosen
<1>4. CASE Land(p)
  <2>1. p.told \in {"prompt", "restart"}
    BY <1>4 DEF Land, Typed
  <2> QED
    BY <1>0, <1>4, <2>1, LandMoves DEF Appends, Appended, Drifts
<1>5. CASE LetGo(p)
  BY <1>0, <1>5, LetGoMoves DEF Appends, Appended, Drifts
<1>6. CASE Release(p)
  BY <1>0, <1>6, ReleaseMoves DEF Drifts
<1>7. CASE Quits(p)
  BY <1>0, <1>1, <1>7, QuitMoves DEF Drifts
<1> QED
  BY <1>2, <1>3, <1>4, <1>5, <1>6, <1>7 DEF Acts

LEMMA HolderStep ==
  ASSUME Typed, WfInv, SendInv, PlaceInv, HolderInv, [Next]_vars
  PROVE  HolderInv'
<1>1. CASE Calm
  BY <1>1 DEF Calm, HolderInv, Active, KeyOf
<1>2. CASE Place
  <2>1. UNCHANGED <<row, outlived>> /\ \A x \in places' : Active(x) => x \in places
    BY <1>2, NewPlace DEF Place, Active
  <2> QED
    BY <2>1 DEF HolderInv, Active, KeyOf
<1>3. ASSUME NEW p \in places, NEW q \in PlaceRecords, Claimed(p, q)
      PROVE  HolderInv'
  <2>1. \A x \in places' : x = q \/ (x \in places /\ x # p)
    BY <1>3 DEF Claimed, Step
  <2>2. \A x \in places' : Active(x) /\ x.att = row'.att /\ x # q => x.turn \in outlived'
    BY <1>3, <2>1 DEF Claimed
  <2>3. row'.key = KeyOf(q) /\ q.mark = row'.mark
    BY <1>3 DEF Claimed, Moves, KeyOf
  <2> QED
    BY <2>2, <2>3 DEF HolderInv, Active, KeyOf
<1>4. ASSUME NEW p \in places, NEW q \in PlaceRecords, Moves(p, q), Step(p, q), UNCHANGED <<row, outlived>>,
             Active(q) => q.at # "claimed" /\ Active(p)
      PROVE  HolderInv'
  <2>1. \A x \in places' : x = q \/ (x \in places /\ x # p)
    BY <1>4 DEF Step
  <2>2. q.att = p.att /\ q.turn = p.turn /\ KeyOf(q) = KeyOf(p)
    BY <1>4 DEF Moves, KeyOf
  <2>3. ASSUME NEW x \in places', Active(x), row.att = x.att, x.turn \notin outlived
        PROVE  row.key = KeyOf(x) /\ (x.at = "claimed" => x.mark = row.mark)
    BY <1>4, <2>1, <2>2, <2>3 DEF HolderInv
  <2>4. ASSUME NEW x \in places', NEW y \in places', Active(x), Active(y), row.att = x.att,
               row.att = y.att, x # y
        PROVE  x.turn \in outlived \/ y.turn \in outlived
    BY <1>4, <2>1, <2>2, <2>4 DEF HolderInv
  <2> QED
    BY <1>4, <2>3, <2>4 DEF HolderInv, Active, KeyOf
<1>5. ASSUME NEW p \in places, NEW q \in PlaceRecords, Chosen(p, q) \/ Drifts(p, q) PROVE HolderInv'
  BY <1>4, <1>5 DEF Chosen, Drifts, Active
<1>6. ASSUME NEW p \in places, NEW q \in PlaceRecords, NEW what, Appended(p, q, what) PROVE HolderInv'
  BY <1>4, <1>6 DEF Appended, Active
<1> QED
  BY <1>1, <1>2, <1>3, <1>5, <1>6, StepCases, ActKinds

\* What an append adds to the transcript.
LEMMA LogAppended ==
  ASSUME Typed, NEW e, log' = Append(log, e)
  PROVE  /\ Len(log) \in Nat /\ Len(log') = Len(log) + 1 /\ log'[Len(log) + 1] = e
         /\ \A i \in 1..Len(log) : log'[i] = log[i]
         /\ 1..Len(log') = 1..Len(log) \cup {Len(log) + 1}
<1>1. log \in Seq(Entries) /\ Len(log) \in Nat
  BY DEF Typed
<1>2. Len(log') = Len(log) + 1 /\ log'[Len(log) + 1] = e /\ \A i \in 1..Len(log) : log'[i] = log[i]
  BY <1>1
<1>3. 1..(Len(log) + 1) = 1..Len(log) \cup {Len(log) + 1}
  BY <1>1
<1> QED
  BY <1>1, <1>2, <1>3

LEMMA PromptedStays ==
  ASSUME Typed, UNCHANGED log \/ \E e : log' = Append(log, e)
  PROVE  \A k : Prompted(k) => Prompted(k)'
BY LogAppended DEF Prompted

LEMMA ToldStep ==
  ASSUME Typed, Typed', WfInv, SendInv, PlaceInv, HolderInv, ToldInv, [Next]_vars
  PROVE  ToldInv'
<1>0. None \notin Turns /\ row \in Rows /\ \A p \in places : p.turn \in taken /\ p.turn \in Turns
  BY TurnAssumption DEF PlaceInv, Typed, PlaceRecords
<1>1. CASE Calm
  <2>1. \A k : Prompted(k)' <=> Prompted(k)
    BY <1>1 DEF Calm, Prompted
  <2>2. row'.turn \in Turns /\ row'.turn \in taken => row'.turn = row.turn
    BY <1>0, <1>1 DEF Calm
  <2>3. row'.key \in Keys => row'.key.turn \in taken' /\ row'.key.turn \in taken /\ row'.key.turn \in Turns
    BY <1>1 DEF Calm, ToldInv, Keys
  <2>4. \A p \in places' : p \in places
    BY <1>1 DEF Calm
  <2>5. ASSUME NEW p \in places', Active(p), Holds(p)', p.turn \notin outlived
        PROVE  /\ p.told = "restart" => Prompted(KeyOf(p))
               /\ p.at \in {"working", "letting"} /\ ~p.mute => Prompted(KeyOf(p))
    <3>1. p \in places /\ Holds(p)
      BY <1>0, <1>1, <2>2, <2>4, <2>5 DEF Calm, Holds
    <3> QED
      BY <2>5, <3>1 DEF ToldInv
  <2>6. row'.key \in Keys /\ row'.key.turn = row'.turn /\ row'.mark < Len(log') =>
          Prompted(row'.key) \/ row'.turn \in outlived
    BY <1>1, <2>2, <2>3 DEF Calm, ToldInv
  <2> QED
    BY <1>1, <2>1, <2>3, <2>4, <2>5, <2>6 DEF Calm, ToldInv, Active, KeyOf
<1>2. CASE Place
  <2>1. UNCHANGED <<row, log, taken, outlived>> /\ \A x \in places' : x \in places \/ (x.at = "sent" /\ x.told = None)
    BY <1>2, NewPlace DEF Place
  <2> QED
    BY <2>1 DEF ToldInv, Active, Holds, KeyOf, Prompted
<1>3. ASSUME NEW p \in places, NEW q \in PlaceRecords, Claimed(p, q) PROVE ToldInv'
  <2>1. \A x \in places' : x = q \/ (x \in places /\ x # p)
    BY <1>3 DEF Claimed, Step
  <2>2. \A k : Prompted(k)' <=> Prompted(k)
    BY <1>3 DEF Claimed, Prompted
  <2>3. p.told = None /\ q.told = None /\ q.at = "claimed"
    BY <1>3 DEF Claimed, ToldInv
  <2>4. row'.key.turn = p.turn /\ p.turn = row.turn /\ row'.turn = p.turn
    BY <1>3 DEF Claimed, KeyOf, Key
  <2>5. row'.mark < Len(log') => Prompted(row'.key) \/ row'.turn \in outlived'
    <3>1. CASE row.key = KeyOf(p)
      <4>1. row.key \in Keys /\ row.key.turn = row.turn /\ row'.mark = row.mark
        BY <1>0, <1>3, <2>4, <3>1 DEF Claimed, Rows, Keys, KeyOf, Key, Typed, PlaceRecords
      <4> QED
        BY <1>3, <2>4, <3>1, <4>1 DEF ToldInv, Claimed
    <3>2. CASE row.key # KeyOf(p)
      <4>1. row'.mark = Len(log) /\ Len(log) \in Nat /\ log' = log
        BY <1>3, <3>2 DEF Claimed, Typed
      <4> QED
        BY <4>1
    <3> QED
      BY <3>1, <3>2
  <2>6. \A x \in places' : Active(x) /\ Holds(x)' /\ x.turn \notin outlived' => x = q
    BY <1>3, <2>1 DEF Claimed, Holds
  <2> QED
    BY <1>0, <1>3, <2>1, <2>2, <2>3, <2>4, <2>5, <2>6, TurnAssumption DEF ToldInv, Active, KeyOf, Claimed
<1>4. ASSUME NEW p \in places, NEW q \in PlaceRecords, Moves(p, q), Step(p, q), q.at \notin {"sent", "claimed"},
             UNCHANGED <<row, taken, outlived>>, \A k : Prompted(k) => Prompted(k)',
             row.key \in Keys /\ row.key.turn = row.turn /\ row'.mark < Len(log') =>
               Prompted(row.key)' \/ row.turn \in outlived,
             Active(q) /\ Holds(q) /\ q.turn \notin outlived =>
               /\ q.told = "restart" => Prompted(KeyOf(q))'
               /\ q.at \in {"working", "letting"} /\ ~q.mute => Prompted(KeyOf(q))'
      PROVE  ToldInv'
  <2>1. \A x \in places' : x = q \/ (x \in places /\ x # p)
    BY <1>4 DEF Step
  <2>2. \A x : Holds(x)' <=> Holds(x)
    BY <1>4 DEF Holds
  <2>3. ASSUME NEW x \in places', Active(x), Holds(x), x.turn \notin outlived
        PROVE  /\ x.told = "restart" => Prompted(KeyOf(x))'
               /\ x.at \in {"working", "letting"} /\ ~x.mute => Prompted(KeyOf(x))'
    BY <1>4, <2>1, <2>3 DEF ToldInv
  <2>4. \A x \in places' : x.at \in {"sent", "claimed"} => x.told = None
    BY <1>4, <2>1 DEF ToldInv
  <2>5. row'.key \in Keys => row'.key.turn \in taken'
    BY <1>4 DEF ToldInv
  <2> QED
    BY <1>4, <2>2, <2>3, <2>4, <2>5 DEF ToldInv, Active, KeyOf
<1>5. ASSUME NEW p \in places, NEW q \in PlaceRecords, Chosen(p, q) PROVE ToldInv'
  <2>1. \A k : Prompted(k)' <=> Prompted(k)
    BY <1>5 DEF Chosen, Prompted
  <2>2. ASSUME Holds(q), q.turn \notin outlived, q.told = "restart" PROVE Prompted(KeyOf(q))
    <3>1. q.att = p.att /\ q.turn = p.turn /\ KeyOf(q) = KeyOf(p) /\ Active(p) /\ p.at = "claimed" /\ Landed(p)
      BY <1>5, <2>2 DEF Chosen, Moves, KeyOf, Active
    <3>2. row.key = KeyOf(p) /\ p.mark = row.mark
      BY <2>2, <3>1 DEF HolderInv, Holds
    <3>3. row.key \in Keys /\ row.key.turn = row.turn /\ row.mark < Len(log)
      BY <1>0, <2>2, <3>1, <3>2, TurnAssumption DEF Holds, KeyOf, Key, Keys, Landed, Typed, PlaceRecords, Rows
    <3> QED
      BY <2>2, <3>1, <3>2, <3>3 DEF ToldInv, Holds
  <2> QED
    BY <1>4, <1>5, <2>1, <2>2 DEF Chosen, ToldInv
<1>6. ASSUME NEW p \in places, NEW q \in PlaceRecords, Drifts(p, q) PROVE ToldInv'
  <2>1. \A k : Prompted(k)' <=> Prompted(k)
    BY <1>6 DEF Drifts, Prompted
  <2>2. q.att = p.att /\ q.turn = p.turn /\ KeyOf(q) = KeyOf(p) /\ q.told = p.told
    BY <1>6 DEF Drifts, Moves, KeyOf
  <2>3. Active(q) /\ Holds(q) /\ q.turn \notin outlived =>
               /\ q.told = "restart" => Prompted(KeyOf(q))
               /\ q.at \in {"working", "letting"} /\ ~q.mute => Prompted(KeyOf(q))
    <3>1. Active(q) => Active(p)
      BY <1>6 DEF Drifts, Active
    <3>2. q.at \in {"working", "letting"} /\ ~q.mute => p.at \in {"working", "letting"} /\ ~p.mute
      BY <1>6 DEF Drifts
    <3> QED
      BY <2>2, <3>1, <3>2 DEF ToldInv, Holds
  <2> QED
    BY <1>4, <1>6, <2>1, <2>3 DEF Drifts, ToldInv
<1>7. ASSUME NEW p \in places, NEW q \in PlaceRecords, NEW what \in {"prompt", "restart", "results"},
             Appended(p, q, what)
      PROVE  ToldInv'
  <2>1. log' = Append(log, [key |-> KeyOf(p), what |-> what]) /\ Active(p) /\ ~p.mute
        /\ q.at \notin {"sent", "claimed"} /\ UNCHANGED <<row, taken, outlived>> /\ Moves(p, q) /\ Step(p, q)
    BY <1>7 DEF Appended, Active
  <2>2. \A k : Prompted(k) => Prompted(k)'
    BY <2>1, PromptedStays
  <2>3. q.att = p.att /\ q.turn = p.turn /\ KeyOf(q) = KeyOf(p) /\ q.told = p.told
    BY <1>7 DEF Appended, Moves, KeyOf
  <2>4. what = "prompt" => Prompted(KeyOf(p))'
    BY <2>1, LogAppended DEF Prompted
  <2>5. Holds(p) /\ p.turn \notin outlived => Prompted(KeyOf(p))'
    <3>1. CASE p.at = "pushed"
      <4>1. what = p.told /\ what \in {"prompt", "restart"}
        BY <1>7, <3>1 DEF Appended, Typed
      <4>2. Holds(p) /\ p.turn \notin outlived /\ p.told = "restart" => Prompted(KeyOf(p))
        BY <2>1 DEF ToldInv
      <4> QED
        BY <2>2, <2>4, <4>1, <4>2
    <3>2. CASE p.at = "letting"
      BY <2>1, <2>2, <3>2 DEF ToldInv
    <3> QED
      BY <1>7, <3>1, <3>2 DEF Appended
  <2>6. row.key \in Keys /\ row.key.turn = row.turn /\ row'.mark < Len(log') =>
               Prompted(row.key)' \/ row.turn \in outlived
    <3> SUFFICES ASSUME row.key \in Keys, row.key.turn = row.turn, row.turn \notin outlived
                 PROVE  Prompted(row.key)'
      OBVIOUS
    <3>1. row.turn \in Turns
      BY DEF Keys
    <3>2. Holds(p)
      BY <1>0, <1>7, <3>1 DEF Appended, HoldsOrLast, Holds
    <3>3. row.key = KeyOf(p)
      BY <2>1, <3>2 DEF HolderInv, Holds
    <3>4. p.turn \notin outlived /\ row' = row
      BY <2>1, <3>2 DEF Holds
    <3> QED
      BY <2>5, <3>2, <3>3, <3>4 DEF Prompted, KeyOf
  <2>7. Holds(q) => Holds(p)
    BY <2>3 DEF Holds
  <2> QED
    BY <1>4, <2>1, <2>2, <2>3, <2>5, <2>6, <2>7
<1> QED
  BY <1>1, <1>2, <1>3, <1>5, <1>6, <1>7, StepCases, ActKinds

(***************************************************************************)
(* The transcript                                                          *)
(***************************************************************************)
LEMMA LogSame ==
  ASSUME UNCHANGED log
  PROVE  /\ \A k : Prompted(k)' <=> Prompted(k)
         /\ \A k : Entered(k)' <=> Entered(k)
         /\ \A t : EnteredTurn(t)' <=> EnteredTurn(t)
         /\ outlived \subseteq outlived' /\ MessageOnce => MessageOnce'
         /\ outlived \subseteq outlived' /\ TurnsApart => TurnsApart'
<1>1. log' = log /\ Len(log') = Len(log)
  OBVIOUS
<1> QED
  BY <1>1 DEF Prompted, Entered, EnteredTurn, MessageOnce, TurnsApart

\* An entry of a transcript has a turn, and a key of it.
LEMMA EntryTurn ==
  ASSUME Typed, NEW i \in 1..Len(log)
  PROVE  log[i] \in Entries /\ log[i].key \in Keys /\ log[i].key.turn \in Turns /\ log[i].key.n \in Nat
<1>1. log[i] \in Entries
  BY DEF Typed
<1> QED
  BY <1>1 DEF Entries, Keys

LEMMA LogCalm ==
  ASSUME Typed, Typed', LogInv, Calm
  PROVE  LogInv'
<1>0. UNCHANGED <<log, outlived>> /\ row'.att = row.att /\ row'.key = row.key /\ row'.mark = row.mark
      /\ Len(log') = Len(log)
  BY DEF Calm
<1>1. (\A t : EnteredTurn(t)' <=> EnteredTurn(t)) /\ (\A k : Entered(k)' <=> Entered(k))
      /\ (\A k : Prompted(k)' <=> Prompted(k)) /\ MessageOnce' /\ TurnsApart'
  BY <1>0, LogSame DEF LogInv
<1>2. \A i \in 1..Len(log) :
       /\ log[i].key.turn \in taken /\ log[i].key.turn # wf.msg
       /\ wf.stage \in {"placing", "placed"} /\ log[i].key.turn = wf.cur => log[i].key.n <= wf.rel
       /\ wf.stage = "released" /\ log[i].key.turn = wf.cur => log[i].key.n < wf.rel
       /\ (wf.stage = "starting" \/ (wf.stage = "placing" /\ ~wf.again /\ wf.rel = 0))
            => log[i].key.turn # wf.cur
  BY DEF LogInv, TurnLog, EnteredTurn
<1>3. ASSUME NEW i \in 1..Len(log)
      PROVE  /\ log[i].key.turn \in taken' /\ log[i].key.turn # wf'.msg
             /\ wf'.stage \in {"placing", "placed"} /\ log[i].key.turn = wf'.cur => log[i].key.n <= wf'.rel
             /\ wf'.stage = "released" /\ log[i].key.turn = wf'.cur => log[i].key.n < wf'.rel
             /\ (wf'.stage = "starting" \/ (wf'.stage = "placing" /\ ~wf'.again /\ wf'.rel = 0))
                  => log[i].key.turn # wf'.cur
  <2>1. log[i].key.turn \in Turns /\ log[i].key.turn # None /\ log[i].key.n \in Nat
    BY EntryTurn, TurnAssumption
  <2>2. wf.rel \in Nat
    BY DEF Typed, Workflows
  <2>3. log[i].key.turn \in taken' /\ log[i].key.turn # wf'.msg
    BY <1>2, <2>1 DEF Calm
  <2> QED
    BY <1>2, <2>1, <2>2, <2>3 DEF Calm, WfCalm
<1>4. ASSUME wf'.stage \in {"placing", "placed"}, Entered(Key(wf'.cur, wf'.rel)), wf'.cur \notin outlived
      PROVE  row.key = Key(wf'.cur, wf'.rel)
  <2>1. PICK i \in 1..Len(log) : log[i].key = Key(wf'.cur, wf'.rel)
    BY <1>4 DEF Entered
  <2>2. log[i].key.turn = wf'.cur /\ log[i].key.n = wf'.rel /\ wf.rel \in Nat
    BY <2>1 DEF Key, Typed, Workflows
  <2>3. wf.stage \in {"placing", "placed"} /\ wf'.cur = wf.cur /\ wf'.rel = wf.rel
    BY <1>2, <1>4, <2>2 DEF Calm, WfCalm
  <2> QED
    BY <1>4, <2>3 DEF LogInv, TurnLog
<1>5. ASSUME wf'.stage \in {"placing", "placed", "released"}, EnteredTurn(wf'.cur), wf'.cur \notin outlived
      PROVE  row.key \in Keys /\ row.key.turn = wf'.cur
  <2>1. PICK i \in 1..Len(log) : log[i].key.turn = wf'.cur
    BY <1>5 DEF EnteredTurn
  <2>2. wf.stage \in {"placing", "placed", "released"} /\ wf'.cur = wf.cur
    BY <1>2, <1>5, <2>1 DEF Calm, WfCalm
  <2> QED
    BY <1>5, <2>2 DEF LogInv, TurnLog
<1>6. TurnLog'
  <2>1. wf'.stage = "starting" \/ (wf'.stage = "placing" /\ ~wf'.again /\ wf'.rel = 0)
          => ~EnteredTurn(wf'.cur)
    BY <1>3 DEF EnteredTurn
  <2>2. Entered(Key(wf.cur, wf.rel))' <=> Entered(Key(wf'.cur, wf'.rel))
    BY <1>0 DEF Entered, Key
  <2>3. EnteredTurn(wf.cur)' <=> EnteredTurn(wf'.cur)
    BY <1>0 DEF EnteredTurn
  <2> QED
    BY <1>0, <1>3, <1>4, <1>5, <2>1, <2>2, <2>3 DEF TurnLog, Key
<1>7. MarkLog'
  <2>1. \A p \in places' : p \in places /\ (Waited(p)' => Waited(p))
    BY DEF Calm, WfCalm, Waited
  <2> QED
    BY <1>0, <1>1, <2>1 DEF LogInv, MarkLog, KeyOf, Pending
<1>8. RowLog'
  BY <1>0 DEF LogInv, RowLog
<1> QED
  BY <1>1, <1>6, <1>7, <1>8 DEF LogInv

LEMMA LogPlace ==
  ASSUME Typed, WfInv, PlaceInv, LogInv, Place
  PROVE  LogInv'
<1>1. PICK new \in PlaceRecords :
           /\ places' = places \cup {new}
           /\ new.id = made + 1 /\ new.turn = wf.cur /\ new.n = wf.rel /\ new.att = <<wf.run, wf.cycle>>
           /\ new.again = wf.again /\ new.at = "sent" /\ new.told = None
  BY NewPlace
<1>2. UNCHANGED <<row, log, taken, outlived>> /\ wf.stage = "placing" /\ Len(log') = Len(log)
      /\ wf'.msg = wf.msg /\ wf'.cur = wf.cur /\ wf'.rel = wf.rel /\ wf'.stage = "placed"
      /\ wf'.place = made + 1
  BY PlaceWf DEF Place
<1>3. (\A t : EnteredTurn(t)' <=> EnteredTurn(t)) /\ (\A k : Entered(k)' <=> Entered(k))
      /\ (\A k : Prompted(k)' <=> Prompted(k)) /\ MessageOnce' /\ TurnsApart'
  BY <1>2, LogSame DEF LogInv
<1>4. TurnLog'
  BY <1>2, <1>3 DEF LogInv, TurnLog, Entered, EnteredTurn, Key
<1>5. ASSUME NEW p \in places', Waited(p)', p.at = "sent", ~p.again, p.n = 0
      PROVE  ~EnteredTurn(p.turn)
  <2>1. p \in places => p.id # made + 1
    BY DEF PlaceInv, Typed
  <2> QED
    BY <1>1, <1>2, <1>5, <2>1 DEF Waited, LogInv, TurnLog
<1>6. MarkLog'
  BY <1>1, <1>2, <1>3, <1>5 DEF LogInv, MarkLog, KeyOf, Pending
<1>7. RowLog'
  BY <1>2 DEF LogInv, RowLog
<1> QED
  BY <1>3, <1>4, <1>6, <1>7 DEF LogInv

\* A placement's step that leaves the row and the transcript as they are.
LEMMA LogMove ==
  ASSUME LogInv, NEW p \in places, NEW q \in PlaceRecords, Moves(p, q), Step(p, q),
         UNCHANGED <<row, log, wf, taken, outlived>>, q.at # "claimed",
         Pending(q) /\ row.att = q.att /\ q.turn \notin outlived => ~Prompted(KeyOf(q))
  PROVE  LogInv'
<1>1. (\A t : EnteredTurn(t)' <=> EnteredTurn(t)) /\ (\A k : Entered(k)' <=> Entered(k))
      /\ (\A k : Prompted(k)' <=> Prompted(k)) /\ MessageOnce' /\ TurnsApart'
  BY LogSame DEF LogInv
<1>2. TurnLog' /\ RowLog'
  BY DEF LogInv, TurnLog, RowLog, Entered, EnteredTurn, Key
<1>3. \A x \in places' : x = q \/ x \in places
  BY DEF Step
<1>4. q.at # "sent"
  BY DEF Moves
<1>5. \A x : Waited(x)' <=> Waited(x)
  BY DEF Waited
<1>6. MarkLog'
  BY <1>1, <1>3, <1>4, <1>5 DEF LogInv, MarkLog, KeyOf, Pending
<1> QED
  BY <1>1, <1>2, <1>6 DEF LogInv

LEMMA LogChosen ==
  ASSUME Typed, LogInv, NEW p \in places, NEW q \in PlaceRecords, Chosen(p, q) \/ Drifts(p, q)
  PROVE  LogInv'
<1>1. CASE Drifts(p, q)
  <2>1. q.at # "claimed" /\ ~Pending(q)
    BY <1>1 DEF Drifts, Pending
  <2> QED
    BY <1>1, <2>1, LogMove DEF Drifts
<1>2. CASE Chosen(p, q)
  <2>1. q.att = p.att /\ q.turn = p.turn /\ KeyOf(q) = KeyOf(p) /\ q.at = "pushed"
    BY <1>2 DEF Chosen, Moves, KeyOf
  <2>2. ASSUME Pending(q), row.att = q.att, q.turn \notin outlived PROVE ~Prompted(KeyOf(q))
    <3>1. ~((p.again \/ p.n > 0) /\ Landed(p))
      BY <1>2, <2>1, <2>2 DEF Chosen, Pending
    <3>2. CASE ~p.again /\ p.n = 0
      BY <1>2, <2>1, <2>2, <3>2 DEF Chosen, Pending, LogInv, MarkLog
    <3>3. CASE ~Landed(p)
      <4>1. Len(log) \in Nat /\ p.mark \in Nat /\ Len(log) <= p.mark
        BY <3>3 DEF Landed, Typed, PlaceRecords
      <4>2. \A i \in 1..Len(log) : i <= p.mark => log[i].key # KeyOf(p)
        BY <1>2, <2>1, <2>2 DEF LogInv, MarkLog, Chosen
      <4> QED
        BY <2>1, <4>1, <4>2 DEF Prompted
    <3>4. p.n \in Nat /\ p.again \in BOOLEAN
      BY DEF Typed, PlaceRecords
    <3> QED
      BY <3>1, <3>2, <3>3, <3>4
  <2> QED
    BY <1>2, <2>1, <2>2, LogMove DEF Chosen
<1> QED
  BY <1>1, <1>2

\* A claim: the mark it counts from leaves its key's entries after it, and where it is waited
\* for, only its own turn has entries since the turn's first.
LEMMA LogClaim ==
  ASSUME Typed, Typed', WfInv, SendInv, PlaceInv, LogInv,
         NEW p \in places, NEW q \in PlaceRecords, Claimed(p, q)
  PROVE  LogInv'
<1>0. /\ UNCHANGED <<log, wf, taken>> /\ Len(log') = Len(log) /\ Len(log) \in Nat
      /\ row'.key = KeyOf(p) /\ row'.att = p.att /\ outlived \subseteq outlived'
      /\ KeyOf(p) \in Keys /\ KeyOf(p).turn = p.turn /\ KeyOf(p).n = p.n
  BY DEF Claimed, Typed, KeyOf, Key, Keys, PlaceRecords
<1>1. (\A t : EnteredTurn(t)' <=> EnteredTurn(t)) /\ (\A k : Entered(k)' <=> Entered(k))
      /\ (\A k : Prompted(k)' <=> Prompted(k)) /\ MessageOnce' /\ TurnsApart'
  BY <1>0, LogSame DEF LogInv
<1>2. wf.stage \in {"placing", "placed", "released"} => p.turn = wf.cur
  BY HeldIsCurrent DEF WfInv, Claimed
<1>3. p.turn \notin outlived' => p.turn = wf.cur /\ p.n = wf.rel /\ wf.stage = "placed" /\ Waited(p)
                                /\ p.turn \notin outlived
  BY <1>0 DEF Claimed, PlaceInv, Waited
<1>4. KeyOf(p) = Key(p.turn, p.n)
  BY DEF KeyOf
<1>5. TurnLog'
  <2>1. ASSUME wf.stage \in {"placing", "placed"}, wf.cur \notin outlived' PROVE KeyOf(p) = Key(wf.cur, wf.rel)
    BY <1>2, <1>3, <1>4, <2>1
  <2>2. ASSUME wf.stage \in {"placing", "placed", "released"} PROVE KeyOf(p) \in Keys /\ KeyOf(p).turn = wf.cur
    BY <1>0, <1>2, <2>2
  <2> QED
    BY <1>0, <1>1, <2>1, <2>2 DEF LogInv, TurnLog, Entered, EnteredTurn, Key
<1>6. /\ row'.mark <= Len(log)
      /\ \A i \in 1..Len(log) : i <= row'.mark => log[i].key # KeyOf(p) \/ log[i].key.turn \in outlived'
  <2>1. CASE row.key = KeyOf(p)
    BY <1>0, <2>1 DEF Claimed, LogInv, MarkLog
  <2>2. CASE row.key # KeyOf(p)
    <3>1. row'.mark = Len(log)
      BY <2>2 DEF Claimed
    <3>2. ASSUME NEW i \in 1..Len(log), log[i].key = KeyOf(p), p.turn \notin outlived' PROVE FALSE
      <4>1. Entered(Key(wf.cur, wf.rel)) /\ KeyOf(p) = Key(wf.cur, wf.rel)
        BY <1>3, <1>4, <3>2 DEF Entered
      <4> QED
        BY <1>3, <2>2, <3>2, <4>1 DEF LogInv, TurnLog
    <3> QED
      BY <1>0, <3>1, <3>2
  <2> QED
    BY <2>1, <2>2
<1>7. MarkLog'
  <2>1. \A x \in places' : x = q \/ (x \in places /\ x # p)
    BY DEF Claimed, Step
  <2>2. q.at = "claimed" /\ q.mark = row'.mark /\ KeyOf(q) = KeyOf(p) /\ q.turn = p.turn /\ q.n = p.n
        /\ q.again = p.again /\ q.att = p.att
    BY DEF Claimed, Moves, KeyOf
  <2>3. \A x : Waited(x)' <=> Waited(x)
    BY <1>0 DEF Waited
  <2>4. ASSUME NEW x \in places', x.at = "claimed", x.turn \notin outlived'
        PROVE  x.mark <= Len(log) /\ \A i \in 1..Len(log) : i <= x.mark => log[i].key # KeyOf(x)
    <3>1. CASE x = q
      BY <1>0, <1>6, <2>2, <2>4, <3>1
    <3>2. CASE x # q
      BY <1>0, <2>1, <2>4, <3>2 DEF LogInv, MarkLog
    <3> QED
      BY <3>1, <3>2
  <2>5. ASSUME NEW x \in places', Waited(x), x.at = "sent", ~x.again, x.n = 0
        PROVE  ~EnteredTurn(x.turn)
    BY <2>1, <2>2, <2>5 DEF LogInv, MarkLog
  <2>6. ASSUME NEW x \in places', Pending(x), row'.att = x.att, x.turn \notin outlived'
        PROVE  ~Prompted(KeyOf(x))
    <3>1. x = q
      <4>1. Active(x)
        BY <2>6 DEF Pending, Active
      <4> QED
        BY <1>0, <2>1, <2>6, <4>1 DEF Claimed
    <3>2. ~p.again /\ p.n = 0 /\ Waited(p) /\ p.at = "sent"
      BY <1>3, <2>2, <2>6, <3>1 DEF Pending, Claimed
    <3>3. ~EnteredTurn(p.turn)
      BY <3>2 DEF LogInv, MarkLog
    <3> QED
      BY <1>0, <2>2, <3>1, <3>3 DEF Prompted, EnteredTurn
  <2> QED
    BY <1>0, <1>1, <1>6, <2>3, <2>4, <2>5, <2>6 DEF MarkLog, KeyOf, Pending
<1>8. RowLog'
  <2>1. ASSUME NEW i \in 1..Len(log), NEW j \in 1..Len(log), i < j, log[i].key.turn = p.turn
        PROVE  log[j].key.turn = p.turn \/ {log[i].key.turn, log[j].key.turn} \cap outlived' # {}
    <3>1. CASE p.turn \in outlived'
      BY <2>1, <3>1
    <3>2. CASE p.turn \notin outlived'
      <4>1. row.key \in Keys /\ row.key.turn = p.turn
        BY <1>3, <2>1, <3>2 DEF LogInv, TurnLog, EnteredTurn
      <4> QED
        BY <1>0, <2>1, <4>1 DEF LogInv, RowLog
    <3> QED
      BY <3>1, <3>2
  <2> QED
    BY <1>0, <2>1 DEF RowLog
<1> QED
  BY <1>1, <1>5, <1>7, <1>8 DEF LogInv

\* An append: its placement has the row, and the transcript has nothing of its message yet.
LEMMA LogAppend ==
  ASSUME Typed, Typed', WfInv, SendInv, PlaceInv, HolderInv, LogInv,
         NEW p \in places, NEW q \in PlaceRecords, NEW what \in {"prompt", "restart", "results"},
         Appended(p, q, what)
  PROVE  LogInv'
<1> DEFINE L == Len(log) + 1
<1>0. /\ UNCHANGED <<row, wf, taken, outlived>> /\ Active(p) /\ p.at # "sent" /\ row.att = p.att
      /\ p.turn \in taken /\ p.turn # wf.msg /\ p.turn \in Turns /\ p.n \in Nat
  BY DEF Appended, Active, HoldsOrLast, PlaceInv, Typed, PlaceRecords
<1>1. log' = Append(log, [key |-> KeyOf(p), what |-> what]) /\ KeyOf(p) \in Keys
      /\ KeyOf(p).turn = p.turn /\ KeyOf(p).n = p.n
  BY <1>0 DEF Appended, KeyOf, Key, Keys
<1>2. /\ Len(log) \in Nat /\ Len(log') = L /\ log'[L] = [key |-> KeyOf(p), what |-> what]
      /\ \A i \in 1..Len(log) : log'[i] = log[i]
      /\ \A i \in 1..Len(log') : i = L \/ i \in 1..Len(log)
      /\ L \in 1..Len(log') /\ \A i \in 1..Len(log) : i < L /\ i # L
  BY <1>1, LogAppended
<1> HIDE DEF L
<1>3. log'[L].key = KeyOf(p) /\ log'[L].key.turn = p.turn /\ log'[L].key.n = p.n /\ log'[L].what = what
  BY <1>1, <1>2
<1>4. p.turn \notin outlived => row.key = KeyOf(p)
  BY <1>0 DEF HolderInv
<1>5. TurnLog'
  <2>1. \A i \in 1..Len(log') :
       /\ log'[i].key.turn \in taken /\ log'[i].key.turn # wf.msg
       /\ wf.stage \in {"placing", "placed"} /\ log'[i].key.turn = wf.cur => log'[i].key.n <= wf.rel
       /\ wf.stage = "released" /\ log'[i].key.turn = wf.cur => log'[i].key.n < wf.rel
       /\ wf.stage = "starting" \/ (wf.stage = "placing" /\ ~wf.again /\ wf.rel = 0)
            => log'[i].key.turn # wf.cur
    <3>1. \A i \in 1..Len(log) :
       /\ log'[i].key.turn \in taken /\ log'[i].key.turn # wf.msg
       /\ wf.stage \in {"placing", "placed"} /\ log'[i].key.turn = wf.cur => log'[i].key.n <= wf.rel
       /\ wf.stage = "released" /\ log'[i].key.turn = wf.cur => log'[i].key.n < wf.rel
       /\ wf.stage = "starting" \/ (wf.stage = "placing" /\ ~wf.again /\ wf.rel = 0)
            => log'[i].key.turn # wf.cur
      BY <1>2 DEF LogInv, TurnLog, EnteredTurn
    <3>2. /\ wf.stage \in {"placing", "placed"} /\ p.turn = wf.cur => p.n <= wf.rel
          /\ wf.stage = "released" /\ p.turn = wf.cur => p.n < wf.rel
          /\ wf.stage = "starting" \/ (wf.stage = "placing" /\ ~wf.again /\ wf.rel = 0)
               => p.turn # wf.cur
      BY DEF PlaceInv
    <3> QED
      BY <1>0, <1>2, <1>3, <3>1, <3>2
  <2>2. ASSUME wf.stage \in {"placing", "placed"}, wf.cur \notin outlived,
               NEW i \in 1..Len(log'), log'[i].key = Key(wf.cur, wf.rel)
        PROVE  row.key = Key(wf.cur, wf.rel)
    <3>1. CASE i = L
      <4>1. KeyOf(p) = Key(wf.cur, wf.rel) /\ p.turn = wf.cur
        BY <1>1, <1>3, <2>2, <3>1 DEF Key
      <4> QED
        BY <1>4, <2>2, <4>1
    <3>2. CASE i \in 1..Len(log)
      BY <1>2, <2>2, <3>2 DEF LogInv, TurnLog, Entered
    <3> QED
      BY <1>2, <3>1, <3>2
  <2>3. ASSUME wf.stage \in {"placing", "placed", "released"}, wf.cur \notin outlived,
               NEW i \in 1..Len(log'), log'[i].key.turn = wf.cur
        PROVE  row.key \in Keys /\ row.key.turn = wf.cur
    <3>1. CASE i = L
      BY <1>1, <1>3, <1>4, <2>3, <3>1
    <3>2. CASE i \in 1..Len(log)
      BY <1>2, <2>3, <3>2 DEF LogInv, TurnLog, EnteredTurn
    <3> QED
      BY <1>2, <3>1, <3>2
  <2> QED
    BY <1>0, <2>1, <2>2, <2>3 DEF TurnLog, Entered, EnteredTurn, Key
<1>6. \A x \in places' : x = q \/ (x \in places /\ x # p)
  BY DEF Appended, Step
<1>7. q.at \notin {"sent", "claimed", "pushed"}
  BY DEF Appended
<1>8. MarkLog'
  <2>1. row.mark \in Nat /\ row.mark <= Len(log)
        /\ \A i \in 1..Len(log) : i <= row.mark => log[i].key # row.key \/ log[i].key.turn \in outlived
    BY DEF LogInv, MarkLog, Typed, Rows
  <2>2. row.mark <= Len(log')
        /\ \A i \in 1..Len(log') : i <= row.mark => log'[i].key # row.key \/ log'[i].key.turn \in outlived
    <3>1. Len(log') = Len(log) + 1 /\ ~(L <= row.mark)
      BY <1>2, <2>1 DEF L
    <3> QED
      BY <1>2, <2>1, <3>1
  <2>3. ASSUME NEW x \in places', x.at = "claimed", x.turn \notin outlived
        PROVE  x.mark <= Len(log') /\ \A i \in 1..Len(log') : i <= x.mark => log'[i].key # KeyOf(x)
    <3>1. x \in places /\ x.mark \in Nat
      BY <1>6, <1>7, <2>3 DEF Typed, PlaceRecords
    <3>2. x.mark <= Len(log) /\ \A i \in 1..Len(log) : i <= x.mark => log[i].key # KeyOf(x)
      BY <2>3, <3>1 DEF LogInv, MarkLog
    <3>3. Len(log') = Len(log) + 1 /\ ~(L <= x.mark)
      BY <1>2, <3>1, <3>2 DEF L
    <3> QED
      BY <1>2, <3>1, <3>2, <3>3
  <2>4. ASSUME NEW x \in places', Waited(x), x.at = "sent", ~x.again, x.n = 0,
               NEW i \in 1..Len(log')
        PROVE  log'[i].key.turn # x.turn
    <3>1. x \in places /\ x # p
      BY <1>6, <1>7, <2>4
    <3>2. x.turn # p.turn
      BY <1>0, <2>4, <3>1 DEF PlaceInv
    <3>3. i \in 1..Len(log) => log[i].key.turn # x.turn
      BY <2>4, <3>1 DEF LogInv, MarkLog, EnteredTurn
    <3> QED
      BY <1>2, <1>3, <3>2, <3>3
  <2>5. ASSUME NEW x \in places', Pending(x), row.att = x.att, x.turn \notin outlived,
               NEW i \in 1..Len(log')
        PROVE  log'[i] # [key |-> KeyOf(x), what |-> "prompt"]
    <3>1. x \in places /\ x # p /\ Active(x)
      BY <1>6, <1>7, <2>5 DEF Pending, Active
    <3>2. p.turn # x.turn
      BY <1>0, <2>5, <3>1 DEF HolderInv
    <3>3. KeyOf(x).turn = x.turn
      BY DEF KeyOf, Key
    <3>4. i = L => log'[i].key # KeyOf(x)
      BY <1>3, <3>2, <3>3
    <3>5. i \in 1..Len(log) => log[i] # [key |-> KeyOf(x), what |-> "prompt"]
      BY <2>5, <3>1 DEF LogInv, MarkLog, Prompted
    <3> QED
      BY <1>2, <3>4, <3>5
  <2>6. \A x : Waited(x)' <=> Waited(x)
    BY <1>0 DEF Waited
  <2> QED
    BY <1>0, <2>2, <2>3, <2>4, <2>5, <2>6 DEF MarkLog, KeyOf, Pending, Prompted, EnteredTurn
<1>9. RowLog'
  <2>1. ASSUME NEW i \in 1..Len(log'), NEW j \in 1..Len(log'), i < j, row.key \in Keys,
               log'[i].key.turn = row.key.turn
        PROVE  log'[j].key.turn = row.key.turn \/ {log'[i].key.turn, log'[j].key.turn} \cap outlived # {}
    <3>1. CASE j = L
      BY <1>1, <1>3, <1>4, <3>1
    <3>2. CASE j \in 1..Len(log)
      <4>1. i \in 1..Len(log)
        BY <1>2, <2>1, <3>2 DEF L
      <4> QED
        BY <1>2, <2>1, <3>2, <4>1 DEF LogInv, RowLog
    <3> QED
      BY <1>2, <3>1, <3>2
  <2> QED
    BY <1>0, <2>1 DEF RowLog
<1>10. MessageOnce'
  <2>1. ASSUME NEW i \in 1..Len(log), log[i] = log'[L], what = "prompt", p.turn \notin outlived PROVE FALSE
    <3>1. p.at = "pushed" /\ p.told = "prompt"
      BY <2>1 DEF Appended
    <3>2. ~Prompted(KeyOf(p))
      BY <1>0, <2>1, <3>1 DEF LogInv, MarkLog, Pending
    <3> QED
      BY <1>2, <2>1, <3>2 DEF Prompted
  <2>2. ASSUME NEW i \in 1..Len(log'), NEW j \in 1..Len(log'), log'[i] = log'[j], log'[i].what = "prompt",
               i # j
        PROVE  log'[i].key.turn \in outlived
    <3>1. CASE i \in 1..Len(log) /\ j \in 1..Len(log)
      BY <1>2, <2>2, <3>1 DEF LogInv, MessageOnce
    <3>2. CASE i \in 1..Len(log) /\ j = L
      BY <1>2, <1>3, <2>1, <2>2, <3>2
    <3>3. CASE i = L /\ j \in 1..Len(log)
      BY <1>2, <1>3, <2>1, <2>2, <3>3
    <3> QED
      BY <1>2, <2>2, <3>1, <3>2, <3>3
  <2> QED
    BY <1>0, <2>2 DEF MessageOnce
<1>11. TurnsApart'
  <2>1. ASSUME NEW i \in 1..Len(log'), NEW j \in 1..Len(log'), NEW k \in 1..Len(log'), i < j, j < k,
               log'[i].key.turn = log'[k].key.turn
        PROVE  log'[j].key.turn = log'[i].key.turn
               \/ {log'[i].key.turn, log'[j].key.turn} \cap outlived # {}
    <3>1. i \in 1..Len(log) /\ j \in 1..Len(log)
      BY <1>2, <2>1 DEF L
    <3>2. CASE k \in 1..Len(log)
      BY <1>2, <2>1, <3>1, <3>2 DEF LogInv, TurnsApart
    <3>3. CASE k = L
      <4>1. CASE p.turn \in outlived
        BY <1>3, <2>1, <3>3, <4>1
      <4>2. CASE p.turn \notin outlived
        <5>1. row.key \in Keys /\ log[i].key.turn = row.key.turn
          BY <1>1, <1>2, <1>3, <1>4, <2>1, <3>1, <3>3, <4>2
        <5> QED
          BY <1>2, <2>1, <3>1, <5>1 DEF LogInv, RowLog
      <4> QED
        BY <4>1, <4>2
    <3> QED
      BY <1>2, <3>2, <3>3
  <2> QED
    BY <1>0, <2>1 DEF TurnsApart
<1> QED
  BY <1>5, <1>8, <1>9, <1>10, <1>11 DEF LogInv

LEMMA LogStep ==
  ASSUME Typed, Typed', WfInv, SendInv, PlaceInv, HolderInv, LogInv, [Next]_vars
  PROVE  LogInv'
BY StepCases, ActKinds, LogCalm, LogPlace, LogChosen, LogClaim, LogAppend

(***************************************************************************)
(* The inductive invariant, and what follows from it                       *)
(***************************************************************************)
Inv == Typed /\ WfInv /\ SendInv /\ LookInv /\ PlaceInv /\ HolderInv /\ ToldInv /\ LogInv

LEMMA InitInv == Init => Inv
<1> SUFFICES ASSUME Init PROVE Inv
  OBVIOUS
<1>1. Typed /\ WfInv
  BY InitWf
<1>2. places = {} /\ taken = {} /\ said = {} /\ ended = {} /\ row.turn = None /\ row.key = None
      /\ row.mark = 0 /\ log = <<>>
      /\ wf.msg = None /\ wf.cur = None /\ wf.stage = "idle"
      /\ (\A t \in Turns : send[t] = "none") /\ \A a \in DOMAIN looks : ~looks[a].fresh
  BY DEF Init, Closed, NoLook
<1>3. SendInv /\ LookInv /\ PlaceInv /\ HolderInv
  BY <1>2 DEF SendInv, LookInv, PlaceInv, HolderInv
<1>4. ToldInv
  BY <1>2, TurnAssumption DEF ToldInv, Keys
<1>5. 1..Len(log) = {} /\ row.mark <= Len(log)
  BY <1>2
<1>6. LogInv
  BY <1>2, <1>5 DEF LogInv, TurnLog, MarkLog, RowLog, MessageOnce, TurnsApart, Entered, EnteredTurn
<1> QED
  BY <1>1, <1>3, <1>4, <1>6 DEF Inv

LEMMA InvStep == Inv /\ [Next]_vars => Inv'
<1> SUFFICES ASSUME Inv, [Next]_vars PROVE Inv'
  OBVIOUS
<1>1. Typed' /\ WfInv'
  BY TypedStep, WfStep DEF Inv
<1> QED
  BY <1>1, SendStep, PlaceStep, HolderStep, ToldStep, LogStep DEF Inv

\* The inductive invariant holds of every reachable state.
THEOREM Invariance == Spec => []Inv
<1> QED
  BY InitInv, InvStep, PTL DEF Spec

\* Every variable has its type; a turn has no more placements than it may, and a placement
\* that is waited for is of the turn that runs (placeTurn).
THEOREM TypeCorrect == Spec => []TypeOK
<1>1. Inv => TypeOK
  <2> SUFFICES ASSUME Inv PROVE TypeOK
    OBVIOUS
  <2>1. row \in Rows /\ Rows = [done: BOOLEAN, turn: Turns \cup {None}, att: (Nat \X Nat) \cup {None},
                stop: BOOLEAN, key: [turn: Turns, n: Nat] \cup {None}, mark: Nat]
    BY DEF Inv, Typed, Rows, Keys
  <2>2. log \in Seq([key: [turn: Turns, n: Nat], what: {"prompt", "restart", "results"}])
    BY DEF Inv, Typed, Entries, Keys
  <2>3. wf.stage \in Stages /\ wf.msg \in Turns \cup {None} /\ wf.cur \in Turns \cup {None}
        /\ wf.budget \in Nat /\ wf.cycle \in Nat
    BY DEF Inv, Typed, Workflows
  <2>4. wf.budget <= Placements + 1 /\ wf.cycle <= wf.budget
    BY <2>3, TurnAssumption DEF Inv, WfInv
  <2>5. \A p \in places :
         /\ p.at \in {"sent", "claimed", "pushed", "working", "letting", "result"}
         /\ p.id \in 1..made /\ Waited(p) => p.turn = wf.cur
    BY DEF Inv, Typed, PlaceRecords, Ats, PlaceInv
  <2>6. said \cup taken \cup ended \subseteq Turns /\ faults \in 0..MaxFaults
        /\ send \in [Turns -> {"none", "claimed", "asked", "unknown", "refused", "over"}]
    BY DEF Inv, Typed, Sends
  <2> QED
    BY <2>1, <2>2, <2>3, <2>4, <2>5, <2>6 DEF TypeOK
<1> QED
  BY <1>1, Invariance, PTL

\* The row leaves a turn its workflow holds only by the turn's end, or for a fresh look at the
\* workflow (endLostTurn), and then nothing of the turn was written yet.
THEOREM OnlyItsEndHolds == Spec => OnlyItsEnd
<1> DEFINE Leaves(t) == row.turn = t /\ row'.turn # t /\ Open /\ t \in {wf.msg, wf.cur} /\ t \notin ended'
<1>1. ASSUME Inv, [Next]_vars, NEW t \in Turns, Leaves(t)
      PROVE  t \notin said /\ \E a \in DOMAIN looks : looks[a].at = "described" /\ looks[a].fresh /\ looks'[a] = NoLook
  <2>0. row \in Rows /\ None \notin Turns /\ wf.up # "closed" /\ send[t] = "over"
    BY <1>1, TurnAssumption DEF Inv, Typed, SendInv, Open
  <2>1. ASSUME NEW s \in Turns, Sending(s) \/ GiveUp(s) \/ SenderDies(s) PROVE FALSE
    <3>1. CASE Claim(s)
      BY <1>1, <2>0, <3>1 DEF Claim
    <3>2. CASE GiveBack(s)
      BY <1>1, <2>0, <3>2 DEF GiveBack, Inv, SendInv
    <3>3. CASE Ask(s) \/ Deliver(s) \/ GiveUp(s) \/ SenderDies(s)
      BY <1>1, <3>3 DEF Ask, Deliver, GiveUp, SenderDies
    <3> QED
      BY <2>1, <3>1, <3>2, <3>3 DEF Sending
  <2>2. ASSUME Workflow \/ AcquireFails \/ OverTime PROVE FALSE
    <3>1. FinishTurn
      BY <1>1, <2>2 DEF Workflow, Take, ReadSettings, Place, Lost, Continue, TurnOver, Finishing,
           AcquireFails, OverTime
    <3> QED
      BY <1>1, <3>1 DEF FinishTurn
  <2>3. ASSUME NEW p \in places, Acts(p) \/ Say(p) \/ Result(p) PROVE FALSE
    <3>1. CASE ClaimTurn(p)
      BY <1>1, <3>1, ClaimTurnMoves DEF Inv
    <3>2. CASE Say(p) \/ Result(p)
      BY <1>1, <3>2 DEF Say, Result
    <3>3. CASE Acts(p) /\ ~ClaimTurn(p)
      BY <1>1, <3>3, ChooseMoves, LandMoves, LetGoMoves, ReleaseMoves, QuitMoves DEF Acts, Inv
    <3> QED
      BY <2>3, <3>1, <3>2, <3>3
  <2>4. CASE Looking
    <3>1. CASE StopReads \/ StopSignals \/ SweepReads \/ Terminate
      BY <1>1, <3>1 DEF StopReads, StopSignals, SweepReads, Terminate
    <3>2. CASE StopFlags \/ MarkDone
      BY <1>1, <2>0, <3>2 DEF StopFlags, MarkDone, Rows
    <3>3. ASSUME NEW a \in DOMAIN looks, Describe(a) \/ EndLost(a)
          PROVE  t \notin said /\ \E b \in DOMAIN looks : looks[b].at = "described" /\ looks[b].fresh /\ looks'[b] = NoLook
      <4>1. EndLost(a) /\ looks[a].fresh
        BY <1>1, <3>3 DEF Describe, EndLost
      <4>2. looks[a].at = "described" /\ row.turn \notin said
        BY <1>1, <2>0, <4>1 DEF EndLost, Inv, LookInv
      <4>3. looks'[a] = NoLook
        BY <1>1, <4>1 DEF EndLost
      <4> QED
        BY <1>1, <3>3, <4>1, <4>2, <4>3
    <3> QED
      BY <2>4, <3>1, <3>2, <3>3 DEF Looking
  <2>5. CASE UNCHANGED vars
    BY <1>1, <2>5 DEF vars
  <2> QED
    BY <1>1, <2>1, <2>2, <2>3, <2>4, <2>5, NextCases
<1>2. Inv /\ [Next]_vars =>
        [\A t \in Turns :
           (row.turn = t /\ row'.turn # t /\ Open /\ t \in {wf.msg, wf.cur} /\ t \notin ended')
           => /\ t \notin said
              /\ \E a \in DOMAIN looks : looks[a].at = "described" /\ looks[a].fresh /\ looks'[a] = NoLook]_vars
  BY <1>1
<1> QED
  BY <1>2, Invariance, PTL DEF Spec, OnlyItsEnd

\* A placement that holds its turn is told that it restarted only if its message is in the
\* transcript (#landed), however many placements were lost, released or given up on; turns that
\* one given up on could write again are named by `outlived`.
THEOREM ToldHolds == Spec => []ToldWhatLanded
<1>1. Inv => ToldWhatLanded
  BY DEF Inv, ToldInv, ToldWhatLanded, Prompted, KeyOf
<1> QED
  BY <1>1, Invariance, PTL

\* A message, and how its released calls went, lands at most once, whichever placement's append
\* comes late: two entries of one message mean that a placement the workflow gave up on could
\* write its turn again.
THEOREM MessageOnceHolds == Spec => []MessageOnce
<1>1. Inv => MessageOnce
  BY DEF Inv, LogInv
<1> QED
  BY <1>1, Invariance, PTL

\* What the placements append of one turn is not torn apart by another turn's entries, unless
\* one of the two could be written again (holdsOrLast).
THEOREM TurnsApartHolds == Spec => []TurnsApart
<1>1. Inv => TurnsApart
  BY DEF Inv, LogInv
<1> QED
  BY <1>1, Invariance, PTL

=============================================================================
