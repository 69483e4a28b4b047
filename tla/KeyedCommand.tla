---------------------------- MODULE KeyedCommand ----------------------------
(***************************************************************************)
(* What a keyed command promises its client while no operator terminates   *)
(* it (spec 2026-10-01, 4.2): one write-once record, at most `Attempts`    *)
(* effects, none of them after "nothing was done", and every final answer  *)
(* is the record.                                                          *)
(***************************************************************************)
EXTENDS Naturals

CONSTANTS Sends, Attempts

VARIABLES
  record,  \* "none", "running", or how the command ended
  effects, \* how often its effect happened
  replies  \* per send: the final answer it was given, or "none"

vars == <<record, effects, replies>>

Endings == {"ok", "failed", "maybe", "nothing"}

Init ==
  /\ record = "none"
  /\ effects = 0
  /\ replies = [s \in Sends |-> "none"]

Accept ==
  /\ record = "none"
  /\ record' = "running"
  /\ UNCHANGED <<effects, replies>>

\* An attempt lands: while the command runs, or late, once nobody could say whether it
\* would (a single attempt is only given up as "maybe").
Happen ==
  /\ record = "running" \/ record = "maybe" \/ (Attempts > 1 /\ record \in {"ok", "failed"})
  /\ effects < Attempts
  /\ effects' = effects + 1
  /\ UNCHANGED <<record, replies>>

Conclude ==
  /\ record = "running"
  /\ record' \in Endings
  /\ record' = "ok" => effects > 0
  /\ record' = "nothing" => effects = 0
  /\ UNCHANGED <<effects, replies>>

Reply(s) ==
  /\ record \in Endings
  /\ replies[s] = "none"
  /\ replies' = [replies EXCEPT ![s] = record]
  /\ UNCHANGED <<record, effects>>

Next == Accept \/ Happen \/ Conclude \/ \E s \in Sends : Reply(s)

Spec == Init /\ [][Next]_vars
=============================================================================
