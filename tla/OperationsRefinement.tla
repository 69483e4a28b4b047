------------------------ MODULE OperationsRefinement ------------------------
(***************************************************************************)
(* Operations implements KeyedCommand while nothing is terminated.         *)
(***************************************************************************)
EXTENDS Operations

\* The executions that wrote a record: at most one while nothing is terminated.
Recorded == {r \in Runs : rank[r] > 0}

\* What the command's record says, or said before it was pruned.
RecordOf(r) == IF told[r] # "none" THEN told[r] ELSE row[r]

TheRecord ==
  IF Recorded = {} THEN "none" ELSE RecordOf(CHOOSE r \in Recorded : TRUE)
TheEffects == IF Recorded = {} THEN 0 ELSE landed[CHOOSE r \in Recorded : TRUE]
TheReplies == [s \in Sends |-> IF FinalAnswer(s) THEN answer[s] ELSE "none"]

Abstract == INSTANCE KeyedCommand
  WITH Attempts <- RunAttempts, record <- TheRecord, effects <- TheEffects,
       replies <- TheReplies

\* Every behaviour of the route, workflow, activities and store is one of a write-once
\* record whose effect is bounded and whose answers are the record.
ImplementsKeyedCommand == Abstract!Spec
=============================================================================
