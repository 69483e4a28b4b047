---------------------------- MODULE MCAgentTurns ----------------------------
(* Two turns of one session. *)
EXTENDS AgentTurns, TLC
CONSTANTS t1, t2
Symmetry == Permutations({t1, t2})
=============================================================================
