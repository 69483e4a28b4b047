-------------------------- MODULE MCSessionGate --------------------------
(* Two calls that may park. *)
EXTENDS SessionGate, TLC
CONSTANTS r1, r2
Symmetry == Permutations({r1, r2})
==========================================================================
