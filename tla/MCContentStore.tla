-------------------------- MODULE MCContentStore --------------------------
(* Two keys, two operations at a time, each followed by others. *)
EXTENDS ContentStore, TLC
CONSTANTS k1, k2, p1, p2, b1, b2
Symmetry == Permutations({k1, k2}) \cup Permutations({p1, p2}) \cup Permutations({b1, b2})
===========================================================================
