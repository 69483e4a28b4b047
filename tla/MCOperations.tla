---------------------------- MODULE MCOperations ----------------------------
(* Small instances of Operations for TLC. *)
EXTENDS Operations, TLC

CONSTANTS s1, s2, s3

SendSymmetry == Permutations(Sends)
=============================================================================
