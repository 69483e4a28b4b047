----------------------------- MODULE MCPrintRun -----------------------------
(* Small instances of PrintRun for TLC. *)
EXTENDS PrintRun, TLC

CONSTANTS s1, s2, s3

SendSymmetry == Permutations(Sends)
=============================================================================
