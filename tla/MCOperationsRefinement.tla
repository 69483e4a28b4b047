----------------------- MODULE MCOperationsRefinement -----------------------
(* Small instances of OperationsRefinement for TLC. *)
EXTENDS OperationsRefinement

CONSTANTS s1, s2, s3
=============================================================================
