------------------------------ MODULE MCClaims ------------------------------
(* Small instances of Claims for TLC. *)
EXTENDS Claims

CONSTANTS a, b, c
=============================================================================
