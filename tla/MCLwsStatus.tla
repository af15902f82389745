---------------------------- MODULE MCLwsStatus ----------------------------
(* Small instances of LwsStatus for the model checker.                      *)
EXTENDS LwsStatus

CONSTANTS c1, c2, c3
=============================================================================
