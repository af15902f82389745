----------------------------- MODULE MCLwsMirror -----------------------------
(***************************************************************************)
(* Three sessions and the one instance they share; a ring of four holds     *)
(* three messages, so reception goes off at two and on again at one.        *)
(***************************************************************************)
EXTENDS LwsMirror

CONSTANTS c1, c2, c3, x
=============================================================================
