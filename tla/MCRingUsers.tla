---------------------------- MODULE MCRingUsers -----------------------------
(* Small instances of RingUsers for TLC.                                    *)
EXTENDS RingUsers

CONSTANTS r1, r2, null, a, b, garbage
=============================================================================
