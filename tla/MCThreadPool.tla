---------------------------- MODULE MCThreadPool ----------------------------
(* A worker and two tasks; a SYNC is tried twice instead of fifteen times.   *)
EXTENDS ThreadPool

CONSTANTS w1, t1, t2
=============================================================================
