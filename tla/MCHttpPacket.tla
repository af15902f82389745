---------------------------- MODULE MCHttpPacket ----------------------------
(* Small instances of HttpPacket for TLC.                                   *)
EXTENDS HttpPacket

CONSTANTS c1, c2

\* A POST in two pieces, an empty POST, a GET, and a POST of an http/1.0 client.
Post2 == [post |-> TRUE, len |-> 2, keep |-> TRUE]
Post0 == [post |-> TRUE, len |-> 0, keep |-> TRUE]
Get == [post |-> FALSE, len |-> 0, keep |-> TRUE]
Once == [post |-> TRUE, len |-> 1, keep |-> FALSE]
MCRequests == {Post2, Post0, Get, Once}

\* One connection makes requests; the other only comes and goes, which is what
\* broadcasts EVENT_WAIT_CANCELLED.
MCMaxRequests == [c \in Conns |-> IF c = c1 THEN 3 ELSE 0]
=============================================================================
