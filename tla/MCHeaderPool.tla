--------------------------- MODULE MCHeaderPool ---------------------------
(* Small instances of HeaderPool for TLC: connections of two peers.         *)
EXTENDS HeaderPool

CONSTANTS a1, a2, a3, a4, b1, b2, b3, alice, bob

MCPeer == [c \in Conns |-> IF c \in {a1, a2, a3, a4} THEN alice ELSE bob]
=============================================================================
