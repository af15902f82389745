--------------------------- MODULE MCLwsWebsocket ---------------------------
(* Small instances of LwsWebsocket for TLC.                                 *)
EXTENDS LwsWebsocket, TLC

CONSTANTS c1, c2, good, bad, long, broken, notes, null

\* Fragments: a packet that verifies, one that does not, the head of a packet
\* longer than 128 bytes (its tail is a bad fragment too), one with an empty
\* field, on which str_split() asserts, and a PC_NOTES packet (number 7).
MCFragment == {good, bad, broken, notes}
MCNumber == [f \in MCFragment |-> CASE f = good -> 45 [] f = notes -> 7 [] OTHER -> 0]
MCFrags == [p \in Packets |-> IF p = long THEN <<bad, bad>> ELSE <<p>>]
Symm == Permutations({c1, c2})
=============================================================================
