------------------------------ MODULE MCComlink ------------------------------
(* A small instance of Comlink for TLC: a packet that verifies and has a      *)
(* blank in it, so that jobs are given its first word only, and one of       *)
(* another device that does not verify.                                      *)
EXTENDS Comlink

CONSTANTS c1, blank, bad, firstWord, deviceA, deviceB, null

MCFragment == {blank, bad}
MCNumber == [f \in MCFragment |-> IF f = blank THEN 45 ELSE 0]
MCFrags == [p \in Packets |-> <<p>>]
MCDevice == [f \in MCFragment |-> IF f = blank THEN deviceA ELSE deviceB]
MCWord == [f \in MCFragment |-> IF f = blank THEN firstWord ELSE f]
=============================================================================
