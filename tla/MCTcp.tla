------------------------------- MODULE MCTcp -------------------------------
(* Small instances of the connections for TLC.                             *)
EXTENDS Tcp

CONSTANTS k1, k2, a1, a2

(* The client sends two bytes, the server none.                            *)
SomeBytes == [s \in Sides |-> IF s = "client" THEN 2 ELSE 0]
NoBytes   == [s \in Sides |-> 0]
=============================================================================
