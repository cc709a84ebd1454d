------------------------------ MODULE MC_Kill2 ------------------------------
(* Values of the constants for the model-checking run of Kill2.            *)
EXTENDS Kill2

CONSTANTS p1, p2, p3, d1, d2, c1, c2

(* A Kill, and a Thaw that comes in between.                               *)
KillAndThaw == [c \in Caller |-> IF c = c1 THEN "kill" ELSE "thaw"]
=============================================================================
