------------------------------ MODULE MCSessions ------------------------------
(* Instances of Sessions for TLC. *)
EXTENDS Sessions

CONSTANTS t1, t2, c1, c2, c3

Made == [c \in Calls |-> IF c = c3 THEN t2 ELSE t1]
=============================================================================
