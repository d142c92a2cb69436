---------------------------- MODULE MCInvestments ----------------------------
(* Instances of Investments for TLC. *)
EXTENDS Investments

CONSTANTS i1, i2, p1, p2, c1, c2

Arrangements ==
    {[principal |-> 4, monthly |-> 1, fixed |-> TRUE,  term |-> 2, capital |-> None],
     [principal |-> 3, monthly |-> 0, fixed |-> FALSE, term |-> 1, capital |-> c2]}
OtherMoney == {-3, 3}
=============================================================================
