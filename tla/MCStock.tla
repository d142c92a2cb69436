------------------------------- MODULE MCStock --------------------------------
(* Instances of Stock for TLC. *)
EXTENDS Stock

CONSTANTS p1, l1, l2, b1, r1, s1, t1

Line(loc, to, qty, cost, of) == [loc |-> loc, to |-> to, qty |-> qty, cost |-> cost, of |-> of]
SomeForms ==
    {<<b1, Line(l1, l1, 1, 10, NoDoc)>>, <<b1, Line(l2, l2, 2, 31, NoDoc)>>,
     <<r1, Line(l1, l1, 1, 31, b1)>>,
     <<s1, Line(l2, l2, 1, NoCost, Invoice)>>,
     <<t1, Line(l1, l2, 1, NoCost, NoDoc)>>}
SomeSales == {<<l2, 1>>}

Everything == Ops \X Docs

\* The opening moves between the warehouses, is dated anew and loses its cost.
SomeOpenings == {<<l1, 1, 10>>, <<l2, 1, NoCost>>}
=============================================================================
