------------------------------ MODULE MCPayroll -------------------------------
(* Instances of Payroll for TLC. *)
EXTENDS Payroll

CONSTANTS e1, e2, r1, r2, q1, q2, c1, p1, d1, d2

FirstMonth   == [d \in Days |-> 1]
Requested    == [q \in Requests |-> [employee |-> e1, paid |-> TRUE,
                                     days |-> IF q = q1 THEN {d1} ELSE {d1, d2}]]
Allowances   == [e \in Employees |-> 2]
Earnings     == [e \in Employees |-> IF e = e1 THEN 3 ELSE 0]
Deductions1  == [e \in Employees |-> IF e = e1 THEN 0 ELSE 1]
Installments == [e \in Employees |-> IF e = e1 THEN 5 ELSE 0]
Edits        == {<<8, 0, 4>>}
Payments     == {<<Fund, -60>>, <<Fund, 60>>}
SheetRows    == {<<e1, d1>>}

Works(linked) == [active |-> TRUE, linked |-> linked, basic |-> 32]
Relinked      == {<<e1, Works(TRUE)>>, <<e2, Works(FALSE)>>, <<e2, Works(TRUE)>>}
Left          == [active |-> FALSE, linked |-> FALSE, basic |-> 32]
Roster        == {<<e1, Works(TRUE)>>, <<e2, Works(FALSE)>>, <<e2, Left>>}

Everything == {"generate", "update", "refresh", "post", "disburse", "cancel", "remove"}
Requested1 == (Everything \X {r1}) \cup ({"generate", "cancel"} \X {r2})
=============================================================================
