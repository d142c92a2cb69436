-------------------------------- MODULE MCChart --------------------------------
(* Instances of Chart and Reports for TLC. *)
EXTENDS Reports, TLC

CONSTANTS cash, equity, other, a1, q1, e1, c1, p1, p2

Letters == a1 :> "ASSET" @@ q1 :> "EQUITY" @@ e1 :> "EXPENSE"

Filing(s) == [status |-> "active", sub |-> s, serial |-> 1, opening |-> 0]
SmallChart == cash :> Filing(a1) @@ equity :> Filing(q1)
WithExpenses == SmallChart @@ other :> Filing(e1)

Journal(debit, credit, day, doc) ==
    [debit |-> debit, credit |-> credit, amount |-> 1, day |-> day, doc |-> doc]
Journals == {Journal(other, cash, 1, Bare), Journal(cash, other, 2, c1), Journal(other, cash, 2, Manual)}

Form(a, s, opening, status) == [account |-> a, sub |-> s, opening |-> opening, status |-> status]
Savings == {Form(cash, a1, 2, "active"), Form(cash, a1, -1, "active"), Form(cash, a1, 0, "inactive"),
            Form(other, a1, 2, "active"), Form(other, e1, 2, "active"), Form(equity, q1, 0, "inactive")}
Zeroing == {Form(cash, a1, o, "active") : o \in 0..2}

TwoDays == 1..2

OneSavesOneDeletes == {<<p1, "update">>, <<p1, "create">>, <<p2, "delete">>, <<p2, "deleteSub">>}
OneSaves == {<<p1, "update">>}
=============================================================================
