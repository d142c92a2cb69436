------------------------------ MODULE MCVouchers ------------------------------
(* Instances of Vouchers for TLC. *)
EXTENDS Vouchers

Dr(amount) == [dr |-> amount, cr |-> 0]
Cr(amount) == [dr |-> 0, cr |-> amount]

\* One and two units, and a form that does not balance; in AllForms also one
\* unit in two halves, which round up one by one.
WholeForms == {<<Dr(2), Cr(2)>>, <<Dr(4), Cr(2), Cr(2)>>, <<Dr(4), Cr(2)>>}
AllForms   == WholeForms \cup {<<Dr(1), Dr(1), Cr(2)>>}
=============================================================================
