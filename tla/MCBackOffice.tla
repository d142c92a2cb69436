----------------------------- MODULE MCBackOffice -----------------------------
(* Instances of BackOffice for TLC. *)
EXTENDS BackOffice

CONSTANTS r1, r2, inv1, inv2, ann, bob, p1, p2

MCDocParty == [d \in Docs |-> ann]

Unpaid(total) == [grand |-> total, paid |-> 0, returned |-> 0, flag |-> "unpaid"]
OneInvoice    == {Unpaid(2)}

Receipts   == [type : {"RECEIPT"}, method : {"CASH"}, pdc : {FALSE}]
PdcReceipt == [type : {"RECEIPT"}, method : {"CHEQUE"}, pdc : {TRUE}]
Mixed      == Receipts \cup PdcReceipt
=============================================================================
