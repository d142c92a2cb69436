------------------------------ MODULE MCPayments ------------------------------
(* Instances of Payments for TLC. *)
EXTENDS PartyReports

CONSTANTS r1, r2, inv1, inv2, ann, bob, p1, p2

MCDocParty == [d \in Docs |-> ann]

Unpaid(total) == [grand |-> total, paid |-> 0, returned |-> 0, flag |-> "unpaid"]
OneInvoice    == {Unpaid(2)}

Receipts   == [type : {"RECEIPT"}, method : {"CASH"}, pdc : {FALSE}]
CashBothWays == [type : Types, method : {"CASH"}, pdc : {FALSE}]
PdcReceipt == [type : {"RECEIPT"}, method : {"CHEQUE"}, pdc : {TRUE}]
PdcIssued  == [type : {"PAYMENT"}, method : {"CHEQUE"}, pdc : {TRUE}]
CashOrPdc  == Receipts \cup PdcReceipt
BothWays   == CashBothWays \cup PdcReceipt \cup PdcIssued

\* Requests are interchangeable and so are the ids of the entries.
Symmetry == Permutations(Procs) \cup Permutations(Entries)
=============================================================================
