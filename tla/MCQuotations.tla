---------------------------- MODULE MCQuotations ----------------------------
(* Instances of Quotations for TLC. *)
EXTENDS Quotations, TLC

CONSTANTS q1, q2, s1, s2, u1, u2

\* The invoices are alike.
Symmetry == Permutations(Invoices)
=============================================================================
