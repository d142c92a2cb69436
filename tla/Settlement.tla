------------------------------ MODULE Settlement ------------------------------
(***************************************************************************)
(* What the receipt / payment desk promises about the invoices and bills:  *)
(* an entry is applied to documents as a whole, never beyond what is left  *)
(* to collect, and taken back as a whole, exactly as it was applied.  How  *)
(* entries are posted, cleared, bounced, corrected or deleted is not said. *)
(***************************************************************************)
EXTENDS Integers

CONSTANTS Entries, Docs,
          Amounts   \* what one entry may apply to one document

VARIABLES
    total,      \* the total of each document
    returned,   \* the value of the goods returned of each document
    paid,       \* the amount paid on each document
    applied     \* what each entry has applied to each document

vars == <<total, returned, paid, applied>>

Nothing == [d \in Docs |-> 0]

Init ==
    /\ total \in [Docs -> Nat]
    /\ returned = Nothing
    /\ paid = Nothing
    /\ applied = [e \in Entries |-> Nothing]

\* What is applied to a document is still to be collected.
Fits(amounts, d) ==
    amounts[d] > 0 => paid[d] + amounts[d] <= total[d] - returned[d]

Apply(e, amounts) ==
    /\ applied[e] = Nothing
    /\ amounts \in [Docs -> Nat]
    /\ \A d \in Docs : Fits(amounts, d)
    /\ applied' = [applied EXCEPT ![e] = amounts]
    /\ paid' = [d \in Docs |-> paid[d] + amounts[d]]
    /\ UNCHANGED <<total, returned>>

TakeBack(e) ==
    /\ applied' = [applied EXCEPT ![e] = Nothing]
    /\ paid' = [d \in Docs |-> paid[d] - applied[e][d]]
    /\ UNCHANGED <<total, returned>>

Return(d, amount) ==
    /\ amount \in Nat
    /\ returned[d] + amount <= total[d]
    /\ returned' = [returned EXCEPT ![d] = @ + amount]
    /\ UNCHANGED <<total, paid, applied>>

Next ==
    \/ \E e \in Entries, amounts \in [Docs -> Amounts] : Apply(e, amounts)
    \/ \E e \in Entries : TakeBack(e)
    \/ \E d \in Docs, amount \in Amounts : Return(d, amount)

Spec == Init /\ [][Next]_vars
=============================================================================
