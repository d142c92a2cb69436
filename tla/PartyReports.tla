----------------------------- MODULE PartyReports -----------------------------
(***************************************************************************)
(* What the reports say a customer owes: the ageing and the statement of   *)
(* PartyReportsService, the summary of InventoryReportsService, the        *)
(* balance that CustomersService shows and the figures of the dashboard.   *)
(* Each adds up other columns of the tables that the payment desk writes.  *)
(*                                                                         *)
(* Every document is on one day and none is older than another: buckets,   *)
(* due dates and the opening balance of a period are left out.  Sales and  *)
(* returns book their documents on the account of the customer.            *)
(***************************************************************************)
EXTENDS Payments

DocsOf(party)    == {d \in Docs : DocParty[d] = party}
EntriesOf(party) == {e \in Entries : entries[e].party = party}

Gross(party)     == SumFunction([d \in DocsOf(party) |-> docs[d].grand])
Returned(party)  == SumFunction([d \in DocsOf(party) |-> docs[d].returned])
Collected(party) == SumFunction([d \in DocsOf(party) |-> docs[d].paid])
NotBelowZero(n)  == IF n > 0 THEN n ELSE 0

\* openInvoices: what is offered for allocation.
OpenInvoices(party) == SumFunction([d \in DocsOf(party) |-> Outstanding(docs[d])])

\* customerOpenDocuments takes the invoices that are not flagged as paid, and every
\* return of the customer.
OpenDocuments(party) == {d \in DocsOf(party) : docs[d].flag # "paid"}

\* partyAgeing: the returns are set against the oldest documents first.
Ageing(party) ==
    NotBelowZero(SumFunction([d \in OpenDocuments(party) |-> docs[d].grand - docs[d].paid])
                 - Returned(party))

\* customerSummary, and the balance of a customer without an account.
Summary(party) == Gross(party) - Returned(party) - Collected(party)

\* Mutant: entries that wait for their posting count.
MutantSettling(party) == {e \in EntriesOf(party) : entries[e].status \in {"pending", "posted"}}

\* The receipts and payments on a statement; the state of a cheque is not asked for.
Settling(party) == {e \in EntriesOf(party) : entries[e].status = "posted"}

\* partyStatement: "an invoice is a debit, a return is a credit, and both a payment and a
\* receipt are credits".
Statement(party) ==
    Gross(party) - Returned(party) - SumFunction([e \in Settling(party) |-> entries[e].amount])

\* calculateBalance of a customer with an account: "the posted voucher ledger is the
\* single source of truth".
LedgerBalance(party) == Gross(party) - Returned(party) + Balance(party)

\* sumOutstandingCustomers adds the documents to the ledger.
OnDashboard(party) == NotBelowZero(LedgerBalance(party) + Summary(party))

\* chequesInHand and bouncedCheques of the dashboard.
ChequesAre(status) ==
    SumFunction([e \in {f \in InForce : IsReceipt(entries[f]) /\ entries[f].cheque = status}
                   |-> entries[e].amount])

-------------------------------------------------------------------------------
(* Properties.                                                              *)

\* The customer only paid, with receipts that were wholly allocated and no bounced cheque.
Plain(party) ==
    \A e \in Settling(party) :
        /\ IsReceipt(entries[e]) /\ entries[e].cheque # "BOUNCED"
        /\ AllocatedTotal(entries[e].alloc) = entries[e].amount

\* No invoice that the reports leave out as paid has a return that they do count.
NoneHidden(party) ==
    DocsOf(party) = OpenDocuments(party) \/ Cardinality(DocsOf(party)) = 1

\* All screens tell a plain customer the same balance, whatever was bounced, cancelled,
\* corrected half way or deleted before: the stored amountPaid and paymentStatus, the
\* posted entries and the ledger say one thing.
ReportsAgree ==
    \A party \in Parties : Plain(party) =>
        /\ Statement(party) = Summary(party)
        /\ LedgerBalance(party) = Summary(party)
        /\ NoneHidden(party) => /\ Ageing(party) = NotBelowZero(Summary(party))
                                /\ OpenInvoices(party) >= Ageing(party)

\* What the code does not have.  Any customer's statement ends with the balance of the
\* ledger: a bounced cheque stays on the statement as a credit.
StatementFollowsLedger ==
    \A party \in Parties : Statement(party) = LedgerBalance(party)

\* The ageing is what the open invoices come to: a return of an invoice that is flagged as
\* paid is set against the other invoices of its customer.
AgeingFollowsDocuments ==
    \A party \in Parties : Ageing(party) = OpenInvoices(party)

\* The dashboard says what the customer's own page says: it adds the documents to the
\* ledger, which holds them already.
DashboardFollowsLedger ==
    \A party \in Parties : OnDashboard(party) = NotBelowZero(LedgerBalance(party))
=============================================================================
