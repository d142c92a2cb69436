-------------------------------- MODULE Books --------------------------------
(***************************************************************************)
(* The database rows that the receipt / payment desk and the voucher desk  *)
(* of the ERP share, and the operations of the accounting service on them. *)
(*                                                                         *)
(*   entries   table PaymentEntry: receipts and payments, one row per id;  *)
(*             the id stands for the document number as well               *)
(*   docs      the money columns of the posted invoices and bills (Sale,   *)
(*             Purchase) that a receipt or payment can be allocated to     *)
(*   vouchers  table Voucher in the order of creation.  Every voucher the  *)
(*             desk books has one debit and one credit line.               *)
(*   locked    whether fiscal.locked_until covers the date of the entries  *)
(***************************************************************************)
EXTENDS Integers, Sequences, FiniteSets, SequencesExt

CONSTANTS
    Entries,        \* ids of the receipts and payments
    Docs,           \* posted invoices and bills
    Parties,        \* customers and suppliers, named by their ledger account
    DocParty,       \* the customer or supplier of each document
    MaxAmount       \* amounts of money are 1 .. MaxAmount units

ASSUME BooksAssumption ==
    /\ DocParty \in [Docs -> Parties]
    /\ Parties # {}
    /\ MaxAmount \in Nat \ {0}
    /\ IsFiniteSet(Entries) /\ IsFiniteSet(Docs)

VARIABLES entries, docs, vouchers, locked

books == <<entries, docs, vouchers, locked>>

\* Cash is whatever account the form picked for an ordinary receipt, bank the
\* ledger account of the bank, pdc the account for cheques in hand, issued the
\* liability account for our own cheques that were not presented yet.
Holdings == {"cash", "bank", "pdc", "issued"}
Accounts == Parties \cup Holdings

Amounts == 1 .. MaxAmount

Types   == {"RECEIPT", "PAYMENT"}
Methods == {"CASH", "CHEQUE"}
Cheques == {"none", "PENDING", "IN_HAND", "DEPOSITED", "CLEARED", "BOUNCED",
            "ENDORSED"}

\* A row of PaymentEntry; absent before it is created.  pdc says that chequeDate is set; main is
\* mainAccountId; voucher is the position of the voucher voucherId refers to,
\* 0 for null; alloc holds the rows of PaymentAllocation.
Entry == [status  : {"absent", "pending", "posted", "cancelled", "deleted"},
          type    : Types,
          method  : Methods,
          pdc     : BOOLEAN,
          cheque  : Cheques,
          party   : Parties,
          main    : Accounts,
          amount  : Amounts,
          alloc   : [Docs -> Nat],
          voucher : Nat]

\* flag is paymentStatus (Sale) or payStatus (Purchase), a stored summary.
Doc == [grand : Nat, paid : Nat, returned : Nat,
        flag : {"paid", "partial", "unpaid"}]

\* ref is the entry number in the reference column.  kind names the handler that
\* booked the voucher (the description column says it).
Voucher == [ref    : Entries,
            kind   : {"post", "clear", "bounce", "endorse", "reversal"},
            dr     : Accounts,
            cr     : Accounts,
            amount : Amounts,
            status : {"draft", "posted", "cancelled", "deleted"}]

NoAllocation == [d \in Docs |-> 0]

\* What is left to collect on a document: grandTotal less what was paid and what
\* was returned, never below zero.
Outstanding(doc) ==
    IF doc.grand - doc.paid - doc.returned > 0
    THEN doc.grand - doc.paid - doc.returned
    ELSE 0

\* AccountingService.createVoucher followed by postVoucher in one transaction.
Booked(e, kind, dr, cr, amount) ==
    Append(vouchers, [ref |-> e, kind |-> kind, dr |-> dr, cr |-> cr,
                      amount |-> amount, status |-> "posted"])

\* Mutant: only the original posting is cancelled, not its later legs.
MutantCancelled(positions) ==
    [i \in DOMAIN vouchers |->
        IF i \in positions /\ vouchers[i].kind = "post"
        THEN [vouchers[i] EXCEPT !.status = "cancelled"]
        ELSE vouchers[i]]

\* AccountingService.cancelVoucher on each voucher of a set of positions; the
\* lines are kept.
Cancelled(positions) ==
    [i \in DOMAIN vouchers |->
        IF i \in positions /\ vouchers[i].status # "deleted"
        THEN [vouchers[i] EXCEPT !.status = "cancelled"]
        ELSE vouchers[i]]

\* The vouchers whose reference is the number of entry e.
VouchersOf(e) == {i \in DOMAIN vouchers : vouchers[i].ref = e}

\* Only posted vouchers count in AccountingService.accountBalance.
Live(i) == vouchers[i].status = "posted"

\* What a voucher adds to an account, debit positive.
Moved(v, account) ==
    (IF v.dr = account THEN v.amount ELSE 0) - (IF v.cr = account THEN v.amount ELSE 0)

\* What the posted vouchers at some positions add to an account.
Movement(positions, account) ==
    SumFunction([i \in positions |-> IF Live(i) THEN Moved(vouchers[i], account) ELSE 0])

Balance(account) == Movement(DOMAIN vouchers, account)

\* The flag of a document net of its posted returns, if paid was collected.
PaymentStatus(doc, paid) ==
    CASE paid >= doc.grand - doc.returned -> "paid"
      [] paid < doc.grand - doc.returned /\ paid > 0 -> "partial"
      [] OTHER -> "unpaid"

\* Document d after a handler that read its row as seen writes the amount paid.
WithPaid(d, seen, paid) ==
    [docs[d] EXCEPT !.paid = paid, !.flag = PaymentStatus(seen, paid)]

\* Mutant: allocations are not given back.
MutantReleased(seen, alloc) == docs

\* The documents after a handler that read the rows seen gave an allocation back:
\* max(0, paid - allocated) on each document that has one.
Released(seen, alloc) ==
    [d \in Docs |->
        IF alloc[d] = 0 THEN docs[d]
        ELSE WithPaid(d, seen[d], IF seen[d].paid > alloc[d]
                                  THEN seen[d].paid - alloc[d] ELSE 0)]

BooksTypeOK ==
    /\ entries \in [Entries -> Entry]
    /\ docs \in [Docs -> Doc]
    /\ vouchers \in Seq(Voucher)
    /\ locked \in BOOLEAN
=============================================================================
