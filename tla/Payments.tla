------------------------------- MODULE Payments -------------------------------
(***************************************************************************)
(* The receipt / payment desk: PaymentsService with its handlers create,   *)
(* post, deposit (clear), bounce, endorse, cancel, remove and edit, served *)
(* to concurrent HTTP requests.                                            *)
(*                                                                         *)
(* Every handler reads the entry and checks it BEFORE it opens its         *)
(* transaction, and never checks it again.  A request therefore goes       *)
(* through the stages                                                      *)
(*                                                                         *)
(*   idle     nothing in progress                                          *)
(*   checked  the entry was read (row) and the guards passed               *)
(*   tx       the transaction is open: it took a number from its voucher   *)
(*            series, which locks that series until it ends, and has read  *)
(*            the documents it is about to write (seen)                    *)
(*   repost   an edit committed its reversal and is about to post again    *)
(*                                                                         *)
(* The writes of a transaction become visible together when it commits     *)
(* (PostgreSQL READ COMMITTED).  A request may fail at any point; what its *)
(* earlier transactions committed stays.                                   *)
(***************************************************************************)
EXTENDS Books

CONSTANTS
    Procs,          \* requests that may be in progress at the same time
    Ops,            \* the operations clients ask for
    Kinds,          \* the kinds of entries clients create
    EditColumns,    \* the columns clients correct with an edit
    InitialDocs,    \* the rows a document may have at the start
    MaxVouchers     \* bound: no booking starts once this many vouchers exist

AllOps     == {"post", "deposit", "bounce", "endorse", "cancel", "remove", "edit",
               "return", "quiet return", "lock"}
AllKinds   == [type : Types, method : Methods, pdc : BOOLEAN]
AllColumns == {"amount", "party", "pdc", "main"}

ASSUME PaymentsAssumption ==
    /\ Ops \subseteq AllOps
    /\ Kinds \subseteq AllKinds
    /\ EditColumns \subseteq AllColumns
    /\ InitialDocs \subseteq {doc \in Doc : doc.paid <= doc.grand}
    /\ MaxVouchers \in Nat

VARIABLE reqs       \* the request each process is serving

vars == <<entries, docs, vouchers, locked, reqs>>

Idle    == [stage |-> "idle"]
\* arg is the payee of an endorsement or the column values an edit writes.
Edit    == [amount : Amounts, party : Parties, pdc : BOOLEAN, main : Accounts]
NoArg   == [none |-> TRUE]
Args    == {NoArg} \cup [payee : Parties] \cup Edit
Checked == [stage : {"checked"}, op : AllOps, e : Entries, row : Entry, arg : Args]
InTx    == [stage : {"tx"}, op : AllOps, e : Entries, row : Entry, arg : Args,
            seen : [Docs -> Doc]]
Repost  == [stage : {"repost"}, e : Entries]

TypeOK ==
    /\ BooksTypeOK
    /\ reqs \in [Procs -> {Idle} \cup Checked \cup InTx \cup Repost]

Blank == [status |-> "absent", type |-> "RECEIPT", method |-> "CASH",
          pdc |-> FALSE, cheque |-> "none", party |-> CHOOSE p \in Parties : TRUE,
          main |-> "cash", amount |-> 1, alloc |-> NoAllocation, voucher |-> 0]

Init ==
    /\ entries = [e \in Entries |-> Blank]
    /\ docs \in [Docs -> InitialDocs]
    /\ vouchers = <<>>
    /\ locked = FALSE
    /\ reqs = [p \in Procs |-> Idle]

-------------------------------------------------------------------------------
(* What the handlers derive from a row.                                     *)

Exists(e)      == entries[e].status \notin {"absent", "deleted"}
IsPdc(row)     == row.method = "CHEQUE" /\ row.pdc
IsReceipt(row) == row.type = "RECEIPT"
Allocated(row) == {d \in Docs : row.alloc[d] > 0}
AllocatedTotal(alloc) == SumFunctionOnSet(alloc, Docs)

\* The account the money is booked on: a post-dated cheque we received waits in
\* the account for cheques in hand, everything else goes where the row says.
PostAccount(row) == IF IsPdc(row) /\ IsReceipt(row) THEN "pdc" ELSE row.main

\* The number series a transaction takes its voucher number from; incrementing
\* the counter holds the lock on its row until the transaction ends.
Series(op, row) ==
    CASE op \in {"post", "deposit"} /\ IsReceipt(row)  -> "voucher_receipt"
      [] op \in {"post", "deposit"} /\ ~IsReceipt(row) -> "voucher_payment"
      [] op \in {"bounce", "edit"}                     -> "voucher_receipt"
      [] op = "endorse"                                -> "voucher_payment"
      [] OTHER                                         -> "none"

Busy(series) ==
    \E p \in Procs : /\ reqs[p].stage = "tx"
                     /\ Series(reqs[p].op, reqs[p].row) = series
                     /\ series # "none"

-------------------------------------------------------------------------------
(* Reading and checking, before any transaction.                            *)

\* A request has read entry e and its guards hold.
Checks(p, op, e, arg) ==
    /\ op \in Ops
    /\ reqs[p] = Idle
    /\ Exists(e)
    /\ ~locked
    /\ reqs' = [reqs EXCEPT ![p] = [stage |-> "checked", op |-> op, e |-> e,
                                    row |-> entries[e], arg |-> arg]]
    /\ UNCHANGED books

MayBook == Len(vouchers) < MaxVouchers

Postable(row) == row.status = "pending"

PostRead(p, e) ==
    /\ MayBook
    /\ Postable(entries[e])
    /\ Checks(p, "post", e, NoArg)

\* Mutant: a bounced cheque is not refused.
MutantDepositable(row) ==
    row.method = "CHEQUE" /\ row.status = "posted" /\ row.cheque # "DEPOSITED"

Depositable(row) ==
    /\ row.method = "CHEQUE"
    /\ row.status = "posted"
    /\ row.cheque \notin {"DEPOSITED", "BOUNCED"}

DepositRead(p, e) ==
    /\ MayBook
    /\ Depositable(entries[e])
    /\ Checks(p, "deposit", e, NoArg)

Bounceable(row) == row.method = "CHEQUE" /\ row.cheque = "IN_HAND"

BounceRead(p, e) ==
    /\ MayBook
    /\ Bounceable(entries[e])
    /\ Checks(p, "bounce", e, NoArg)

Endorsable(row, payee) ==
    /\ row.method = "CHEQUE"
    /\ row.status = "posted"
    /\ row.cheque = "IN_HAND"
    /\ payee # row.party
    /\ Allocated(row) = {}

EndorseRead(p, e, payee) ==
    /\ MayBook
    /\ Endorsable(entries[e], payee)
    /\ Checks(p, "endorse", e, [payee |-> payee])

CancelRead(p, e) ==
    /\ entries[e].status = "pending"
    /\ Checks(p, "cancel", e, NoArg)

RemoveRead(p, e) == Checks(p, "remove", e, NoArg)

\* What an edit writes.  Making a receipt post-dated moves it to the account for
\* cheques in hand, unless the client names the account.
Edited(row, amount, party, pdc, main) ==
    [amount |-> amount, party |-> party, pdc |-> pdc,
     main |-> IF pdc /\ ~row.pdc /\ IsReceipt(row) /\ main = row.main
              THEN "pdc" ELSE main]

\* Cancelled, bounced and endorsed entries are terminal; once the money is in the
\* bank only columns that this model leaves out can change.
Editable(row) ==
    /\ row.status # "cancelled"
    /\ row.cheque \notin {"BOUNCED", "ENDORSED", "DEPOSITED", "CLEARED"}

EditRead(p, e) ==
    LET row == entries[e]
        May(column, old, all) == IF column \in EditColumns THEN all ELSE {old}
    IN  /\ MayBook
        /\ Editable(row)
        /\ row.status = "posted" =>
              row.voucher # 0 /\ vouchers[row.voucher].status # "deleted"
        /\ \E amount \in May("amount", row.amount, Amounts),
              party  \in May("party", row.party, Parties),
              pdc    \in May("pdc", row.pdc, BOOLEAN),
              main   \in May("main", row.main, {row.main, "cash"}) :
              /\ amount >= AllocatedTotal(row.alloc)
              /\ party # row.party => Allocated(row) = {}
              /\ Checks(p, "edit", e, Edited(row, amount, party, pdc, main))

-------------------------------------------------------------------------------
(* Transactions.                                                            *)

\* Mutant: a posted entry is corrected in place.
MutantSingleWrite(req) == req.op \in {"cancel", "edit"}

\* Operations whose writes are one statement outside any transaction.
SingleWrite(req) ==
    req.op = "cancel" \/ (req.op = "edit" /\ req.row.status = "pending")

Begin(p) ==
    /\ reqs[p].stage = "checked"
    /\ ~SingleWrite(reqs[p])
    /\ ~Busy(Series(reqs[p].op, reqs[p].row))
    /\ reqs' = [reqs EXCEPT ![p] = [stage |-> "tx", op |-> reqs[p].op,
                                    e |-> reqs[p].e, row |-> reqs[p].row,
                                    arg |-> reqs[p].arg, seen |-> docs]]
    /\ UNCHANGED books

Finish(p) == reqs' = [reqs EXCEPT ![p] = Idle]

\* The transaction of operation op reaches its commit.  Every one of them ends
\* with an update or delete of the entry's row, which fails if the row is gone.
Committing(p, op) ==
    /\ reqs[p].stage = "tx"
    /\ reqs[p].op = op
    /\ Exists(reqs[p].e)

\* Mutant: a plain update of the amount paid.
MutantSwappable(req, d) == TRUE

\* The compare-and-swap on the amount paid.
Swappable(req, d) == docs[d].paid = req.seen[d].paid

\* Mutant: post trusts the check that create made.
MutantCovered(req, d) == TRUE

\* The check against the live balance inside the transaction.
Covered(req, d) == req.row.alloc[d] <= Outstanding(req.seen[d])

PostCommit(p) ==
    LET req == reqs[p]
        row == req.row
        account == PostAccount(row)
    IN  /\ Committing(p, "post")
        /\ \A d \in Allocated(row) : Covered(req, d)
        /\ \A d \in Allocated(row) : Swappable(req, d)
        /\ vouchers' = IF IsReceipt(row)
                       THEN Booked(req.e, "post", account, row.party, row.amount)
                       ELSE Booked(req.e, "post", row.party, account, row.amount)
        /\ docs' = [d \in Docs |->
                      IF d \in Allocated(row)
                      THEN WithPaid(d, req.seen[d], req.seen[d].paid + row.alloc[d])
                      ELSE docs[d]]
        /\ entries' = [entries EXCEPT
                         ![req.e].status  = "posted",
                         ![req.e].voucher = Len(vouchers) + 1,
                         ![req.e].main    = IF IsPdc(row) THEN account ELSE @,
                         ![req.e].cheque  = IF IsPdc(row) THEN "IN_HAND"
                                            ELSE IF row.method = "CHEQUE"
                                            THEN "CLEARED" ELSE @]
        /\ Finish(p)
        /\ UNCHANGED locked

\* A cheque we issued leaves the bank; a cheque we received enters it.
DepositCommit(p) ==
    LET req == reqs[p]
        row == req.row
    IN  /\ Committing(p, "deposit")
        /\ vouchers' = IF IsReceipt(row)
                       THEN Booked(req.e, "clear", "bank", "pdc", row.amount)
                       ELSE Booked(req.e, "clear", row.main, "bank", row.amount)
        /\ entries' = [entries EXCEPT ![req.e].cheque =
                         IF IsReceipt(row) THEN "DEPOSITED" ELSE "CLEARED"]
        /\ Finish(p)
        /\ UNCHANGED <<docs, locked>>

BounceCommit(p) ==
    LET req == reqs[p]
        row == req.row
    IN  /\ Committing(p, "bounce")
        /\ vouchers' = IF IsReceipt(row)
                       THEN Booked(req.e, "bounce", row.party, "pdc", row.amount)
                       ELSE Booked(req.e, "bounce", row.main, row.party, row.amount)
        /\ docs' = Released(req.seen, row.alloc)
        /\ entries' = [entries EXCEPT ![req.e].cheque = "BOUNCED",
                                      ![req.e].alloc  = NoAllocation]
        /\ Finish(p)
        /\ UNCHANGED locked

EndorseCommit(p) ==
    LET req == reqs[p]
        row == req.row
    IN  /\ Committing(p, "endorse")
        /\ vouchers' = Booked(req.e, "endorse", req.arg.payee, row.party, row.amount)
        /\ entries' = [entries EXCEPT ![req.e].cheque = "ENDORSED"]
        /\ Finish(p)
        /\ UNCHANGED <<docs, locked>>

\* Deleting a posted entry gives its allocations back and cancels every voucher
\* that carries its number.
RemoveCommit(p) ==
    LET req == reqs[p]
        wasPosted == req.row.status = "posted"
    IN  /\ Committing(p, "remove")
        /\ docs' = IF wasPosted THEN Released(req.seen, req.row.alloc) ELSE docs
        /\ vouchers' = IF wasPosted
                       THEN Cancelled(VouchersOf(req.e) \cup {req.row.voucher})
                       ELSE vouchers
        /\ entries' = [entries EXCEPT ![req.e] = [Blank EXCEPT !.status = "deleted"]]
        /\ Finish(p)
        /\ UNCHANGED locked

\* The columns an edit sets; the others keep their current values.
Overwritten(e, arg) ==
    [entries[e] EXCEPT !.amount = arg.amount, !.party = arg.party,
                       !.pdc = arg.pdc, !.main = arg.main]

\* First transaction of reverseAndRepost: a voucher with the sides of the original
\* swapped, the allocations given back, the entry pending with its new values.
ReverseCommit(p) ==
    LET req == reqs[p]
        row == req.row
        original == vouchers[row.voucher]
    IN  /\ Committing(p, "edit")
        /\ vouchers' = Booked(req.e, "reversal", original.cr, original.dr,
                              original.amount)
        /\ docs' = Released(req.seen, row.alloc)
        /\ entries' = [entries EXCEPT ![req.e] =
                         [Overwritten(req.e, req.arg) EXCEPT !.status = "pending",
                                                             !.voucher = 0,
                                                             !.cheque = "none"]]
        /\ reqs' = [reqs EXCEPT ![p] = [stage |-> "repost", e |-> req.e]]
        /\ UNCHANGED locked

\* ... and its call of post, which starts from the beginning.
RepostRead(p) ==
    /\ reqs[p].stage = "repost"
    /\ Postable(entries[reqs[p].e])
    /\ ~locked
    /\ reqs' = [reqs EXCEPT ![p] = [stage |-> "checked", op |-> "post",
                                    e |-> reqs[p].e, row |-> entries[reqs[p].e],
                                    arg |-> NoArg]]
    /\ UNCHANGED books

EditCommit(p) ==
    LET req == reqs[p]
    IN  /\ req.stage = "checked"
        /\ req.op = "edit"
        /\ SingleWrite(req)
        /\ Exists(req.e)
        /\ entries' = [entries EXCEPT ![req.e] = Overwritten(req.e, req.arg)]
        /\ Finish(p)
        /\ UNCHANGED <<docs, vouchers, locked>>

CancelCommit(p) ==
    LET req == reqs[p]
    IN  /\ req.stage = "checked"
        /\ req.op = "cancel"
        /\ Exists(req.e)
        /\ entries' = [entries EXCEPT ![req.e].status = "cancelled"]
        /\ Finish(p)
        /\ UNCHANGED <<docs, vouchers, locked>>

\* A request ends without its remaining writes: a guard refuses it, the swap or
\* the check of the balance fails, the row is gone, or the server stops.
Fail(p) ==
    /\ reqs[p] # Idle
    /\ Finish(p)
    /\ UNCHANGED books

-------------------------------------------------------------------------------
(* Creation, and what other parts of the system do to the shared rows.      *)

\* create checks the allocations against documents nothing was applied to yet.
Create(e, kind, party, amount, alloc) ==
    /\ entries[e].status = "absent"
    /\ ~locked
    /\ AllocatedTotal(alloc) <= amount
    /\ \A d \in Docs : alloc[d] > 0 => /\ DocParty[d] = party
                                       /\ alloc[d] <= Outstanding(docs[d])
    /\ LET isPdc == kind.method = "CHEQUE" /\ kind.pdc
       IN  entries' = [entries EXCEPT ![e] =
             [status |-> "pending", type |-> kind.type, method |-> kind.method,
              pdc |-> kind.pdc, cheque |-> IF isPdc THEN "PENDING" ELSE "none",
              party |-> party,
              main |-> IF ~isPdc THEN "cash"
                       ELSE IF kind.type = "RECEIPT" THEN "pdc" ELSE "issued",
              amount |-> amount, alloc |-> alloc, voucher |-> 0]]
    /\ UNCHANGED <<docs, vouchers, locked, reqs>>

\* The returns desk posts a return of part of a document: at any time, or ("quiet return")
\* while no request of the payment desk is in progress.
PostReturn(d, amount) ==
    /\ \/ "return" \in Ops
       \/ "quiet return" \in Ops /\ \A p \in Procs : reqs[p].stage = "idle"
    /\ docs[d].returned + amount <= docs[d].grand
    /\ docs' = [docs EXCEPT ![d].returned = @ + amount]
    /\ UNCHANGED <<entries, vouchers, locked, reqs>>

\* The administrator closes or reopens the period of the entries.
SetLock ==
    /\ "lock" \in Ops
    /\ locked' = ~locked
    /\ UNCHANGED <<entries, docs, vouchers, reqs>>

Next ==
    \/ \E p \in Procs, e \in Entries :
          \/ PostRead(p, e) \/ DepositRead(p, e) \/ BounceRead(p, e)
          \/ \E payee \in Parties : EndorseRead(p, e, payee)
          \/ CancelRead(p, e) \/ RemoveRead(p, e) \/ EditRead(p, e)
    \/ \E p \in Procs :
          \/ Begin(p)
          \/ PostCommit(p) \/ DepositCommit(p) \/ BounceCommit(p)
          \/ EndorseCommit(p) \/ RemoveCommit(p) \/ CancelCommit(p)
          \/ EditCommit(p) \/ ReverseCommit(p) \/ RepostRead(p)
          \/ Fail(p)
    \/ \E e \in Entries, kind \in Kinds, party \in Parties, amount \in Amounts,
          alloc \in [Docs -> 0 .. MaxAmount] : Create(e, kind, party, amount, alloc)
    \/ \E d \in Docs, amount \in Amounts : PostReturn(d, amount)
    \/ SetLock

Spec == Init /\ [][Next]_vars

-------------------------------------------------------------------------------
(* Correctness.                                                             *)

\* The amount paid on a document never exceeds its total, however requests that
\* post, bounce, delete and correct entries overlap (PaymentsService.post checks
\* the balance again inside its transaction and swaps the amount paid).
PaidWithinTotal == \A d \in Docs : docs[d].paid <= docs[d].grand

\* Entries whose allocations are in force: posted and not bounced (bouncing and
\* reversing take the allocations back).
InForce == {e \in Entries : entries[e].status = "posted"}

\* The amount paid on a document is what the posted entries allocate to it, for
\* documents that nothing was paid on at the start.
PaidIsAllocated ==
    \A d \in Docs :
        docs[d].paid = SumFunction([e \in InForce |-> entries[e].alloc[d]])

\* What was paid on a document is what the live postings of the desk collected on
\* it, even when requests overlap: the swap loses no posting.  (For clients that
\* do not take allocations back.)
CollectedIsBooked ==
    LET postings == {i \in DOMAIN vouchers : Live(i) /\ vouchers[i].kind = "post"}
    IN  \A d \in Docs :
            docs[d].paid = SumFunction([i \in postings |-> entries[vouchers[i].ref].alloc[d]])

\* An entry that is not posted (never posted, cancelled, deleted, or caught between
\* the reversal and the second posting of an edit) leaves no trace in any account:
\* "cancelled so the ledger is left clean".
UnpostedLeavesNoTrace ==
    \A e \in Entries : entries[e].status # "posted" =>
        \A account \in Accounts : Movement(VouchersOf(e), account) = 0

\* The account for cheques in hand holds the received cheques in hand, and the
\* account for issued cheques the cheques that were not presented.
InHand(type) == {e \in InForce : entries[e].type = type /\ entries[e].cheque = "IN_HAND"}
HoldingsMatchCheques ==
    /\ Balance("pdc") = SumFunction([e \in InHand("RECEIPT") |-> entries[e].amount])
    /\ Balance("issued") = 0 - SumFunction([e \in InHand("PAYMENT") |-> entries[e].amount])

\* A posted entry points at a live voucher that moves its present amount to or from
\* its present party.
PostedMatchesVoucher ==
    \A e \in InForce :
        LET row == entries[e]
            v   == vouchers[row.voucher]
        IN  /\ row.voucher \in VouchersOf(e)
            /\ v.status = "posted" /\ v.kind = "post"
            /\ v.amount = row.amount
            /\ row.party = IF IsReceipt(row) THEN v.cr ELSE v.dr

\* The live vouchers of some kinds booked for an entry.
Booking(e, kinds) == {i \in VouchersOf(e) : Live(i) /\ vouchers[i].kind \in kinds}

\* The money of a cheque passes through the bank once.  The code does not have it: an
\* issued cheque that was cleared can be cleared again.
ClearedOnce ==
    \A e \in Entries : Cardinality(Booking(e, {"clear"})) <= 1

\* A cheque ends one way: cleared, bounced or endorsed, and only once.
OneOutcome ==
    \A e \in Entries : Cardinality(Booking(e, {"clear", "bounce", "endorse"})) <= 1

\* An entry is on the books once: its live postings exceed its reversals by one
\* at most.  The code has it for one request at a time: two that post the same entry both
\* book it.
OnTheBooksOnce ==
    \A e \in Entries :
        Cardinality(Booking(e, {"post"})) - Cardinality(Booking(e, {"reversal"})) <= 1

\* Operations that come late bring nothing back: a cheque that bounced is never in hand, in
\* the bank or on the books again, its row changes only by deletion; and a cancelled entry
\* stays cancelled until it is deleted.
FinalStays ==
    [][\A e \in Entries :
          /\ entries[e].cheque = "BOUNCED" =>
                entries'[e] = entries[e] \/ entries'[e].status = "deleted"
          /\ entries[e].status = "cancelled" => entries'[e].status \in {"cancelled", "deleted"}]_vars

\* What the entries in force have applied to the documents.
Applied == [e \in Entries |-> IF e \in InForce THEN entries[e].alloc ELSE NoAllocation]

\* One request at a time, every operation of the desk applies an entry to its
\* documents or takes it back as a whole, as Settlement promises.
Promise ==
    INSTANCE Settlement WITH Amounts  <- 0 .. MaxAmount,
                             total    <- [d \in Docs |-> docs[d].grand],
                             returned <- [d \in Docs |-> docs[d].returned],
                             paid     <- [d \in Docs |-> docs[d].paid],
                             applied  <- Applied

KeepsPromise == Promise!Spec
=============================================================================
