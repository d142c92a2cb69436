---------------------------- MODULE Payments_proofs ----------------------------
(***************************************************************************)
(* Proofs about the receipt / payment desk, for any number of requests,    *)
(* entries, documents and parties.                                         *)
(*                                                                         *)
(* However requests overlap:                                               *)
(*   TypeCorrect         the rows and the requests keep their types        *)
(*   NeverOverCollected  no document is paid beyond its total              *)
(*   NoPostingLost       the amount paid is what the postings collected    *)
(* While requests that overlap are about different entries:                *)
(*   CleanLedger, EntriesMatchVouchers, FinalIsFinal, HoldingsHold         *)
(* ... and none takes an allocation back from a document that another pays:*)
(*   PaidFollowsEntries, DeskKeepsPromise (the desk implements Settlement) *)
(*   and ReportsTellOneBalance                                             *)
(* With the voucher desk beside it, whether or not they overlap:           *)
(*   DeskTypeCorrect, PointersHold, DeletionTakesAll,                      *)
(*   NeitherDeskOverCollects                                               *)
(***************************************************************************)
EXTENDS BackOffice, PartyReports, Sums, TLAPS

\* What a request carries depends on its operation: an endorsement names the
\* payee, an edit the new columns.  A row points at one of the n vouchers.
Pointer(row, n) == row.voucher \in 0 .. n

ReqOK(req, n) ==
    /\ Pointer(req.row, n)
    /\ req.op = "endorse" => req.arg \in [payee : Parties]
    /\ req.op = "edit" => req.arg \in Edit
    /\ req.op = "edit" /\ ~SingleWrite(req) => req.row.voucher # 0
    /\ req.stage = "tx" => ~SingleWrite(req)

TypeInv ==
    /\ TypeOK
    /\ \A e \in Entries : Pointer(entries[e], Len(vouchers))
    /\ \A p \in Procs : reqs[p].stage \in {"checked", "tx"} =>
          ReqOK(reqs[p], Len(vouchers))

\* The rows that an open transaction has read are within their totals, and nothing
\* the desk does changes the total of a document.
Bounded(doc) == doc.paid <= doc.grand

PaidInv ==
    /\ PaidWithinTotal
    /\ \A p \in Procs : reqs[p].stage = "tx" =>
          \A d \in Docs : /\ Bounded(reqs[p].seen[d])
                          /\ reqs[p].seen[d].grand = docs[d].grand

-------------------------------------------------------------------------------
(* Facts about the types.                                                   *)

LEMMA Requests ==
    ASSUME NEW req \in {Idle} \cup Checked \cup InTx \cup Repost
    PROVE  /\ req.stage \in {"idle", "checked", "tx", "repost"}
           /\ req.stage = "checked" => req \in Checked
           /\ req.stage = "tx" => req \in InTx
           /\ req.stage = "repost" => req \in Repost
BY DEF Idle, Checked, InTx, Repost

LEMMA Amounts1 == Amounts \subseteq Nat /\ 1 \in Amounts
BY BooksAssumption DEF BooksAssumption, Amounts

LEMMA BlankTyped == Blank \in Entry
<1>1. (CHOOSE p \in Parties : TRUE) \in Parties
  BY BooksAssumption DEF BooksAssumption
<1>2. NoAllocation \in [Docs -> Nat]
  BY DEF NoAllocation
<1>3. "cash" \in Accounts
  BY DEF Accounts, Holdings
<1> QED BY <1>1, <1>2, <1>3, Amounts1 DEF Blank, Entry, Types, Methods, Cheques

\* The row that post writes.
PostedRow(old, voucher, main, cheque) ==
    [old EXCEPT !.status = "posted", !.voucher = voucher, !.main = main,
                !.cheque = cheque]

LEMMA PostedRowTyped ==
    ASSUME NEW old \in Entry, NEW voucher \in Nat, NEW main \in Accounts,
           NEW cheque \in Cheques
    PROVE  /\ PostedRow(old, voucher, main, cheque) \in Entry
           /\ PostedRow(old, voucher, main, cheque).voucher = voucher
BY DEF PostedRow, Entry

\* The row that an edit writes.
LEMMA OverwrittenTyped ==
    ASSUME entries \in [Entries -> Entry], NEW e \in Entries, NEW arg \in Edit
    PROVE  /\ Overwritten(e, arg) \in Entry
           /\ Overwritten(e, arg).voucher = entries[e].voucher
<1> DEFINE old == entries[e]
<1>1. old \in Entry
  OBVIOUS
<1>2. /\ arg.amount \in Amounts /\ arg.party \in Parties /\ arg.pdc \in BOOLEAN
      /\ arg.main \in Accounts
  BY DEF Edit
<1>3. Overwritten(e, arg) = [old EXCEPT !.amount = arg.amount, !.party = arg.party,
                                        !.pdc = arg.pdc, !.main = arg.main]
  BY DEF Overwritten
<1> HIDE DEF old
<1>4. /\ Overwritten(e, arg) \in Entry
      /\ Overwritten(e, arg).voucher = old.voucher
  BY <1>1, <1>2, <1>3 DEF Entry
<1> QED BY <1>4 DEF old

\* Booking appends a voucher of the right type and moves no other.
LEMMA BookedTyped ==
    ASSUME vouchers \in Seq(Voucher),
           NEW e \in Entries, NEW dr \in Accounts, NEW cr \in Accounts,
           NEW amount \in Amounts,
           NEW kind \in {"post", "clear", "bounce", "endorse", "reversal"}
    PROVE  /\ Booked(e, kind, dr, cr, amount) \in Seq(Voucher)
           /\ Len(Booked(e, kind, dr, cr, amount)) = Len(vouchers) + 1
BY DEF Booked, Voucher

LEMMA CancelledTyped ==
    ASSUME vouchers \in Seq(Voucher), NEW positions
    PROVE  /\ Cancelled(positions) \in Seq(Voucher)
           /\ Len(Cancelled(positions)) = Len(vouchers)
<1> DEFINE cancel == Cancelled(positions)
<1>1. DOMAIN vouchers = 1 .. Len(vouchers) /\ Len(vouchers) \in Nat
  OBVIOUS
<1>2. ASSUME NEW i \in DOMAIN vouchers PROVE cancel[i] \in Voucher
  <2>1. vouchers[i] \in Voucher
    BY <1>1
  <2>2. [vouchers[i] EXCEPT !.status = "cancelled"] \in Voucher
    BY <2>1 DEF Voucher
  <2> QED BY <2>1, <2>2 DEF Cancelled
<1>3. cancel \in [1 .. Len(vouchers) -> Voucher]
  BY <1>1, <1>2 DEF Cancelled
<1>4. cancel \in Seq(Voucher) /\ Len(cancel) = Len(vouchers)
  BY <1>1, <1>3
<1> QED BY <1>4

LEMMA PaymentStatusTyped ==
    ASSUME NEW doc, NEW paid
    PROVE  PaymentStatus(doc, paid) \in {"paid", "partial", "unpaid"}
BY DEF PaymentStatus

LEMMA WithPaidTyped ==
    ASSUME docs \in [Docs -> Doc], NEW d \in Docs, NEW seen, NEW paid \in Nat
    PROVE  /\ WithPaid(d, seen, paid) \in Doc
           /\ WithPaid(d, seen, paid).paid = paid
           /\ WithPaid(d, seen, paid).grand = docs[d].grand
BY PaymentStatusTyped DEF WithPaid, Doc

\* Giving an allocation back keeps the types and totals and raises no amount paid
\* beyond what the transaction had read.
LEMMA ReleasedTyped ==
    ASSUME docs \in [Docs -> Doc], NEW seen \in [Docs -> Doc],
           NEW alloc \in [Docs -> Nat]
    PROVE  /\ Released(seen, alloc) \in [Docs -> Doc]
           /\ \A d \in Docs :
                 /\ Released(seen, alloc)[d].grand = docs[d].grand
                 /\ \/ Released(seen, alloc)[d].paid = docs[d].paid
                    \/ Released(seen, alloc)[d].paid <= seen[d].paid
<1>1. ASSUME NEW d \in Docs
      PROVE  /\ Released(seen, alloc)[d] \in Doc
             /\ Released(seen, alloc)[d].grand = docs[d].grand
             /\ \/ Released(seen, alloc)[d].paid = docs[d].paid
                \/ Released(seen, alloc)[d].paid <= seen[d].paid
  <2> DEFINE left == IF seen[d].paid > alloc[d] THEN seen[d].paid - alloc[d] ELSE 0
  <2>1. left \in Nat /\ left <= seen[d].paid
    BY DEF Doc
  <2>2. Released(seen, alloc)[d] = IF alloc[d] = 0 THEN docs[d]
                                   ELSE WithPaid(d, seen[d], left)
    BY DEF Released
  <2> QED BY <2>1, <2>2, WithPaidTyped
<1>2. Released(seen, alloc) = [d \in Docs |-> Released(seen, alloc)[d]]
  BY DEF Released
<1> QED BY <1>1, <1>2

-------------------------------------------------------------------------------
(* The rows and requests keep their types.                                  *)

LEMMA TypeInit == Init => TypeInv
<1> SUFFICES ASSUME Init PROVE TypeInv
    OBVIOUS
<1>1. entries \in [Entries -> Entry] /\ \A e \in Entries : entries[e].voucher = 0
  BY BlankTyped DEF Init, Blank
<1>2. docs \in [Docs -> Doc]
  BY PaymentsAssumption DEF PaymentsAssumption, Init
<1>3. vouchers \in Seq(Voucher) /\ Len(vouchers) = 0 /\ locked \in BOOLEAN
  <2>1. vouchers = <<>> /\ locked = FALSE
    BY DEF Init
  <2>2. vouchers \in Seq(Voucher) /\ Len(vouchers) = 0
    BY <2>1
  <2> QED BY <2>1, <2>2
<1>4. reqs \in [Procs -> {Idle}] /\ \A p \in Procs : reqs[p].stage = "idle"
  BY DEF Init, Idle
<1>5. TypeOK
  BY <1>1, <1>2, <1>3, <1>4 DEF TypeOK, BooksTypeOK
<1> QED BY <1>1, <1>3, <1>4, <1>5 DEF TypeInv, Pointer

\* Reading an entry puts a request in progress and changes no row.
LEMMA ChecksTyped ==
    ASSUME TypeInv, NEW p \in Procs, NEW op \in AllOps, NEW e \in Entries,
           NEW arg \in Args, Checks(p, op, e, arg),
           op = "endorse" => arg \in [payee : Parties],
           op = "edit" => arg \in Edit,
           op = "edit" /\ entries[e].status = "posted" => entries[e].voucher # 0,
           op = "edit" => entries[e].status # "cancelled"
    PROVE  TypeInv'
<1> DEFINE req == [stage |-> "checked", op |-> op, e |-> e, row |-> entries[e],
                   arg |-> arg]
<1>1. UNCHANGED <<entries, docs, vouchers, locked>> /\ reqs' = [reqs EXCEPT ![p] = req]
  BY DEF Checks, books
<1>2. entries[e] \in Entry /\ Pointer(entries[e], Len(vouchers))
  BY DEF TypeInv, TypeOK, BooksTypeOK
<1>3. req \in Checked
  BY <1>2 DEF Checked
<1>4. TypeOK'
  BY <1>1, <1>3 DEF TypeInv, TypeOK, BooksTypeOK
<1>5. entries[e].status \in {"pending", "posted", "cancelled"}
  BY <1>2 DEF Checks, Exists, Entry
<1>6. ReqOK(req, Len(vouchers))
  BY <1>2, <1>5 DEF ReqOK, SingleWrite
<1>7. \A q \in Procs : reqs'[q].stage \in {"checked", "tx"} => ReqOK(reqs'[q], Len(vouchers'))
  BY <1>1, <1>6 DEF TypeInv, TypeOK, ReqOK, Pointer
<1> QED BY <1>1, <1>4, <1>7 DEF TypeInv, Pointer

\* A commit that ends its request, appends at most one voucher and keeps the types
\* of the rows.
LEMMA FinishTyped ==
    ASSUME TypeInv, NEW p \in Procs, NEW next \in {Idle} \cup Repost,
           reqs' = [reqs EXCEPT ![p] = next],
           entries' \in [Entries -> Entry], docs' \in [Docs -> Doc],
           vouchers' \in Seq(Voucher), locked' \in BOOLEAN,
           Len(vouchers') >= Len(vouchers),
           \A e \in Entries : entries'[e].voucher \in 0 .. Len(vouchers')
    PROVE  TypeInv'
<1>1. TypeOK'
  BY DEF TypeInv, TypeOK, BooksTypeOK
<1>2. next.stage \notin {"checked", "tx"}
  BY DEF Idle, Repost
<1>3. Len(vouchers) \in Nat /\ Len(vouchers') \in Nat
  BY DEF BooksTypeOK, TypeInv, TypeOK
<1>4. ASSUME NEW q \in Procs, reqs'[q].stage \in {"checked", "tx"}
      PROVE  ReqOK(reqs'[q], Len(vouchers'))
  <2>1. q # p /\ reqs'[q] = reqs[q]
    BY <1>2, <1>4 DEF TypeInv, TypeOK
  <2>2. ReqOK(reqs[q], Len(vouchers))
    BY <1>4, <2>1 DEF TypeInv
  <2>3. Pointer(reqs[q].row, Len(vouchers'))
    BY <1>3, <2>1, <2>2 DEF ReqOK, Pointer
  <2> QED BY <2>1, <2>2, <2>3 DEF ReqOK, SingleWrite
<1> QED BY <1>1, <1>4 DEF TypeInv, Pointer

\* What is known of a request whose transaction is about to commit.
LEMMA AtCommit ==
    ASSUME TypeInv, NEW p \in Procs, NEW op, Committing(p, op)
    PROVE  /\ reqs[p] \in InTx /\ reqs[p].e \in Entries /\ reqs[p].row \in Entry
           /\ reqs[p].seen \in [Docs -> Doc]
           /\ ReqOK(reqs[p], Len(vouchers)) /\ reqs[p].op = op
BY Requests DEF TypeInv, TypeOK, Committing, InTx

LEMMA PostTyped ==
    ASSUME TypeInv, NEW p \in Procs, PostCommit(p)
    PROVE  TypeInv'
<1> DEFINE req == reqs[p]
           row == req.row
           account == PostAccount(row)
<1>1. req \in InTx /\ req.e \in Entries /\ row \in Entry /\ req.seen \in [Docs -> Doc]
  BY AtCommit DEF PostCommit
<1>2. account \in Accounts /\ row.party \in Accounts /\ row.amount \in Amounts
  BY <1>1 DEF PostAccount, Entry, Accounts, Holdings
<1>3. vouchers' \in Seq(Voucher) /\ Len(vouchers') = Len(vouchers) + 1
  <2>1. vouchers \in Seq(Voucher)
    BY DEF TypeInv, TypeOK, BooksTypeOK
  <2> QED BY <1>1, <1>2, <2>1, BookedTyped DEF PostCommit
<1>4. docs' \in [Docs -> Doc]
  <2>1. ASSUME NEW d \in Docs
        PROVE  WithPaid(d, req.seen[d], req.seen[d].paid + row.alloc[d]) \in Doc
    <3>1. req.seen[d].paid + row.alloc[d] \in Nat
      BY <1>1 DEF Doc, Entry
    <3>2. docs \in [Docs -> Doc]
      BY DEF TypeInv, TypeOK, BooksTypeOK
    <3> QED BY <3>1, <3>2, WithPaidTyped
  <2> QED BY <2>1 DEF PostCommit, TypeInv, TypeOK, BooksTypeOK
<1>5. /\ entries' \in [Entries -> Entry]
      /\ \A e \in Entries : entries'[e].voucher \in 0 .. Len(vouchers')
  <2>1. /\ entries \in [Entries -> Entry] /\ Len(vouchers) \in Nat
        /\ \A e \in Entries : entries[e].voucher \in 0 .. Len(vouchers)
    BY DEF TypeInv, TypeOK, BooksTypeOK, Pointer
  <2> DEFINE old    == entries[req.e]
             main   == IF IsPdc(row) THEN account ELSE old.main
             cheque == IF IsPdc(row) THEN "IN_HAND"
                       ELSE IF row.method = "CHEQUE" THEN "CLEARED" ELSE old.cheque
             new    == PostedRow(old, Len(vouchers) + 1, main, cheque)
  <2>2. entries' = [entries EXCEPT ![req.e] = new]
    BY <1>1, <2>1 DEF PostCommit, PostedRow
  <2>3. old \in Entry /\ main \in Accounts /\ cheque \in Cheques
    BY <1>1, <1>2, <2>1 DEF Entry, Cheques
  <2> HIDE DEF old, main, cheque
  <2>4. new \in Entry /\ new.voucher = Len(vouchers) + 1
    <3>1. Len(vouchers) + 1 \in Nat
      BY <2>1
    <3> QED BY <2>3, <3>1, PostedRowTyped
  <2> HIDE DEF new
  <2> QED BY <1>1, <1>3, <2>1, <2>2, <2>4
<1>6. locked' \in BOOLEAN /\ reqs' = [reqs EXCEPT ![p] = Idle]
  BY DEF PostCommit, Finish, TypeInv, TypeOK, BooksTypeOK
<1>7. Len(vouchers) \in Nat
  BY DEF TypeInv, TypeOK, BooksTypeOK
<1>8. Len(vouchers') >= Len(vouchers)
  BY <1>3, <1>4, <1>5, <1>6, <1>7
<1> QED BY <1>3, <1>4, <1>5, <1>6, <1>7, <1>8, FinishTyped

\* Clearing and endorsing book a voucher and set the status of the cheque.
LEMMA ChequeTyped ==
    ASSUME TypeInv, NEW p \in Procs, NEW e \in Entries, NEW cheque \in Cheques,
           NEW kind \in {"clear", "endorse"}, NEW dr \in Accounts,
           NEW cr \in Accounts, NEW amount \in Amounts,
           vouchers' = Booked(e, kind, dr, cr, amount),
           entries' = [entries EXCEPT ![e].cheque = cheque],
           Finish(p), UNCHANGED <<docs, locked>>
    PROVE  TypeInv'
<1>1. /\ entries \in [Entries -> Entry] /\ Len(vouchers) \in Nat
      /\ vouchers \in Seq(Voucher)
      /\ \A f \in Entries : entries[f].voucher \in 0 .. Len(vouchers)
  BY DEF TypeInv, TypeOK, BooksTypeOK, Pointer
<1>2. vouchers' \in Seq(Voucher) /\ Len(vouchers') = Len(vouchers) + 1
  BY <1>1, BookedTyped
<1>3. /\ entries' \in [Entries -> Entry]
      /\ \A f \in Entries : entries'[f].voucher \in 0 .. Len(vouchers')
  <2> DEFINE new == [entries[e] EXCEPT !.cheque = cheque]
  <2>1. new \in Entry /\ new.voucher = entries[e].voucher
    BY <1>1 DEF Entry
  <2>2. entries' = [entries EXCEPT ![e] = new]
    OBVIOUS
  <2> HIDE DEF new
  <2> QED BY <1>1, <1>2, <2>1, <2>2
<1>4. /\ docs' \in [Docs -> Doc] /\ locked' \in BOOLEAN
      /\ reqs' = [reqs EXCEPT ![p] = Idle]
  BY DEF Finish, TypeInv, TypeOK, BooksTypeOK
<1>5. Len(vouchers') >= Len(vouchers)
  BY <1>1, <1>2
<1> QED BY <1>2, <1>3, <1>4, <1>5, FinishTyped

LEMMA DepositTyped ==
    ASSUME TypeInv, NEW p \in Procs, DepositCommit(p)
    PROVE  TypeInv'
<1> DEFINE req == reqs[p]
           row == req.row
<1>1. req.e \in Entries /\ row \in Entry
  BY AtCommit DEF DepositCommit
<1>2. row.main \in Accounts /\ row.amount \in Amounts
  BY <1>1 DEF Entry
<1>3. "bank" \in Accounts /\ "pdc" \in Accounts
  BY DEF Accounts, Holdings
<1>4. "DEPOSITED" \in Cheques /\ "CLEARED" \in Cheques
  BY DEF Cheques
<1>5. CASE IsReceipt(row)
  BY <1>1, <1>2, <1>3, <1>4, <1>5, ChequeTyped DEF DepositCommit
<1>6. CASE ~IsReceipt(row)
  BY <1>1, <1>2, <1>3, <1>4, <1>6, ChequeTyped DEF DepositCommit
<1> QED BY <1>5, <1>6

LEMMA EndorseTyped ==
    ASSUME TypeInv, NEW p \in Procs, EndorseCommit(p)
    PROVE  TypeInv'
<1> DEFINE req == reqs[p]
           row == req.row
<1>1. req.e \in Entries /\ row \in Entry /\ req.arg \in [payee : Parties]
  BY AtCommit DEF EndorseCommit, ReqOK
<1>2. req.arg.payee \in Accounts /\ row.party \in Accounts /\ row.amount \in Amounts
  BY <1>1 DEF Entry, Accounts
<1>3. "ENDORSED" \in Cheques
  BY DEF Cheques
<1> QED BY <1>1, <1>2, <1>3, ChequeTyped DEF EndorseCommit

LEMMA BounceTyped ==
    ASSUME TypeInv, NEW p \in Procs, BounceCommit(p)
    PROVE  TypeInv'
<1> DEFINE req == reqs[p]
           row == req.row
<1>1. req.e \in Entries /\ row \in Entry /\ req.seen \in [Docs -> Doc]
  BY AtCommit DEF BounceCommit
<1>2. /\ row.main \in Accounts /\ row.party \in Accounts /\ "pdc" \in Accounts
      /\ row.amount \in Amounts /\ row.alloc \in [Docs -> Nat]
  BY <1>1 DEF Entry, Accounts, Holdings
<1>3. /\ entries \in [Entries -> Entry] /\ Len(vouchers) \in Nat
      /\ vouchers \in Seq(Voucher) /\ docs \in [Docs -> Doc]
      /\ \A f \in Entries : entries[f].voucher \in 0 .. Len(vouchers)
  BY DEF TypeInv, TypeOK, BooksTypeOK, Pointer
<1>4. vouchers' \in Seq(Voucher) /\ Len(vouchers') = Len(vouchers) + 1
  BY <1>1, <1>2, <1>3, BookedTyped DEF BounceCommit
<1>5. docs' \in [Docs -> Doc]
  BY <1>1, <1>2, <1>3, ReleasedTyped DEF BounceCommit
<1>6. /\ entries' \in [Entries -> Entry]
      /\ \A f \in Entries : entries'[f].voucher \in 0 .. Len(vouchers')
  <2> DEFINE new == [entries[req.e] EXCEPT !.cheque = "BOUNCED",
                                           !.alloc  = NoAllocation]
  <2>1. new \in Entry /\ new.voucher = entries[req.e].voucher
    BY <1>1, <1>3 DEF Entry, Cheques, NoAllocation
  <2>2. entries' = [entries EXCEPT ![req.e] = new]
    BY DEF BounceCommit
  <2> HIDE DEF new
  <2> QED BY <1>1, <1>3, <1>4, <2>1, <2>2
<1>7. reqs' = [reqs EXCEPT ![p] = Idle] /\ locked' \in BOOLEAN
  BY DEF BounceCommit, Finish, TypeInv, TypeOK, BooksTypeOK
<1>8. Len(vouchers') >= Len(vouchers)
  BY <1>3, <1>4, <1>5, <1>6, <1>7
<1> QED BY <1>3, <1>4, <1>5, <1>6, <1>7, <1>8, FinishTyped

LEMMA RemoveTyped ==
    ASSUME TypeInv, NEW p \in Procs, RemoveCommit(p)
    PROVE  TypeInv'
<1> DEFINE req == reqs[p]
           row == req.row
           gone == [Blank EXCEPT !.status = "deleted"]
<1>1. /\ req.e \in Entries /\ row \in Entry /\ req.seen \in [Docs -> Doc]
      /\ row.alloc \in [Docs -> Nat]
  BY AtCommit DEF RemoveCommit, Entry
<1>2. /\ entries \in [Entries -> Entry] /\ Len(vouchers) \in Nat
      /\ vouchers \in Seq(Voucher) /\ docs \in [Docs -> Doc]
      /\ \A f \in Entries : entries[f].voucher \in 0 .. Len(vouchers)
  BY DEF TypeInv, TypeOK, BooksTypeOK, Pointer
<1>3. vouchers' \in Seq(Voucher) /\ Len(vouchers') = Len(vouchers)
  BY <1>2, CancelledTyped DEF RemoveCommit
<1>4. docs' \in [Docs -> Doc]
  BY <1>1, <1>2, ReleasedTyped DEF RemoveCommit
<1>5. gone \in Entry /\ gone.voucher = 0
  BY BlankTyped DEF Entry, Blank
<1>6. /\ entries' \in [Entries -> Entry]
      /\ \A f \in Entries : entries'[f].voucher \in 0 .. Len(vouchers')
  <2>1. entries' = [entries EXCEPT ![req.e] = gone]
    BY DEF RemoveCommit
  <2> HIDE DEF gone
  <2> QED BY <1>1, <1>2, <1>3, <1>5, <2>1
<1>7. reqs' = [reqs EXCEPT ![p] = Idle] /\ locked' \in BOOLEAN
  BY DEF RemoveCommit, Finish, TypeInv, TypeOK, BooksTypeOK
<1>8. Len(vouchers') >= Len(vouchers)
  BY <1>2, <1>3, <1>4, <1>6, <1>7
<1> QED BY <1>2, <1>3, <1>4, <1>6, <1>7, <1>8, FinishTyped

LEMMA ReverseTyped ==
    ASSUME TypeInv, NEW p \in Procs, ReverseCommit(p)
    PROVE  TypeInv'
<1> DEFINE req == reqs[p]
           row == req.row
           original == vouchers[row.voucher]
<1>1. /\ req.e \in Entries /\ row \in Entry /\ req.seen \in [Docs -> Doc]
      /\ row.alloc \in [Docs -> Nat]
  BY AtCommit DEF ReverseCommit, Entry
<1>2. /\ entries \in [Entries -> Entry] /\ Len(vouchers) \in Nat
      /\ vouchers \in Seq(Voucher) /\ docs \in [Docs -> Doc]
      /\ \A f \in Entries : entries[f].voucher \in 0 .. Len(vouchers)
  BY DEF TypeInv, TypeOK, BooksTypeOK, Pointer
<1>3. req.arg \in Edit /\ row.voucher \in 1 .. Len(vouchers)
  <2>1. ReqOK(req, Len(vouchers)) /\ req.op = "edit" /\ req \in InTx
    BY AtCommit DEF ReverseCommit
  <2>2. req.arg \in Edit /\ row.voucher \in 0 .. Len(vouchers) /\ row.voucher # 0
    BY <2>1 DEF ReqOK, Pointer, InTx
  <2> QED BY <1>2, <2>2
<1>4. /\ original.cr \in Accounts /\ original.dr \in Accounts
      /\ original.amount \in Amounts
  <2>1. original \in Voucher
    BY <1>2, <1>3
  <2> QED BY <2>1 DEF Voucher
<1>5. vouchers' \in Seq(Voucher) /\ Len(vouchers') = Len(vouchers) + 1
  BY <1>1, <1>2, <1>4, BookedTyped DEF ReverseCommit
<1>6. docs' \in [Docs -> Doc]
  BY <1>1, <1>2, ReleasedTyped DEF ReverseCommit
<1>7. /\ entries' \in [Entries -> Entry]
      /\ \A f \in Entries : entries'[f].voucher \in 0 .. Len(vouchers')
  <2> DEFINE over == Overwritten(req.e, req.arg)
             new  == [over EXCEPT !.status = "pending", !.voucher = 0,
                                  !.cheque = "none"]
  <2>1. over \in Entry
    BY <1>1, <1>2, <1>3, OverwrittenTyped
  <2>2. entries' = [entries EXCEPT ![req.e] = new]
    BY DEF ReverseCommit
  <2> HIDE DEF over
  <2>3. new \in Entry /\ new.voucher = 0
    BY <2>1 DEF Entry, Cheques
  <2> HIDE DEF new
  <2> QED BY <1>1, <1>2, <1>5, <2>2, <2>3
<1>8. locked' \in BOOLEAN
  BY DEF ReverseCommit, TypeInv, TypeOK, BooksTypeOK
<1>9. Len(vouchers') >= Len(vouchers)
  BY <1>2, <1>5
<1> DEFINE next == [stage |-> "repost", e |-> req.e]
<1>10. next \in {Idle} \cup Repost /\ reqs' = [reqs EXCEPT ![p] = next]
  BY <1>1 DEF Repost, ReverseCommit
<1> HIDE DEF next
<1> QED BY <1>5, <1>6, <1>7, <1>8, <1>9, <1>10, FinishTyped

\* The writes that are one statement.
LEMMA SingleTyped ==
    ASSUME TypeInv, NEW p \in Procs, EditCommit(p) \/ CancelCommit(p)
    PROVE  TypeInv'
<1> DEFINE req == reqs[p]
<1>1. /\ entries \in [Entries -> Entry] /\ Len(vouchers) \in Nat
      /\ vouchers \in Seq(Voucher) /\ docs \in [Docs -> Doc] /\ locked \in BOOLEAN
      /\ \A f \in Entries : entries[f].voucher \in 0 .. Len(vouchers)
  BY DEF TypeInv, TypeOK, BooksTypeOK, Pointer
<1>2. req.e \in Entries /\ ReqOK(req, Len(vouchers))
  <2>1. req.stage = "checked"
    BY DEF EditCommit, CancelCommit
  <2> QED BY <2>1, Requests DEF TypeInv, TypeOK, Checked
<1>3. PICK new \in Entry : /\ entries' = [entries EXCEPT ![req.e] = new]
                           /\ new.voucher = entries[req.e].voucher
  <2>1. CASE EditCommit(p)
    <3>1. req.arg \in Edit
      BY <1>2, <2>1 DEF EditCommit, ReqOK
    <3>2. Overwritten(req.e, req.arg) \in Entry
      BY <1>1, <1>2, <3>1, OverwrittenTyped
    <3>3. Overwritten(req.e, req.arg).voucher = entries[req.e].voucher
      BY <1>1, <1>2, <3>1, OverwrittenTyped
    <3> QED BY <2>1, <3>2, <3>3 DEF EditCommit
  <2>2. CASE CancelCommit(p)
    <3> DEFINE new == [entries[req.e] EXCEPT !.status = "cancelled"]
    <3>1. new \in Entry /\ new.voucher = entries[req.e].voucher
      BY <1>1, <1>2 DEF Entry
    <3>2. entries' = [entries EXCEPT ![req.e] = new]
      BY <2>2 DEF CancelCommit
    <3> HIDE DEF new
    <3> QED BY <3>1, <3>2
  <2> QED BY <2>1, <2>2
<1>4. /\ entries' \in [Entries -> Entry]
      /\ \A f \in Entries : entries'[f].voucher \in 0 .. Len(vouchers)
  BY <1>1, <1>2, <1>3
<1>5. UNCHANGED <<docs, vouchers, locked>> /\ reqs' = [reqs EXCEPT ![p] = Idle]
  BY DEF EditCommit, CancelCommit, Finish
<1>6. /\ docs' \in [Docs -> Doc] /\ locked' \in BOOLEAN
      /\ vouchers' \in Seq(Voucher) /\ Len(vouchers') = Len(vouchers)
  BY <1>1, <1>5
<1>7. \A f \in Entries : entries'[f].voucher \in 0 .. Len(vouchers')
  BY <1>4, <1>6
<1>8. Len(vouchers') >= Len(vouchers)
  BY <1>1, <1>6
<1> QED BY <1>4, <1>5, <1>6, <1>7, <1>8, FinishTyped

\* Steps that change no row: opening a transaction, posting again after an edit's
\* reversal, giving up.
LEMMA ProgressTyped ==
    ASSUME TypeInv, NEW p \in Procs, Begin(p) \/ RepostRead(p) \/ Fail(p)
    PROVE  TypeInv'
<1>1. UNCHANGED <<entries, docs, vouchers, locked>>
  BY DEF Begin, RepostRead, Fail, books
<1>2. \E req \in {Idle} \cup Checked \cup InTx \cup Repost :
         /\ reqs' = [reqs EXCEPT ![p] = req]
         /\ req.stage \in {"checked", "tx"} => ReqOK(req, Len(vouchers))
  <2>1. CASE Begin(p)
    <3> DEFINE old == reqs[p]
               req == [stage |-> "tx", op |-> old.op, e |-> old.e, row |-> old.row,
                       arg |-> old.arg, seen |-> docs]
    <3>1. old \in Checked /\ docs \in [Docs -> Doc]
      BY <2>1, Requests DEF Begin, TypeInv, TypeOK, BooksTypeOK
    <3>2. req \in InTx
      BY <3>1 DEF Checked, InTx
    <3>3. ReqOK(old, Len(vouchers)) /\ ~SingleWrite(old)
      BY <2>1 DEF Begin, TypeInv
    <3>4. ReqOK(req, Len(vouchers))
      BY <3>3 DEF ReqOK, SingleWrite
    <3>5. reqs' = [reqs EXCEPT ![p] = req]
      BY <2>1 DEF Begin
    <3> HIDE DEF req
    <3> QED BY <3>2, <3>4, <3>5
  <2>2. CASE RepostRead(p)
    <3> DEFINE e == reqs[p].e
               req == [stage |-> "checked", op |-> "post", e |-> e,
                       row |-> entries[e], arg |-> NoArg]
    <3>1. e \in Entries
      BY <2>2, Requests DEF RepostRead, TypeInv, TypeOK, Repost
    <3>2. entries[e] \in Entry /\ Pointer(entries[e], Len(vouchers))
      BY <3>1 DEF TypeInv, TypeOK, BooksTypeOK
    <3>3. req \in Checked /\ ReqOK(req, Len(vouchers))
      BY <3>1, <3>2 DEF Checked, AllOps, Args, ReqOK
    <3>4. reqs' = [reqs EXCEPT ![p] = req]
      BY <2>2 DEF RepostRead
    <3> HIDE DEF req
    <3> QED BY <3>3, <3>4
  <2>3. CASE Fail(p)
    <3>1. Idle.stage = "idle"
      BY DEF Idle
    <3> QED BY <2>3, <3>1 DEF Fail, Finish
  <2> QED BY <2>1, <2>2, <2>3
<1>3. TypeOK'
  BY <1>1, <1>2 DEF TypeInv, TypeOK, BooksTypeOK
<1>4. \A q \in Procs : reqs'[q].stage \in {"checked", "tx"} => ReqOK(reqs'[q], Len(vouchers))
  BY <1>2 DEF TypeInv, TypeOK
<1>5. \A e \in Entries : Pointer(entries[e], Len(vouchers))
  BY DEF TypeInv
<1> QED BY <1>1, <1>3, <1>4, <1>5 DEF TypeInv, ReqOK, Pointer

\* Steps of others: the requests are left alone and no voucher is booked.
LEMMA OthersTyped ==
    ASSUME TypeInv, UNCHANGED <<vouchers, reqs>>,
           entries' \in [Entries -> Entry], docs' \in [Docs -> Doc],
           locked' \in BOOLEAN,
           \A e \in Entries : entries'[e].voucher \in 0 .. Len(vouchers)
    PROVE  TypeInv'
<1>1. TypeOK'
  BY DEF TypeInv, TypeOK, BooksTypeOK
<1> QED BY <1>1 DEF TypeInv, ReqOK, Pointer

LEMMA CreateTyped ==
    ASSUME TypeInv, NEW e \in Entries, NEW kind \in Kinds, NEW party \in Parties,
           NEW amount \in Amounts, NEW alloc \in [Docs -> 0 .. MaxAmount],
           Create(e, kind, party, amount, alloc)
    PROVE  TypeInv'
<1> DEFINE isPdc == kind.method = "CHEQUE" /\ kind.pdc
           main  == IF ~isPdc THEN "cash"
                    ELSE IF kind.type = "RECEIPT" THEN "pdc" ELSE "issued"
           cheque == IF isPdc THEN "PENDING" ELSE "none"
           new == [status |-> "pending", type |-> kind.type, method |-> kind.method,
                   pdc |-> kind.pdc, cheque |-> cheque, party |-> party,
                   main |-> main, amount |-> amount, alloc |-> alloc, voucher |-> 0]
<1>1. kind.type \in Types /\ kind.method \in Methods /\ kind.pdc \in BOOLEAN
  BY PaymentsAssumption DEF PaymentsAssumption, AllKinds
<1>2. main \in Accounts /\ cheque \in Cheques
  BY DEF Accounts, Holdings, Cheques
<1>3. alloc \in [Docs -> Nat]
  BY BooksAssumption DEF BooksAssumption
<1>4. entries' = [entries EXCEPT ![e] = new] /\ UNCHANGED <<docs, vouchers, locked, reqs>>
  BY DEF Create
<1> HIDE DEF main, cheque
<1>5. new \in Entry /\ new.voucher = 0
  BY <1>1, <1>2, <1>3 DEF Entry
<1> HIDE DEF new
<1>6. /\ entries \in [Entries -> Entry] /\ Len(vouchers) \in Nat
      /\ docs \in [Docs -> Doc] /\ locked \in BOOLEAN
      /\ \A f \in Entries : entries[f].voucher \in 0 .. Len(vouchers)
  BY DEF TypeInv, TypeOK, BooksTypeOK, Pointer
<1>7. /\ entries' \in [Entries -> Entry]
      /\ \A f \in Entries : entries'[f].voucher \in 0 .. Len(vouchers)
  BY <1>4, <1>5, <1>6
<1>8. docs' \in [Docs -> Doc] /\ locked' \in BOOLEAN
  BY <1>4, <1>6
<1> QED BY <1>4, <1>7, <1>8, OthersTyped

LEMMA ReturnLockTyped ==
    ASSUME TypeInv,
           (\E d \in Docs, amount \in Amounts : PostReturn(d, amount)) \/ SetLock
    PROVE  TypeInv'
<1>1. /\ entries \in [Entries -> Entry] /\ docs \in [Docs -> Doc] /\ locked \in BOOLEAN
      /\ \A f \in Entries : entries[f].voucher \in 0 .. Len(vouchers)
  BY DEF TypeInv, TypeOK, BooksTypeOK, Pointer
<1>2. UNCHANGED <<entries, vouchers, reqs>> /\ locked' \in BOOLEAN
  BY <1>1 DEF PostReturn, SetLock
<1>3. docs' \in [Docs -> Doc]
  <2>1. CASE SetLock
    BY <1>1, <2>1 DEF SetLock
  <2>2. ASSUME NEW d \in Docs, NEW amount \in Amounts, PostReturn(d, amount)
        PROVE  docs' \in [Docs -> Doc]
    <3> DEFINE new == [docs[d] EXCEPT !.returned = @ + amount]
    <3>1. new \in Doc
      <4>1. amount \in Nat
        BY Amounts1
      <4>2. docs[d] \in Doc /\ docs[d].returned + amount \in Nat
        BY <1>1, <4>1 DEF Doc
      <4> QED BY <4>2 DEF Doc
    <3>2. docs' = [docs EXCEPT ![d] = new]
      BY <1>1, <2>2 DEF PostReturn
    <3> HIDE DEF new
    <3> QED BY <1>1, <3>1, <3>2
  <2> QED BY <2>1, <2>2
<1>4. \A f \in Entries : entries'[f].voucher \in 0 .. Len(vouchers)
  BY <1>1, <1>2
<1>5. entries' \in [Entries -> Entry]
  BY <1>1, <1>2
<1> QED BY <1>2, <1>3, <1>4, <1>5, OthersTyped

LEMMA ReadsTyped ==
    ASSUME TypeInv, NEW p \in Procs, NEW e \in Entries,
           \/ PostRead(p, e) \/ DepositRead(p, e) \/ BounceRead(p, e)
           \/ \E payee \in Parties : EndorseRead(p, e, payee)
           \/ CancelRead(p, e) \/ RemoveRead(p, e) \/ EditRead(p, e)
    PROVE  TypeInv'
<1>1. NoArg \in Args
  BY DEF Args
<1>2. {"post", "deposit", "bounce", "endorse", "cancel", "remove", "edit"} \subseteq AllOps
  BY DEF AllOps
<1>3. CASE PostRead(p, e)
  BY <1>1, <1>2, <1>3, ChecksTyped DEF PostRead
<1>4. CASE DepositRead(p, e)
  BY <1>1, <1>2, <1>4, ChecksTyped DEF DepositRead
<1>5. CASE BounceRead(p, e)
  BY <1>1, <1>2, <1>5, ChecksTyped DEF BounceRead
<1>6. ASSUME NEW payee \in Parties, EndorseRead(p, e, payee) PROVE TypeInv'
  <2> DEFINE arg == [payee |-> payee]
  <2>1. arg \in [payee : Parties] /\ arg \in Args
    BY DEF Args
  <2>2. Checks(p, "endorse", e, arg)
    BY <1>6 DEF EndorseRead
  <2> HIDE DEF arg
  <2> QED BY <1>2, <2>1, <2>2, ChecksTyped
<1>7. CASE CancelRead(p, e)
  BY <1>1, <1>2, <1>7, ChecksTyped DEF CancelRead
<1>8. CASE RemoveRead(p, e)
  BY <1>1, <1>2, <1>8, ChecksTyped DEF RemoveRead
<1>9. CASE EditRead(p, e)
  <2> DEFINE row == entries[e]
  <2>1. row \in Entry
    BY DEF TypeInv, TypeOK, BooksTypeOK
  <2>2. PICK amount \in Amounts, party \in Parties, pdc \in BOOLEAN, main \in Accounts :
           Checks(p, "edit", e, Edited(row, amount, party, pdc, main))
    BY <1>9, <2>1 DEF EditRead, Entry, Accounts, Holdings
  <2> DEFINE arg == Edited(row, amount, party, pdc, main)
  <2>3. arg \in Edit /\ arg \in Args
    BY DEF Edited, Edit, Args, Accounts, Holdings
  <2>4. row.status = "posted" => row.voucher # 0
    BY <1>9 DEF EditRead
  <2>5. row.status # "cancelled"
    BY <1>9 DEF EditRead, Editable
  <2>6. Checks(p, "edit", e, arg)
    BY <2>2
  <2> HIDE DEF arg
  <2> QED BY <1>2, <2>3, <2>4, <2>5, <2>6, ChecksTyped
<1> QED BY <1>3, <1>4, <1>5, <1>6, <1>7, <1>8, <1>9

\* Every step keeps the types.
LEMMA TypeStep == TypeInv /\ [Next]_vars => TypeInv'
<1> SUFFICES ASSUME TypeInv, [Next]_vars PROVE TypeInv'
    OBVIOUS
<1>1. ASSUME NEW p \in Procs, NEW e \in Entries,
             \/ PostRead(p, e) \/ DepositRead(p, e) \/ BounceRead(p, e)
             \/ \E payee \in Parties : EndorseRead(p, e, payee)
             \/ CancelRead(p, e) \/ RemoveRead(p, e) \/ EditRead(p, e)
      PROVE  TypeInv'
  BY <1>1, ReadsTyped
<1>2. ASSUME NEW p \in Procs, Begin(p) \/ RepostRead(p) \/ Fail(p) PROVE TypeInv'
  BY <1>2, ProgressTyped
<1>3. ASSUME NEW p \in Procs, PostCommit(p) PROVE TypeInv'
  BY <1>3, PostTyped
<1>4. ASSUME NEW p \in Procs, DepositCommit(p) PROVE TypeInv'
  BY <1>4, DepositTyped
<1>5. ASSUME NEW p \in Procs, BounceCommit(p) PROVE TypeInv'
  BY <1>5, BounceTyped
<1>6. ASSUME NEW p \in Procs, EndorseCommit(p) PROVE TypeInv'
  BY <1>6, EndorseTyped
<1>7. ASSUME NEW p \in Procs, RemoveCommit(p) PROVE TypeInv'
  BY <1>7, RemoveTyped
<1>8. ASSUME NEW p \in Procs, CancelCommit(p) \/ EditCommit(p) PROVE TypeInv'
  BY <1>8, SingleTyped
<1>9. ASSUME NEW p \in Procs, ReverseCommit(p) PROVE TypeInv'
  BY <1>9, ReverseTyped
<1>10. ASSUME NEW e \in Entries, NEW kind \in Kinds, NEW party \in Parties,
              NEW amount \in Amounts, NEW alloc \in [Docs -> 0 .. MaxAmount],
              Create(e, kind, party, amount, alloc)
       PROVE  TypeInv'
  BY <1>10, CreateTyped
<1>11. CASE (\E d \in Docs, amount \in Amounts : PostReturn(d, amount)) \/ SetLock
  BY <1>11, ReturnLockTyped
<1>12. CASE UNCHANGED vars
  BY <1>12 DEF vars, TypeInv, TypeOK, BooksTypeOK, ReqOK, Pointer
<1> QED BY <1>1, <1>2, <1>3, <1>4, <1>5, <1>6, <1>7, <1>8, <1>9, <1>10, <1>11, <1>12
        DEF Next

\* The rows of the desk and the requests in progress have their types in every
\* reachable state.
THEOREM TypeCorrect == Spec => []TypeOK
<1>1. TypeInv => TypeOK
  BY DEF TypeInv
<1> QED BY <1>1, TypeInit, TypeStep, PTL DEF Spec

-------------------------------------------------------------------------------
(* No document is paid beyond its total.                                    *)

LEMMA PaidInit == Init => PaidInv
<1> SUFFICES ASSUME Init PROVE PaidInv
    OBVIOUS
<1>1. \A d \in Docs : docs[d].paid <= docs[d].grand
  BY PaymentsAssumption DEF PaymentsAssumption, Init
<1>2. \A p \in Procs : reqs[p].stage = "idle"
  BY DEF Init, Idle
<1> QED BY <1>1, <1>2 DEF PaidInv, PaidWithinTotal

\* A step that keeps the totals, bounds what it pays, and opens no transaction
\* that has read anything but the present rows.
LEMMA PaidKept ==
    ASSUME TypeInv, PaidInv, NEW p \in Procs, NEW req,
           reqs' = [reqs EXCEPT ![p] = req],
           req.stage = "tx" => req.seen = docs,
           \A d \in Docs : /\ docs'[d].grand = docs[d].grand
                           /\ docs'[d].paid <= docs[d].grand,
           req.stage = "tx" => UNCHANGED docs
    PROVE  PaidInv'
<1>1. PaidWithinTotal'
  BY DEF PaidWithinTotal
<1>2. ASSUME NEW q \in Procs, reqs'[q].stage = "tx", NEW d \in Docs
      PROVE  /\ Bounded(reqs'[q].seen[d])
             /\ reqs'[q].seen[d].grand = docs'[d].grand
  <2>1. CASE q = p
    <3>1. reqs'[q] = req
      BY <2>1 DEF TypeInv, TypeOK
    <3>2. req.seen = docs
      BY <1>2, <3>1
    <3> QED BY <3>1, <3>2 DEF PaidInv, PaidWithinTotal, Bounded
  <2>2. CASE q # p
    <3>1. reqs'[q] = reqs[q]
      BY <2>2 DEF TypeInv, TypeOK
    <3> QED BY <1>2, <3>1 DEF PaidInv
  <2> QED BY <2>1, <2>2
<1> QED BY <1>1, <1>2 DEF PaidInv, Bounded

\* Taking an allocation back pays no document beyond its total: the amount it
\* writes is at most the amount it has read.
LEMMA ReleasedBounded ==
    ASSUME TypeInv, PaidInv, NEW p \in Procs, reqs[p] \in InTx, reqs[p].stage = "tx"
    PROVE  \A d \in Docs :
              /\ Released(reqs[p].seen, reqs[p].row.alloc)[d].grand = docs[d].grand
              /\ Released(reqs[p].seen, reqs[p].row.alloc)[d].paid <= docs[d].grand
<1> DEFINE new == Released(reqs[p].seen, reqs[p].row.alloc)
<1>1. /\ docs \in [Docs -> Doc] /\ reqs[p].seen \in [Docs -> Doc]
      /\ reqs[p].row.alloc \in [Docs -> Nat]
  BY DEF TypeInv, TypeOK, BooksTypeOK, InTx, Entry
<1>2. \A d \in Docs : /\ new[d] \in Doc
                      /\ new[d].grand = docs[d].grand
                      /\ new[d].paid = docs[d].paid \/ new[d].paid <= reqs[p].seen[d].paid
  BY <1>1, ReleasedTyped
<1>3. \A d \in Docs : /\ docs[d].paid <= docs[d].grand
                      /\ reqs[p].seen[d].paid <= docs[d].grand
  BY DEF PaidInv, PaidWithinTotal, Bounded
<1>4. \A d \in Docs : new[d].paid \in Nat /\ docs[d].grand \in Nat
                      /\ reqs[p].seen[d].paid \in Nat
  BY <1>1, <1>2 DEF Doc
<1> HIDE DEF new
<1>5. \A d \in Docs : new[d].grand = docs[d].grand /\ new[d].paid <= docs[d].grand
  BY <1>2, <1>3, <1>4
<1> QED BY <1>5 DEF new

\* What post pays was covered by the balance it has read, whatever happened since.
LEMMA PostBounded ==
    ASSUME TypeInv, PaidInv, NEW p \in Procs, PostCommit(p)
    PROVE  \A d \in Docs : /\ docs'[d].grand = docs[d].grand
                           /\ docs'[d].paid <= docs[d].grand
<1> DEFINE req == reqs[p]
           row == req.row
<1>1. /\ req.seen \in [Docs -> Doc] /\ row.alloc \in [Docs -> Nat]
      /\ docs \in [Docs -> Doc] /\ req.stage = "tx"
  BY AtCommit DEF PostCommit, Committing, Entry, TypeInv, TypeOK, BooksTypeOK
<1>2. SUFFICES ASSUME NEW d \in Docs
               PROVE  docs'[d].grand = docs[d].grand /\ docs'[d].paid <= docs[d].grand
  OBVIOUS
<1>3. /\ docs[d].grand \in Nat /\ docs[d].paid <= docs[d].grand
      /\ req.seen[d].grand = docs[d].grand /\ row.alloc[d] \in Nat
      /\ req.seen[d].paid \in Nat /\ req.seen[d].returned \in Nat
  BY <1>1 DEF PaidInv, PaidWithinTotal, Bounded, Doc
<1>4. CASE d \in Allocated(row)
  <2> DEFINE paid == req.seen[d].paid + row.alloc[d]
  <2>1. docs'[d] = WithPaid(d, req.seen[d], paid)
    BY <1>4 DEF PostCommit
  <2>2. row.alloc[d] <= Outstanding(req.seen[d]) /\ row.alloc[d] > 0
    BY <1>4 DEF PostCommit, Covered, Allocated
  <2>3. paid \in Nat /\ paid <= docs[d].grand
    BY <1>3, <2>2 DEF Outstanding
  <2> HIDE DEF paid
  <2> QED BY <1>1, <2>1, <2>3, WithPaidTyped
<1>5. CASE d \notin Allocated(row)
  BY <1>3, <1>5 DEF PostCommit
<1> QED BY <1>4, <1>5

\* A return changes neither the total nor the amount paid of any document.
LEMMA ReturnKeepsPaid ==
    ASSUME TypeInv, NEW d \in Docs, NEW amount \in Amounts, PostReturn(d, amount)
    PROVE  \A f \in Docs : docs'[f].grand = docs[f].grand /\ docs'[f].paid = docs[f].paid
<1>1. docs \in [Docs -> Doc]
  BY DEF TypeInv, TypeOK, BooksTypeOK
<1> DEFINE new == [docs[d] EXCEPT !.returned = @ + amount]
<1>2. new.grand = docs[d].grand /\ new.paid = docs[d].paid
  BY <1>1 DEF Doc
<1>3. docs' = [docs EXCEPT ![d] = new]
  BY DEF PostReturn
<1> HIDE DEF new
<1> QED
  BY <1>1, <1>2, <1>3

LEMMA PaidStep == TypeInv /\ PaidInv /\ [Next]_vars => PaidInv'
<1> SUFFICES ASSUME TypeInv, PaidInv, [Next]_vars PROVE PaidInv'
    OBVIOUS
<1>1. \A d \in Docs : docs[d].paid <= docs[d].grand
  BY DEF PaidInv, PaidWithinTotal
<1>2. ASSUME NEW p \in Procs, NEW req, reqs' = [reqs EXCEPT ![p] = req],
             req.stage # "tx", UNCHANGED docs
      PROVE  PaidInv'
  BY <1>1, <1>2, PaidKept
<1>3. Idle.stage # "tx"
  BY DEF Idle
<1>4. ASSUME NEW p \in Procs, NEW op, NEW e, NEW arg, Checks(p, op, e, arg)
      PROVE  PaidInv'
  <2> DEFINE req == [stage |-> "checked", op |-> op, e |-> e, row |-> entries[e],
                     arg |-> arg]
  <2>1. reqs' = [reqs EXCEPT ![p] = req] /\ UNCHANGED docs /\ req.stage # "tx"
    BY <1>4 DEF Checks, books
  <2> HIDE DEF req
  <2> QED BY <1>2, <2>1
<1>5. ASSUME NEW p \in Procs, NEW e \in Entries,
             \/ PostRead(p, e) \/ DepositRead(p, e) \/ BounceRead(p, e)
             \/ \E payee \in Parties : EndorseRead(p, e, payee)
             \/ CancelRead(p, e) \/ RemoveRead(p, e) \/ EditRead(p, e)
      PROVE  PaidInv'
  BY <1>4, <1>5 DEF PostRead, DepositRead, BounceRead, EndorseRead, CancelRead,
                    RemoveRead, EditRead
<1>6. ASSUME NEW p \in Procs, Begin(p) PROVE PaidInv'
  <2> DEFINE req == [stage |-> "tx", op |-> reqs[p].op, e |-> reqs[p].e,
                     row |-> reqs[p].row, arg |-> reqs[p].arg, seen |-> docs]
  <2>1. reqs' = [reqs EXCEPT ![p] = req] /\ UNCHANGED docs /\ req.seen = docs
    BY <1>6 DEF Begin, books
  <2> HIDE DEF req
  <2> QED BY <1>1, <2>1, PaidKept
<1>7. ASSUME NEW p \in Procs, RepostRead(p) PROVE PaidInv'
  <2> DEFINE req == [stage |-> "checked", op |-> "post", e |-> reqs[p].e,
                     row |-> entries[reqs[p].e], arg |-> NoArg]
  <2>1. reqs' = [reqs EXCEPT ![p] = req] /\ UNCHANGED docs /\ req.stage # "tx"
    BY <1>7 DEF RepostRead, books
  <2> HIDE DEF req
  <2> QED BY <1>2, <2>1
<1>8. ASSUME NEW p \in Procs,
             DepositCommit(p) \/ EndorseCommit(p) \/ CancelCommit(p) \/ EditCommit(p)
             \/ Fail(p)
      PROVE  PaidInv'
  <2>1. reqs' = [reqs EXCEPT ![p] = Idle] /\ UNCHANGED docs
    BY <1>8 DEF DepositCommit, EndorseCommit, CancelCommit, EditCommit, Fail, Finish, books
  <2> QED BY <1>2, <1>3, <2>1
<1>9. ASSUME NEW p \in Procs, PostCommit(p) PROVE PaidInv'
  <2>1. reqs' = [reqs EXCEPT ![p] = Idle]
    BY <1>9 DEF PostCommit, Finish
  <2>2. \A d \in Docs : /\ docs'[d].grand = docs[d].grand
                        /\ docs'[d].paid <= docs[d].grand
    BY <1>9, PostBounded
  <2> QED BY <1>3, <2>1, <2>2, PaidKept
<1>10. ASSUME NEW p \in Procs, BounceCommit(p) \/ RemoveCommit(p) \/ ReverseCommit(p)
       PROVE  PaidInv'
  <2>1. PICK req : reqs' = [reqs EXCEPT ![p] = req] /\ req.stage # "tx"
    <3>1. CASE BounceCommit(p) \/ RemoveCommit(p)
      BY <1>3, <3>1 DEF BounceCommit, RemoveCommit, Finish
    <3>2. CASE ReverseCommit(p)
      <4> DEFINE req == [stage |-> "repost", e |-> reqs[p].e]
      <4>1. reqs' = [reqs EXCEPT ![p] = req] /\ req.stage # "tx"
        BY <3>2 DEF ReverseCommit
      <4> HIDE DEF req
      <4> QED BY <4>1
    <3> QED BY <1>10, <3>1, <3>2
  <2>2. reqs[p] \in InTx /\ reqs[p].stage = "tx"
    BY <1>10, AtCommit DEF BounceCommit, RemoveCommit, ReverseCommit, Committing
  <2>3. UNCHANGED docs \/ docs' = Released(reqs[p].seen, reqs[p].row.alloc)
    BY <1>10 DEF BounceCommit, RemoveCommit, ReverseCommit
  <2>4. \A d \in Docs : /\ docs'[d].grand = docs[d].grand
                        /\ docs'[d].paid <= docs[d].grand
    BY <1>1, <2>2, <2>3, ReleasedBounded
  <2> QED BY <2>1, <2>4, PaidKept
<1>11. ASSUME UNCHANGED reqs,
              \A d \in Docs : /\ docs'[d].grand = docs[d].grand
                              /\ docs'[d].paid = docs[d].paid
       PROVE  PaidInv'
  BY <1>11 DEF PaidInv, PaidWithinTotal, Bounded
<1>12. ASSUME NEW d \in Docs, NEW amount \in Amounts, PostReturn(d, amount)
       PROVE  PaidInv'
  <2>2. \A f \in Docs : docs'[f].grand = docs[f].grand /\ docs'[f].paid = docs[f].paid
    BY <1>12, ReturnKeepsPaid
  <2>3. UNCHANGED reqs
    BY <1>12 DEF PostReturn
  <2> QED BY <1>11, <2>2, <2>3
<1>13. ASSUME NEW e \in Entries, NEW kind \in Kinds, NEW party \in Parties,
              NEW amount \in Amounts, NEW alloc \in [Docs -> 0 .. MaxAmount],
              Create(e, kind, party, amount, alloc)
       PROVE  PaidInv'
  <2>1. UNCHANGED <<docs, reqs>>
    BY <1>13 DEF Create
  <2> QED BY <1>11, <2>1
<1>14. CASE SetLock \/ UNCHANGED vars
  <2>1. UNCHANGED <<docs, reqs>>
    BY <1>14 DEF SetLock, vars
  <2> QED BY <1>11, <2>1
<1> QED BY <1>5, <1>6, <1>7, <1>8, <1>9, <1>10, <1>12, <1>13, <1>14 DEF Next

\* However requests overlap and whichever of them fail, the amount paid on a
\* document never exceeds its total (PaymentsService.post).
THEOREM NeverOverCollected == Spec => []PaidWithinTotal
<1> DEFINE IInv == TypeInv /\ PaidInv
<1>1. Init => IInv
  BY TypeInit, PaidInit
<1>2. IInv /\ [Next]_vars => IInv'
  BY TypeStep, PaidStep
<1>3. IInv => PaidWithinTotal
  BY DEF PaidInv
<1> HIDE DEF IInv
<1> QED BY <1>1, <1>2, <1>3, PTL DEF Spec
-------------------------------------------------------------------------------
(* Requests about different entries: what a request has read is still true. *)

\* The requests in progress are about different entries.  They may overlap in every
\* other way: they may read and write the same documents and fail at any point.
RowsApart ==
    \A q1, q2 \in Procs :
        q1 # q2 /\ reqs[q1].stage # "idle" /\ reqs[q2].stage # "idle"
            => reqs[q1].e # reqs[q2].e

\* The guard that let a request through holds of the row it has read.
Guarded(op, row) ==
    /\ op \in {"post", "cancel"} => row.status = "pending"
    /\ op = "deposit" => Depositable(row)
    /\ op = "bounce" => Bounceable(row)
    /\ op = "endorse" => row.status = "posted" /\ row.cheque = "IN_HAND"
    /\ op = "edit" => Editable(row)

\* The row of a request is the present one.
Current(req) ==
    req.stage \in {"checked", "tx"} => /\ Exists(req.e)
                                       /\ req.row = entries[req.e]
                                       /\ Guarded(req.op, req.row)

AllCurrent == \A p \in Procs : Current(reqs[p])

LEMMA CurrentInit == Init => AllCurrent
<1> SUFFICES ASSUME Init, NEW p \in Procs PROVE Current(reqs[p])
    BY DEF AllCurrent
<1>1. reqs[p].stage = "idle"
  BY DEF Init, Idle
<1> QED
  BY <1>1 DEF Current

\* A step of p keeps what the others have read if it writes none of their rows.
LEMMA CurrentNext ==
    ASSUME TypeInv, AllCurrent, NEW p \in Procs, NEW req,
           reqs' = [reqs EXCEPT ![p] = req], Current(req)',
           \A q \in Procs : q # p /\ reqs[q].stage \in {"checked", "tx"} =>
                             entries'[reqs[q].e] = entries[reqs[q].e]
    PROVE  AllCurrent'
<1> SUFFICES ASSUME NEW q \in Procs PROVE Current(reqs[q])'
    BY DEF AllCurrent
<1>1. CASE q = p
  <2>1. reqs'[q] = req
    BY <1>1 DEF TypeInv, TypeOK
  <2> QED BY <2>1 DEF Current
<1>2. CASE q # p
  <2>1. reqs'[q] = reqs[q] /\ Current(reqs[q])
    BY <1>2 DEF TypeInv, TypeOK, AllCurrent
  <2> QED BY <1>2, <2>1 DEF Current, Exists
<1> QED
  BY <1>1, <1>2

\* A request writes the row of its own entry, which no other request is about.
LEMMA CurrentWritten ==
    ASSUME RowsApart, TypeInv, AllCurrent, NEW p \in Procs, NEW req,
           reqs' = [reqs EXCEPT ![p] = req], req.stage \notin {"checked", "tx"},
           reqs[p].stage # "idle",
           \A f \in Entries : f # reqs[p].e => entries'[f] = entries[f]
    PROVE  AllCurrent'
<1>1. Current(req)'
  BY DEF Current
<1>2. ASSUME NEW q \in Procs, q # p, reqs[q].stage \in {"checked", "tx"}
      PROVE  entries'[reqs[q].e] = entries[reqs[q].e]
  <2>1. reqs[q].e \in Entries
    BY <1>2, Requests DEF TypeInv, TypeOK, Checked, InTx
  <2>2. reqs[q].e # reqs[p].e
    BY <1>2 DEF RowsApart
  <2> QED BY <2>1, <2>2
<1> QED
  BY <1>1, <1>2, CurrentNext

LEMMA CurrentRead ==
    ASSUME TypeInv, AllCurrent, NEW p \in Procs, NEW op, NEW e \in Entries, NEW arg,
           Checks(p, op, e, arg), Guarded(op, entries[e])
    PROVE  AllCurrent'
<1>3. PICK req : req = [stage |-> "checked", op |-> op, e |-> e, row |-> entries[e],
                        arg |-> arg]
  OBVIOUS
<1>1. /\ reqs' = [reqs EXCEPT ![p] = req] /\ UNCHANGED <<entries, docs>> /\ Exists(e)
      /\ req.stage = "checked" /\ req.e = e /\ req.row = entries[e] /\ req.op = op
  BY <1>3 DEF Checks, books
<1>2. Current(req)'
  BY <1>1 DEF Current, Exists
<1> QED
  BY <1>1, <1>2, CurrentNext

LEMMA CurrentReads ==
    ASSUME TypeInv, AllCurrent, NEW p \in Procs, NEW e \in Entries,
           \/ PostRead(p, e) \/ DepositRead(p, e) \/ BounceRead(p, e)
           \/ \E payee \in Parties : EndorseRead(p, e, payee)
           \/ CancelRead(p, e) \/ RemoveRead(p, e) \/ EditRead(p, e)
    PROVE  AllCurrent'
<1>1. CASE PostRead(p, e)
  <2>1. Checks(p, "post", e, NoArg) /\ Guarded("post", entries[e])
    BY <1>1 DEF PostRead, Postable, Guarded
  <2> QED BY <2>1, CurrentRead
<1>2. CASE DepositRead(p, e)
  <2>1. Checks(p, "deposit", e, NoArg) /\ Guarded("deposit", entries[e])
    BY <1>2 DEF DepositRead, Guarded
  <2> QED BY <2>1, CurrentRead
<1>3. CASE BounceRead(p, e)
  <2>1. Checks(p, "bounce", e, NoArg) /\ Guarded("bounce", entries[e])
    BY <1>3 DEF BounceRead, Guarded
  <2> QED BY <2>1, CurrentRead
<1>4. ASSUME NEW payee \in Parties, EndorseRead(p, e, payee) PROVE AllCurrent'
  <2>1. Checks(p, "endorse", e, [payee |-> payee]) /\ Guarded("endorse", entries[e])
    BY <1>4 DEF EndorseRead, Endorsable, Guarded
  <2> QED BY <2>1, CurrentRead
<1>5. CASE CancelRead(p, e)
  <2>1. Checks(p, "cancel", e, NoArg) /\ Guarded("cancel", entries[e])
    BY <1>5 DEF CancelRead, Guarded
  <2> QED BY <2>1, CurrentRead
<1>6. CASE RemoveRead(p, e)
  <2>1. Checks(p, "remove", e, NoArg) /\ Guarded("remove", entries[e])
    BY <1>6 DEF RemoveRead, Guarded
  <2> QED BY <2>1, CurrentRead
<1>7. CASE EditRead(p, e)
  <2>1. PICK arg : Checks(p, "edit", e, arg)
    BY <1>7 DEF EditRead
  <2>2. Guarded("edit", entries[e])
    BY <1>7 DEF EditRead, Guarded
  <2> QED BY <2>1, <2>2, CurrentRead
<1> QED
  BY <1>1, <1>2, <1>3, <1>4, <1>5, <1>6, <1>7

\* Others change no entry that a request has read.
LEMMA CurrentOthers ==
    ASSUME AllCurrent, TypeInv, UNCHANGED reqs,
           \A e \in Entries : Exists(e) => entries'[e] = entries[e]
    PROVE  AllCurrent'
<1> SUFFICES ASSUME NEW p \in Procs PROVE Current(reqs[p])'
    BY DEF AllCurrent
<1>1. Current(reqs[p])
  BY DEF AllCurrent
<1>2. reqs[p].stage \in {"checked", "tx"} => reqs[p].e \in Entries
  BY Requests DEF TypeInv, TypeOK, Checked, InTx
<1> QED
  BY <1>1, <1>2 DEF Current, Exists

\* Every step keeps what is read true.
LEMMA CurrentStep == RowsApart /\ TypeInv /\ AllCurrent /\ [Next]_vars => AllCurrent'
<1> SUFFICES ASSUME RowsApart, TypeInv, AllCurrent, [Next]_vars PROVE AllCurrent'
    OBVIOUS
<1>1. ASSUME NEW p \in Procs, NEW e \in Entries,
             \/ PostRead(p, e) \/ DepositRead(p, e) \/ BounceRead(p, e)
             \/ \E payee \in Parties : EndorseRead(p, e, payee)
             \/ CancelRead(p, e) \/ RemoveRead(p, e) \/ EditRead(p, e)
      PROVE  AllCurrent'
  BY <1>1, CurrentReads
<1>2. ASSUME NEW p \in Procs, Begin(p) PROVE AllCurrent'
  <2>4. PICK req : req = [stage |-> "tx", op |-> reqs[p].op, e |-> reqs[p].e,
                          row |-> reqs[p].row, arg |-> reqs[p].arg, seen |-> docs]
    OBVIOUS
  <2>1. /\ reqs' = [reqs EXCEPT ![p] = req] /\ UNCHANGED <<entries, docs>>
        /\ req.op = reqs[p].op /\ req.e = reqs[p].e /\ req.row = reqs[p].row
        /\ req.seen = docs /\ reqs[p].stage = "checked"
    BY <1>2, <2>4 DEF Begin, books
  <2>2. Current(reqs[p])
    BY DEF AllCurrent
  <2>3. Current(req)'
    BY <2>1, <2>2 DEF Current, Exists
  <2> QED BY <2>1, <2>3, CurrentNext
<1>3. ASSUME NEW p \in Procs, RepostRead(p) PROVE AllCurrent'
  <2>3. PICK req : req = [stage |-> "checked", op |-> "post", e |-> reqs[p].e,
                          row |-> entries[reqs[p].e], arg |-> NoArg]
    OBVIOUS
  <2>1. /\ reqs' = [reqs EXCEPT ![p] = req] /\ UNCHANGED <<entries, docs>>
        /\ req.op = "post" /\ req.row = entries[req.e]
        /\ req.stage = "checked" /\ entries[req.e].status = "pending"
    BY <1>3, <2>3 DEF RepostRead, Postable, books
  <2>2. Current(req)'
    BY <2>1 DEF Current, Exists, Guarded
  <2> QED BY <2>1, <2>2, CurrentNext
<1>4. ASSUME NEW p \in Procs,
             \/ PostCommit(p) \/ DepositCommit(p) \/ BounceCommit(p)
             \/ EndorseCommit(p) \/ RemoveCommit(p) \/ CancelCommit(p)
             \/ EditCommit(p) \/ ReverseCommit(p)
      PROVE  AllCurrent'
  <2>1. PICK req : reqs' = [reqs EXCEPT ![p] = req] /\ req.stage \in {"idle", "repost"}
    <3>1. CASE ReverseCommit(p)
      <4>1. PICK req : req = [stage |-> "repost", e |-> reqs[p].e]
        OBVIOUS
      <4>2. reqs' = [reqs EXCEPT ![p] = req] /\ req.stage = "repost"
        BY <3>1, <4>1 DEF ReverseCommit
      <4> QED BY <4>2
    <3>2. CASE ~ReverseCommit(p)
      <4>1. reqs' = [reqs EXCEPT ![p] = Idle] /\ Idle.stage = "idle"
        BY <1>4, <3>2 DEF PostCommit, DepositCommit, BounceCommit, EndorseCommit,
                          RemoveCommit, CancelCommit, EditCommit, Finish, Idle
      <4> QED BY <4>1
    <3> QED BY <3>1, <3>2
  <2>2. reqs[p].stage # "idle"
    BY <1>4 DEF PostCommit, DepositCommit, BounceCommit, EndorseCommit, RemoveCommit,
                CancelCommit, EditCommit, ReverseCommit, Committing
  <2>3. \A f \in Entries : f # reqs[p].e => entries'[f] = entries[f]
    <3>1. entries \in [Entries -> Entry]
      BY DEF TypeInv, TypeOK, BooksTypeOK
    <3> QED
      BY <1>4, <3>1 DEF PostCommit, DepositCommit, BounceCommit, EndorseCommit,
                        RemoveCommit, CancelCommit, EditCommit, ReverseCommit
  <2> QED BY <2>1, <2>2, <2>3, CurrentWritten
<1>5. ASSUME NEW p \in Procs, Fail(p) PROVE AllCurrent'
  <2>1. reqs' = [reqs EXCEPT ![p] = Idle] /\ UNCHANGED entries /\ Idle.stage = "idle"
    BY <1>5 DEF Fail, Finish, books, Idle
  <2>2. Current(Idle)'
    BY <2>1 DEF Current
  <2> QED BY <2>1, <2>2, CurrentNext
<1>6. ASSUME NEW e \in Entries, NEW kind \in Kinds, NEW party \in Parties,
             NEW amount \in Amounts, NEW alloc \in [Docs -> 0 .. MaxAmount],
             Create(e, kind, party, amount, alloc)
      PROVE  AllCurrent'
  <2>1. UNCHANGED reqs /\ ~Exists(e)
    BY <1>6 DEF Create, Exists
  <2>2. \A f \in Entries : f # e => entries'[f] = entries[f]
    BY <1>6 DEF Create, TypeInv, TypeOK, BooksTypeOK
  <2> QED BY <2>1, <2>2, CurrentOthers
<1>7. ASSUME NEW d \in Docs, NEW amount \in Amounts, PostReturn(d, amount)
      PROVE  AllCurrent'
  <2>1. UNCHANGED <<entries, reqs>>
    BY <1>7 DEF PostReturn
  <2> QED BY <2>1, CurrentOthers
<1>8. CASE SetLock \/ UNCHANGED vars
  <2>1. UNCHANGED <<entries, reqs>>
    BY <1>8 DEF SetLock, vars
  <2> QED BY <2>1, CurrentOthers
<1> QED
  BY <1>1, <1>2, <1>3, <1>4, <1>5, <1>6, <1>7, <1>8 DEF Next

-------------------------------------------------------------------------------
(* What the vouchers of an entry leave in an account.                       *)

RefsTo(vs, e) == {i \in DOMAIN vs : vs[i].ref = e}

Counts(v, account) == IF v.status = "posted" THEN Moved(v, account) ELSE 0

\* What the vouchers of entry e add to an account, if vs are the vouchers.
Trace(vs, e, account) == SumFunction([i \in RefsTo(vs, e) |-> Counts(vs[i], account)])

LEMMA TraceIsMovement ==
    ASSUME NEW e, NEW account
    PROVE  Movement(VouchersOf(e), account) = Trace(vouchers, e, account)
BY DEF Movement, VouchersOf, Trace, RefsTo, Counts, Live

LEMMA CountsTyped ==
    ASSUME NEW v \in Voucher, NEW account
    PROVE  Moved(v, account) \in Int /\ Counts(v, account) \in Int
<1>1. v.amount \in Nat
  BY Amounts1 DEF Voucher
<1> QED
  BY <1>1 DEF Moved, Counts

LEMMA PositionsFinite ==
    ASSUME NEW vs \in Seq(Voucher), NEW S, S \subseteq DOMAIN vs
    PROVE  IsFiniteSet(S)
<1>1. DOMAIN vs = 1 .. Len(vs) /\ Len(vs) \in Int
  OBVIOUS
<1>2. IsFiniteSet(DOMAIN vs)
  BY <1>1, FS_Interval
<1> QED
  BY <1>2, FS_Subset

LEMMA Appended ==
    ASSUME NEW vs \in Seq(Voucher), NEW v \in Voucher
    PROVE  /\ Append(vs, v) \in Seq(Voucher)
           /\ Len(vs) + 1 \notin DOMAIN vs
           /\ DOMAIN Append(vs, v) = DOMAIN vs \cup {Len(vs) + 1}
           /\ Append(vs, v)[Len(vs) + 1] = v
           /\ \A i \in DOMAIN vs : Append(vs, v)[i] = vs[i] /\ vs[i] \in Voucher
OBVIOUS

LEMMA TraceTyped ==
    ASSUME NEW vs \in Seq(Voucher), NEW e, NEW account
    PROVE  Trace(vs, e, account) \in Int
<1> DEFINE S == RefsTo(vs, e)
           f == [i \in S |-> Counts(vs[i], account)]
<1>1. Trace(vs, e, account) = SumFunctionOnSet(f, S)
  BY DEF Trace, SumFunction
<1>2. \A i \in S : f[i] \in Int
  <2>1. \A i \in S : vs[i] \in Voucher
    BY DEF RefsTo
  <2> QED
    BY <2>1, CountsTyped
<1>3. IsFiniteSet(S)
  BY PositionsFinite DEF RefsTo
<1> HIDE DEF S, f
<1> QED
  BY <1>1, <1>2, <1>3, SumType

\* A new voucher adds what it moves to the trace of the entry it refers to.
LEMMA TraceAppend ==
    ASSUME NEW vs \in Seq(Voucher), NEW v \in Voucher, NEW e, NEW account
    PROVE  Trace(Append(vs, v), e, account)
             = Trace(vs, e, account) + (IF v.ref = e THEN Counts(v, account) ELSE 0)
<1>1. PICK n, longer : n = Len(vs) + 1 /\ longer = Append(vs, v)
  OBVIOUS
<1>2. PICK old, new : old = RefsTo(vs, e) /\ new = RefsTo(longer, e)
  OBVIOUS
<1>3. PICK f, g : /\ f = [i \in old |-> Counts(vs[i], account)]
                  /\ g = [i \in new |-> Counts(longer[i], account)]
  OBVIOUS
<1>4. /\ longer \in Seq(Voucher) /\ n \notin DOMAIN vs
      /\ DOMAIN longer = DOMAIN vs \cup {n} /\ longer[n] = v
      /\ \A i \in DOMAIN vs : longer[i] = vs[i] /\ vs[i] \in Voucher
  BY <1>1, Appended
<1>5. /\ old \subseteq DOMAIN vs /\ IsFiniteSet(old)
      /\ n \notin old /\ \A i \in old : f[i] = g[i] /\ f[i] \in Int
  <2>1. old \subseteq DOMAIN vs /\ old \subseteq new
    BY <1>2, <1>4 DEF RefsTo
  <2>2. \A i \in old : f[i] = Counts(vs[i], account) /\ g[i] = Counts(longer[i], account)
    BY <1>3, <2>1
  <2> QED
    BY <1>4, <2>1, <2>2, PositionsFinite, CountsTyped
<1>6. /\ Trace(vs, e, account) = SumFunctionOnSet(f, old)
      /\ Trace(longer, e, account) = SumFunctionOnSet(g, new)
  BY <1>2, <1>3 DEF Trace, SumFunction
<1>7. SumFunctionOnSet(f, old) = SumFunctionOnSet(g, old) /\ SumFunctionOnSet(f, old) \in Int
  BY <1>5, SumEqual, SumType
<1>8. CASE v.ref = e
  <2>1. new = old \cup {n} /\ new \ {n} = old
    BY <1>2, <1>4, <1>5, <1>8 DEF RefsTo
  <2>2. IsFiniteSet(new)
    BY <1>5, <2>1, FS_AddElement
  <2>3. g[n] = Counts(v, account) /\ g[n] \in Int
    BY <1>3, <1>4, <2>1, CountsTyped
  <2>4. \A i \in new : g[i] \in Int
    BY <1>5, <2>1, <2>3
  <2>5. SumFunctionOnSet(g, new) = g[n] + SumFunctionOnSet(g, new \ {n})
    BY <2>1, <2>2, <2>4, SumRemove
  <2>6. SumFunctionOnSet(g, new \ {n}) = SumFunctionOnSet(f, old)
    BY <1>7, <2>1
  <2>7. SumFunctionOnSet(g, new) = SumFunctionOnSet(f, old) + Counts(v, account)
    BY <1>7, <2>3, <2>5, <2>6
  <2>8. Trace(longer, e, account) = Trace(vs, e, account) + Counts(v, account)
    BY <1>6, <2>7
  <2> QED
    BY <1>1, <1>8, <2>8
<1>9. CASE v.ref # e
  <2>1. new = old
    BY <1>2, <1>4, <1>9 DEF RefsTo
  <2> QED
    BY <1>1, <1>6, <1>7, <1>9, <2>1
<1> QED
  BY <1>8, <1>9

\* Cancelling all vouchers of an entry takes its trace away and no other.
LEMMA TraceCancelled ==
    ASSUME vouchers \in Seq(Voucher), NEW e, NEW f, NEW account
    PROVE  Trace(Cancelled(VouchersOf(e)), f, account)
             = IF f = e THEN 0 ELSE Trace(vouchers, f, account)
<1>1. PICK cancelled, S : cancelled = Cancelled(VouchersOf(e)) /\ S = RefsTo(vouchers, f)
  OBVIOUS
<1>2. \A i \in DOMAIN vouchers : vouchers[i] \in Voucher
  OBVIOUS
<1>3. /\ DOMAIN cancelled = DOMAIN vouchers
      /\ \A i \in DOMAIN vouchers :
            /\ cancelled[i].ref = vouchers[i].ref
            /\ i \notin VouchersOf(e) => cancelled[i] = vouchers[i]
            /\ i \in VouchersOf(e) => cancelled[i].status \in {"cancelled", "deleted"}
  BY <1>1, <1>2 DEF Cancelled, Voucher
<1>4. RefsTo(cancelled, f) = S
  BY <1>1, <1>3 DEF RefsTo
<1>5. PICK g, h : /\ g = [i \in S |-> Counts(vouchers[i], account)]
                  /\ h = [i \in S |-> Counts(cancelled[i], account)]
  OBVIOUS
<1>6. /\ Trace(vouchers, f, account) = SumFunctionOnSet(g, S)
      /\ Trace(cancelled, f, account) = SumFunctionOnSet(h, S)
  BY <1>1, <1>4, <1>5 DEF Trace, SumFunction
<1>7. S \subseteq DOMAIN vouchers /\ IsFiniteSet(S)
  BY <1>1, PositionsFinite DEF RefsTo
<1>8. CASE f = e
  <2>1. ASSUME NEW i \in S PROVE h[i] = 0
    <3>1. i \in VouchersOf(e)
      BY <1>1, <1>8 DEF RefsTo, VouchersOf
    <3>2. cancelled[i].status # "posted"
      BY <1>3, <1>7, <3>1
    <3> QED
      BY <1>5, <3>2 DEF Counts
  <2>2. SumFunctionOnSet(h, S) = 0
    BY <1>7, <2>1, SumZero
  <2> QED
    BY <1>1, <1>6, <1>8, <2>2
<1>9. CASE f # e
  <2>1. ASSUME NEW i \in S PROVE g[i] = h[i]
    <3>1. i \notin VouchersOf(e)
      BY <1>1, <1>9 DEF RefsTo, VouchersOf
    <3> QED
      BY <1>3, <1>5, <1>7, <3>1
  <2>2. SumFunctionOnSet(g, S) = SumFunctionOnSet(h, S)
    BY <1>7, <2>1, SumEqual
  <2> QED
    BY <1>1, <1>6, <1>9, <2>2
<1> QED
  BY <1>8, <1>9

-------------------------------------------------------------------------------
(* Requests about different entries: entries and vouchers agree.            *)

\* The row of a posted entry e points at its posting, which is live.
Points(row, e, vs) ==
    /\ row.voucher \in RefsTo(vs, e)
    /\ LET v == vs[row.voucher]
       IN  /\ v.status = "posted" /\ v.kind = "post"
           /\ v.amount = row.amount
           /\ row.party = IF IsReceipt(row) THEN v.cr ELSE v.dr

\* What a row of entry e says agrees with the vouchers vs: nothing of an entry that is
\* not posted is left, and of one that can still be corrected there is the posting only.
Consistent(row, e, vs) ==
    /\ row.status # "posted" => /\ row.cheque \in {"none", "PENDING"}
                                /\ \A account : Trace(vs, e, account) = 0
    /\ row.status = "posted" =>
          /\ Points(row, e, vs)
          /\ Editable(row) =>
                \A account : Trace(vs, e, account) = Moved(vs[row.voucher], account)

AllConsistent == \A e \in Entries : Consistent(entries[e], e, vouchers)

LEMMA ConsistentInit == Init => AllConsistent
<1> SUFFICES ASSUME Init, NEW e \in Entries PROVE Consistent(entries[e], e, vouchers)
    BY DEF AllConsistent
<1>1. entries[e].status = "absent" /\ entries[e].cheque = "none" /\ vouchers = <<>>
  BY DEF Init, Blank
<1>2. RefsTo(vouchers, e) = {}
  BY <1>1 DEF RefsTo
<1>3. ASSUME NEW account PROVE Trace(vouchers, e, account) = 0
  <2> DEFINE f == [i \in {} |-> Counts(vouchers[i], account)]
  <2>1. Trace(vouchers, e, account) = SumFunctionOnSet(f, {})
    BY <1>2 DEF Trace, SumFunction
  <2> QED
    BY <2>1, SumEmpty
<1> QED
  BY <1>1, <1>3 DEF Consistent

\* A row points where it did after another voucher was booked.
LEMMA PointsStays ==
    ASSUME NEW vs \in Seq(Voucher), NEW v \in Voucher, NEW row, NEW e, Points(row, e, vs)
    PROVE  Points(row, e, Append(vs, v)) /\ Append(vs, v)[row.voucher] = vs[row.voucher]
<1>1. row.voucher \in RefsTo(Append(vs, v), e) /\ Append(vs, v)[row.voucher] = vs[row.voucher]
  BY Appended DEF Points, RefsTo
<1> QED
  BY <1>1 DEF Points

\* The vouchers of another entry do not matter.
LEMMA ConsistentOther ==
    ASSUME NEW vs \in Seq(Voucher), NEW v \in Voucher, NEW row, NEW e, v.ref # e,
           Consistent(row, e, vs)
    PROVE  Consistent(row, e, Append(vs, v))
<1>1. ASSUME NEW account PROVE Trace(Append(vs, v), e, account) = Trace(vs, e, account)
  <2>1. Trace(vs, e, account) \in Int
    BY TraceTyped
  <2>2. Trace(Append(vs, v), e, account) = Trace(vs, e, account) + 0
    BY TraceAppend
  <2> QED
    BY <2>1, <2>2
<1> QED
  BY <1>1, PointsStays DEF Consistent

\* The step writes one entry and books a voucher for it.
LEMMA ConsistentBook ==
    ASSUME TypeInv, AllConsistent, NEW e \in Entries, NEW new,
           entries' = [entries EXCEPT ![e] = new], NEW v \in Voucher, v.ref = e,
           vouchers' = Append(vouchers, v), Consistent(new, e, Append(vouchers, v))
    PROVE  AllConsistent'
<1> SUFFICES ASSUME NEW f \in Entries PROVE Consistent(entries'[f], f, vouchers')
    BY DEF AllConsistent
<1>1. vouchers \in Seq(Voucher) /\ entries \in [Entries -> Entry]
  BY DEF TypeInv, TypeOK, BooksTypeOK
<1>2. CASE f = e
  BY <1>1, <1>2
<1>3. CASE f # e
  <2>1. Consistent(entries[f], f, vouchers)
    BY DEF AllConsistent
  <2>2. Consistent(entries[f], f, Append(vouchers, v))
    BY <1>1, <1>3, <2>1, ConsistentOther
  <2> QED
    BY <1>1, <1>3, <2>2
<1> QED
  BY <1>2, <1>3

\* The step writes one entry and leaves the vouchers alone.
LEMMA ConsistentWrite ==
    ASSUME TypeInv, AllConsistent, NEW e \in Entries, NEW new,
           entries' = [entries EXCEPT ![e] = new], UNCHANGED vouchers,
           Consistent(new, e, vouchers)
    PROVE  AllConsistent'
BY DEF AllConsistent, TypeInv, TypeOK, BooksTypeOK

\* The posting of an entry that left no trace.
LEMMA ConsistentPosted ==
    ASSUME NEW vs \in Seq(Voucher), NEW v \in Voucher, NEW e, NEW old, NEW new,
           Consistent(old, e, vs), old.status # "posted",
           v.ref = e, v.status = "posted", v.kind = "post", v.amount = new.amount,
           new.party = IF IsReceipt(new) THEN v.cr ELSE v.dr,
           new.status = "posted", new.voucher = Len(vs) + 1
    PROVE  Consistent(new, e, Append(vs, v))
<1>1. /\ Append(vs, v)[new.voucher] = v
      /\ new.voucher \in RefsTo(Append(vs, v), e)
  BY Appended DEF RefsTo
<1>2. ASSUME NEW account PROVE Trace(Append(vs, v), e, account) = Moved(v, account)
  <2>1. Trace(vs, e, account) = 0 /\ Moved(v, account) \in Int
    BY CountsTyped DEF Consistent
  <2>2. Trace(Append(vs, v), e, account) = Trace(vs, e, account) + Moved(v, account)
    BY TraceAppend DEF Counts
  <2> QED
    BY <2>1, <2>2
<1> QED
  BY <1>1, <1>2 DEF Consistent, Points

\* A further voucher of a posted entry that can no longer be corrected.
LEMMA ConsistentFinal ==
    ASSUME NEW vs \in Seq(Voucher), NEW v \in Voucher, NEW e, NEW old, NEW new,
           Consistent(old, e, vs), old.status = "posted",
           new.status = "posted", ~Editable(new), new.voucher = old.voucher,
           new.amount = old.amount, new.party = old.party, new.type = old.type
    PROVE  Consistent(new, e, Append(vs, v))
<1>1. Points(old, e, Append(vs, v))
  BY PointsStays DEF Consistent
<1> QED
  BY <1>1 DEF Consistent, Points, IsReceipt

\* The reversal of an entry that can be corrected.
LEMMA ConsistentReversed ==
    ASSUME NEW vs \in Seq(Voucher), NEW v \in Voucher, NEW e, NEW old, NEW new,
           Consistent(old, e, vs), old.status = "posted", Editable(old),
           v.ref = e, v.status = "posted", v.dr = vs[old.voucher].cr,
           v.cr = vs[old.voucher].dr, v.amount = vs[old.voucher].amount,
           new.status = "pending", new.cheque = "none"
    PROVE  Consistent(new, e, Append(vs, v))
<1>1. PICK w : w = vs[old.voucher]
  OBVIOUS
<1>2. w \in Voucher
  BY <1>1, Appended DEF Consistent, Points, RefsTo
<1>3. ASSUME NEW account PROVE Trace(Append(vs, v), e, account) = 0
  <2>1. Trace(vs, e, account) = Moved(w, account)
    BY <1>1 DEF Consistent
  <2>2. Trace(Append(vs, v), e, account) = Trace(vs, e, account) + Moved(v, account)
    BY TraceAppend DEF Counts
  <2>3. w.amount \in Nat /\ v.dr = w.cr /\ v.cr = w.dr /\ v.amount = w.amount
    BY <1>1, <1>2, Amounts1 DEF Voucher
  <2>4. Moved(w, account) + Moved(v, account) = 0
    BY <2>3 DEF Moved
  <2> QED
    BY <2>1, <2>2, <2>4
<1> QED
  BY <1>3 DEF Consistent

\* What a transaction that is about to commit knows.
LEMMA Committed ==
    ASSUME TypeInv, AllCurrent, NEW p \in Procs, NEW op, Committing(p, op)
    PROVE  /\ reqs[p].e \in Entries /\ reqs[p].op = op
           /\ reqs[p].row = entries[reqs[p].e] /\ Guarded(op, reqs[p].row)
           /\ reqs[p].row.status \in {"pending", "posted", "cancelled"}
           /\ reqs[p].seen \in [Docs -> Doc]
           /\ ReqOK(reqs[p], Len(vouchers))
<1>1. Current(reqs[p]) /\ reqs[p].stage = "tx" /\ reqs[p].op = op
  BY DEF AllCurrent, Committing
<1>2. entries[reqs[p].e] \in Entry
  BY AtCommit DEF TypeInv, TypeOK, BooksTypeOK
<1> QED
  BY <1>1, <1>2, AtCommit DEF Current, Exists, Entry

LEMMA BookedVoucher ==
    ASSUME NEW e \in Entries, NEW dr \in Accounts, NEW cr \in Accounts,
           NEW amount \in Amounts,
           NEW kind \in {"post", "clear", "bounce", "endorse", "reversal"}
    PROVE  \E v \in Voucher :
              /\ Booked(e, kind, dr, cr, amount) = Append(vouchers, v)
              /\ v.ref = e /\ v.kind = kind /\ v.dr = dr /\ v.cr = cr
              /\ v.amount = amount /\ v.status = "posted"
<1>1. PICK v : v = [ref |-> e, kind |-> kind, dr |-> dr, cr |-> cr,
                    amount |-> amount, status |-> "posted"]
  OBVIOUS
<1>2. v \in Voucher
  BY <1>1 DEF Voucher
<1> QED
  BY <1>1, <1>2 DEF Booked

LEMMA PostConsistent ==
    ASSUME TypeInv, AllCurrent, AllConsistent, NEW p \in Procs, PostCommit(p)
    PROVE  AllConsistent'
<1>1. PICK e \in Entries : e = reqs[p].e
  BY Committed DEF PostCommit
<1>2. PICK row \in Entry : row = entries[e]
  BY DEF TypeInv, TypeOK, BooksTypeOK
<1>3. reqs[p].row = row /\ row.status = "pending"
  BY <1>1, <1>2, Committed DEF PostCommit, Guarded
<1>4. PICK account \in Accounts : account = PostAccount(row)
  BY DEF PostAccount, Entry, Accounts, Holdings
<1>5. PICK dr \in Accounts, cr \in Accounts :
         /\ vouchers' = Booked(e, "post", dr, cr, row.amount)
         /\ row.party = IF IsReceipt(row) THEN cr ELSE dr
  <2>1. row.party \in Accounts
    BY DEF Entry, Accounts
  <2>2. CASE IsReceipt(row)
    BY <1>1, <1>3, <1>4, <2>1, <2>2 DEF PostCommit
  <2>3. CASE ~IsReceipt(row)
    BY <1>1, <1>3, <1>4, <2>1, <2>3 DEF PostCommit
  <2> QED BY <2>2, <2>3
<1>6. PICK v \in Voucher : /\ vouchers' = Append(vouchers, v) /\ v.ref = e
                           /\ v.kind = "post" /\ v.dr = dr /\ v.cr = cr
                           /\ v.amount = row.amount /\ v.status = "posted"
  <2>1. row.amount \in Amounts
    BY DEF Entry
  <2> QED BY <1>5, <2>1, BookedVoucher
<1>7. PICK main, cheque :
         entries' = [entries EXCEPT ![e] = PostedRow(row, Len(vouchers) + 1, main, cheque)]
  <2>1. PICK main, cheque :
           /\ main = IF IsPdc(row) THEN account ELSE row.main
           /\ cheque = IF IsPdc(row) THEN "IN_HAND"
                       ELSE IF row.method = "CHEQUE" THEN "CLEARED" ELSE row.cheque
    OBVIOUS
  <2>2. entries' = [entries EXCEPT ![e] = PostedRow(row, Len(vouchers) + 1, main, cheque)]
    BY <1>1, <1>2, <1>3, <1>4, <2>1 DEF PostCommit, PostedRow, TypeInv, TypeOK, BooksTypeOK
  <2> QED BY <2>2
<1>8. PICK new : new = PostedRow(row, Len(vouchers) + 1, main, cheque)
  OBVIOUS
<1>9. /\ new.status = "posted" /\ new.voucher = Len(vouchers) + 1
      /\ new.amount = row.amount /\ new.party = row.party /\ IsReceipt(new) = IsReceipt(row)
  BY <1>8 DEF PostedRow, Entry, IsReceipt
<1>10. vouchers \in Seq(Voucher) /\ Consistent(row, e, vouchers)
  BY <1>2 DEF AllConsistent, TypeInv, TypeOK, BooksTypeOK
<1>11. new.party = IF IsReceipt(new) THEN v.cr ELSE v.dr
  BY <1>5, <1>6, <1>9
<1>12. Consistent(new, e, Append(vouchers, v))
  BY <1>3, <1>6, <1>9, <1>10, <1>11, ConsistentPosted
<1>13. entries' = [entries EXCEPT ![e] = new]
  BY <1>7, <1>8
<1> QED
  BY <1>6, <1>12, <1>13, ConsistentBook

\* Clearing, bouncing or endorsing a posted entry books a voucher and ends the time in
\* which the entry can be corrected.
LEMMA ChequeConsistent ==
    ASSUME TypeInv, AllConsistent, NEW e \in Entries, entries[e].status = "posted",
           NEW kind \in {"clear", "bounce", "endorse"}, NEW dr \in Accounts,
           NEW cr \in Accounts, vouchers' = Booked(e, kind, dr, cr, entries[e].amount),
           NEW cheque \in {"DEPOSITED", "CLEARED", "BOUNCED", "ENDORSED"}, NEW alloc,
           entries' = [entries EXCEPT ![e] = [entries[e] EXCEPT !.cheque = cheque,
                                                                !.alloc = alloc]]
    PROVE  AllConsistent'
<1>1. PICK row \in Entry : row = entries[e]
  BY DEF TypeInv, TypeOK, BooksTypeOK
<1>2. PICK v \in Voucher : vouchers' = Append(vouchers, v) /\ v.ref = e
  <2>1. row.amount \in Amounts
    BY DEF Entry
  <2> QED BY <1>1, <2>1, BookedVoucher
<1>3. PICK new : new = [row EXCEPT !.cheque = cheque, !.alloc = alloc]
  OBVIOUS
<1>4. /\ new.status = "posted" /\ ~Editable(new) /\ new.voucher = row.voucher
      /\ new.amount = row.amount /\ new.party = row.party /\ new.type = row.type
  BY <1>1, <1>3 DEF Editable, Entry
<1>5. vouchers \in Seq(Voucher) /\ Consistent(row, e, vouchers) /\ row.status = "posted"
  BY <1>1 DEF AllConsistent, TypeInv, TypeOK, BooksTypeOK
<1>6. Consistent(new, e, Append(vouchers, v))
  BY <1>4, <1>5, ConsistentFinal
<1> QED
  BY <1>1, <1>2, <1>3, <1>6, ConsistentBook

LEMMA DepositConsistent ==
    ASSUME TypeInv, AllCurrent, AllConsistent, NEW p \in Procs, DepositCommit(p)
    PROVE  AllConsistent'
<1>1. PICK e \in Entries : e = reqs[p].e
  BY Committed DEF DepositCommit
<1>2. PICK row \in Entry : row = entries[e]
  BY DEF TypeInv, TypeOK, BooksTypeOK
<1>3. reqs[p].row = row /\ row.status = "posted"
  BY <1>1, <1>2, Committed DEF DepositCommit, Guarded, Depositable
<1>4. row.main \in Accounts /\ "bank" \in Accounts /\ "pdc" \in Accounts
  BY DEF Entry, Accounts, Holdings
<1>5. PICK cheque \in {"DEPOSITED", "CLEARED"} : entries' = [entries EXCEPT ![e].cheque = cheque]
  BY <1>1 DEF DepositCommit
<1>6. entries' = [entries EXCEPT ![e] = [row EXCEPT !.cheque = cheque, !.alloc = row.alloc]]
  <2>1. [row EXCEPT !.cheque = cheque] = [row EXCEPT !.cheque = cheque, !.alloc = row.alloc]
    BY DEF Entry
  <2> QED BY <1>2, <1>5, <2>1
<1>7. PICK dr \in Accounts, cr \in Accounts :
         vouchers' = Booked(e, "clear", dr, cr, row.amount)
  BY <1>1, <1>3, <1>4 DEF DepositCommit
<1>8. "clear" \in {"clear", "bounce", "endorse"}
      /\ cheque \in {"DEPOSITED", "CLEARED", "BOUNCED", "ENDORSED"}
  OBVIOUS
<1> QED
  BY <1>2, <1>3, <1>6, <1>7, <1>8, ChequeConsistent

LEMMA BounceConsistent ==
    ASSUME TypeInv, AllCurrent, AllConsistent, NEW p \in Procs, BounceCommit(p)
    PROVE  AllConsistent'
<1>1. PICK e \in Entries : e = reqs[p].e
  BY Committed DEF BounceCommit
<1>2. PICK row \in Entry : row = entries[e]
  BY DEF TypeInv, TypeOK, BooksTypeOK
<1>3. reqs[p].row = row /\ row.cheque = "IN_HAND"
  BY <1>1, <1>2, Committed DEF BounceCommit, Guarded, Bounceable
<1>4. row.status = "posted"
  BY <1>2, <1>3 DEF AllConsistent, Consistent
<1>5. row.main \in Accounts /\ row.party \in Accounts /\ "pdc" \in Accounts
  BY DEF Entry, Accounts, Holdings
<1>6. entries' = [entries EXCEPT ![e] = [row EXCEPT !.cheque = "BOUNCED",
                                                    !.alloc = NoAllocation]]
  BY <1>1, <1>2 DEF BounceCommit
<1>7. PICK dr \in Accounts, cr \in Accounts :
         vouchers' = Booked(e, "bounce", dr, cr, row.amount)
  BY <1>1, <1>3, <1>5 DEF BounceCommit
<1>8. "bounce" \in {"clear", "bounce", "endorse"}
      /\ "BOUNCED" \in {"DEPOSITED", "CLEARED", "BOUNCED", "ENDORSED"}
  OBVIOUS
<1> QED
  BY <1>2, <1>4, <1>6, <1>7, <1>8, ChequeConsistent

LEMMA EndorseConsistent ==
    ASSUME TypeInv, AllCurrent, AllConsistent, NEW p \in Procs, EndorseCommit(p)
    PROVE  AllConsistent'
<1>1. PICK e \in Entries : e = reqs[p].e
  BY Committed DEF EndorseCommit
<1>2. PICK row \in Entry : row = entries[e]
  BY DEF TypeInv, TypeOK, BooksTypeOK
<1>3. reqs[p].row = row /\ row.status = "posted" /\ reqs[p].arg \in [payee : Parties]
  BY <1>1, <1>2, Committed DEF EndorseCommit, Guarded, ReqOK
<1>4. reqs[p].arg.payee \in Accounts /\ row.party \in Accounts
  BY <1>3 DEF Entry, Accounts
<1>5. entries' = [entries EXCEPT ![e] = [row EXCEPT !.cheque = "ENDORSED",
                                                    !.alloc = row.alloc]]
  <2>1. [row EXCEPT !.cheque = "ENDORSED"] = [row EXCEPT !.cheque = "ENDORSED", !.alloc = row.alloc]
    BY DEF Entry
  <2>2. entries' = [entries EXCEPT ![e] = [row EXCEPT !.cheque = "ENDORSED"]]
    BY <1>1, <1>2 DEF EndorseCommit
  <2> QED BY <2>1, <2>2
<1>6. vouchers' = Booked(e, "endorse", reqs[p].arg.payee, row.party, row.amount)
  BY <1>1, <1>3 DEF EndorseCommit
<1>7. "endorse" \in {"clear", "bounce", "endorse"}
      /\ "ENDORSED" \in {"DEPOSITED", "CLEARED", "BOUNCED", "ENDORSED"}
  OBVIOUS
<1> QED
  BY <1>2, <1>3, <1>4, <1>5, <1>6, <1>7, ChequeConsistent

\* Deleting a posted entry cancels every voucher of it.
LEMMA RemoveConsistent ==
    ASSUME TypeInv, AllCurrent, AllConsistent, NEW p \in Procs, RemoveCommit(p)
    PROVE  AllConsistent'
<1>1. PICK e \in Entries : e = reqs[p].e
  BY Committed DEF RemoveCommit
<1>2. PICK row \in Entry : row = entries[e]
  BY DEF TypeInv, TypeOK, BooksTypeOK
<1>3. reqs[p].row = row /\ vouchers \in Seq(Voucher) /\ entries \in [Entries -> Entry]
  BY <1>1, <1>2, Committed DEF RemoveCommit, TypeInv, TypeOK, BooksTypeOK
<1>4. PICK new : new = [Blank EXCEPT !.status = "deleted"]
  OBVIOUS
<1>5. /\ entries' = [entries EXCEPT ![e] = new]
      /\ new.status = "deleted" /\ new.cheque = "none"
  BY <1>1, <1>4 DEF RemoveCommit, Blank
<1>6. CASE row.status = "posted"
  <2>1. row.voucher \in VouchersOf(e)
    BY <1>2, <1>6 DEF AllConsistent, Consistent, Points, RefsTo, VouchersOf
  <2>2. VouchersOf(e) \cup {row.voucher} = VouchersOf(e)
    BY <2>1
  <2>3. vouchers' = Cancelled(VouchersOf(e))
    BY <1>1, <1>3, <1>6, <2>2 DEF RemoveCommit
  <2>4. ASSUME NEW f \in Entries, NEW account
        PROVE  Trace(vouchers', f, account) = IF f = e THEN 0 ELSE Trace(vouchers, f, account)
    BY <1>3, <2>3, TraceCancelled
  <2>5. ASSUME NEW f \in Entries, f # e PROVE Consistent(entries[f], f, vouchers')
    <3>1. PICK other : other = entries[f]
      OBVIOUS
    <3>2. Consistent(other, f, vouchers)
      BY <3>1 DEF AllConsistent
    <3>3. \A account : Trace(vouchers', f, account) = Trace(vouchers, f, account)
      BY <2>4, <2>5
    <3>4. /\ RefsTo(vouchers, f) \subseteq RefsTo(vouchers', f)
          /\ \A i \in RefsTo(vouchers, f) : vouchers'[i] = vouchers[i]
      BY <2>3, <2>5 DEF RefsTo, Cancelled, VouchersOf
    <3>5. ASSUME Points(other, f, vouchers)
          PROVE  /\ Points(other, f, vouchers')
                 /\ vouchers'[other.voucher] = vouchers[other.voucher]
      BY <3>4, <3>5 DEF Points
    <3>6. Consistent(other, f, vouchers')
      BY <3>2, <3>3, <3>5 DEF Consistent
    <3> QED BY <3>1, <3>6
  <2>6. Consistent(new, e, vouchers')
    BY <1>5, <2>4 DEF Consistent
  <2>7. ASSUME NEW f \in Entries PROVE Consistent(entries'[f], f, vouchers')
    BY <1>3, <1>5, <2>5, <2>6
  <2> QED BY <2>7 DEF AllConsistent
<1>7. CASE row.status # "posted"
  <2>1. UNCHANGED vouchers
    BY <1>3, <1>7 DEF RemoveCommit
  <2>2. Consistent(new, e, vouchers)
    BY <1>2, <1>5, <1>7 DEF AllConsistent, Consistent
  <2> QED BY <1>5, <2>1, <2>2, ConsistentWrite
<1> QED
  BY <1>6, <1>7

\* A correction of a posted entry first books its reversal.
LEMMA ReverseConsistent ==
    ASSUME TypeInv, AllCurrent, AllConsistent, NEW p \in Procs, ReverseCommit(p)
    PROVE  AllConsistent'
<1>1. PICK e \in Entries : e = reqs[p].e
  BY Committed DEF ReverseCommit
<1>2. PICK row \in Entry : row = entries[e]
  BY DEF TypeInv, TypeOK, BooksTypeOK
<1>3. /\ reqs[p].row = row /\ Editable(row) /\ reqs[p].stage = "tx" /\ reqs[p].op = "edit"
      /\ ReqOK(reqs[p], Len(vouchers)) /\ row.status \in {"pending", "posted", "cancelled"}
  BY <1>1, <1>2, Committed DEF ReverseCommit, Guarded, Committing
<1>4. row.status = "posted" /\ reqs[p].arg \in Edit
  BY <1>3 DEF ReqOK, SingleWrite, Editable
<1>5. vouchers \in Seq(Voucher) /\ Consistent(row, e, vouchers)
  BY <1>2 DEF AllConsistent, TypeInv, TypeOK, BooksTypeOK
<1>6. PICK original \in Voucher : original = vouchers[row.voucher]
  BY <1>4, <1>5, Appended DEF Consistent, Points, RefsTo
<1>7. PICK v \in Voucher :
         /\ vouchers' = Append(vouchers, v) /\ v.ref = e /\ v.dr = original.cr
         /\ v.cr = original.dr /\ v.amount = original.amount /\ v.status = "posted"
  <2>1. vouchers' = Booked(e, "reversal", original.cr, original.dr, original.amount)
    BY <1>1, <1>3, <1>6 DEF ReverseCommit
  <2>2. original.cr \in Accounts /\ original.dr \in Accounts /\ original.amount \in Amounts
    BY DEF Voucher
  <2> QED BY <2>1, <2>2, BookedVoucher
<1>8. PICK over \in Entry : over = Overwritten(e, reqs[p].arg)
  BY <1>4, OverwrittenTyped DEF TypeInv, TypeOK, BooksTypeOK
<1>9. PICK new : new = [over EXCEPT !.status = "pending", !.voucher = 0, !.cheque = "none"]
  OBVIOUS
<1>10. /\ entries' = [entries EXCEPT ![e] = new]
       /\ new.status = "pending" /\ new.cheque = "none"
  BY <1>1, <1>8, <1>9 DEF ReverseCommit, Entry
<1>11. Consistent(new, e, Append(vouchers, v))
  BY <1>3, <1>4, <1>5, <1>6, <1>7, <1>10, ConsistentReversed
<1> QED
  BY <1>7, <1>10, <1>11, ConsistentBook

\* A correction or cancellation of a pending entry.
LEMMA SingleConsistent ==
    ASSUME TypeInv, AllCurrent, AllConsistent, NEW p \in Procs,
           EditCommit(p) \/ CancelCommit(p)
    PROVE  AllConsistent'
<1>1. Current(reqs[p]) /\ reqs[p].stage = "checked"
  BY DEF AllCurrent, EditCommit, CancelCommit
<1>2. PICK e \in Entries : e = reqs[p].e
  BY <1>1, Requests DEF TypeInv, TypeOK, Checked
<1>3. PICK row \in Entry : row = entries[e]
  BY DEF TypeInv, TypeOK, BooksTypeOK
<1>4. reqs[p].row = row /\ row.status = "pending" /\ UNCHANGED vouchers
  BY <1>1, <1>2, <1>3 DEF Current, Guarded, EditCommit, CancelCommit, SingleWrite
<1>5. PICK new : /\ entries' = [entries EXCEPT ![e] = new]
                 /\ new.status # "posted" /\ new.cheque = row.cheque
  <2>1. CASE EditCommit(p)
    <3>1. reqs[p].arg \in Edit
      BY <1>1, <2>1 DEF TypeInv, ReqOK, EditCommit
    <3>2. /\ Overwritten(e, reqs[p].arg).status = row.status
          /\ Overwritten(e, reqs[p].arg).cheque = row.cheque
      BY <1>3 DEF Overwritten, Entry
    <3> QED BY <1>2, <1>4, <2>1, <3>2 DEF EditCommit
  <2>2. CASE CancelCommit(p)
    <3>1. PICK new : new = [row EXCEPT !.status = "cancelled"]
      OBVIOUS
    <3>2. new.status = "cancelled" /\ new.cheque = row.cheque
      BY <3>1 DEF Entry
    <3>3. entries' = [entries EXCEPT ![e] = new]
      BY <1>2, <1>3, <2>2, <3>1 DEF CancelCommit
    <3> QED BY <3>2, <3>3
  <2> QED BY <2>1, <2>2
<1>6. Consistent(new, e, vouchers)
  BY <1>3, <1>4, <1>5 DEF AllConsistent, Consistent
<1> QED
  BY <1>4, <1>5, <1>6, ConsistentWrite

LEMMA ConsistentStep ==
    TypeInv /\ AllCurrent /\ AllConsistent /\ [Next]_vars => AllConsistent'
<1> SUFFICES ASSUME TypeInv, AllCurrent, AllConsistent, [Next]_vars PROVE AllConsistent'
    OBVIOUS
<1>1. ASSUME UNCHANGED <<entries, vouchers>> PROVE AllConsistent'
  BY <1>1 DEF AllConsistent
<1>2. ASSUME NEW p \in Procs, NEW e \in Entries,
             \/ PostRead(p, e) \/ DepositRead(p, e) \/ BounceRead(p, e)
             \/ \E payee \in Parties : EndorseRead(p, e, payee)
             \/ CancelRead(p, e) \/ RemoveRead(p, e) \/ EditRead(p, e)
      PROVE  AllConsistent'
  BY <1>1, <1>2 DEF PostRead, DepositRead, BounceRead, EndorseRead, CancelRead,
                    RemoveRead, EditRead, Checks, books
<1>3. ASSUME NEW p \in Procs, Begin(p) \/ RepostRead(p) \/ Fail(p) PROVE AllConsistent'
  BY <1>1, <1>3 DEF Begin, RepostRead, Fail, books
<1>4. ASSUME NEW p \in Procs,
             \/ PostCommit(p) \/ DepositCommit(p) \/ BounceCommit(p)
             \/ EndorseCommit(p) \/ RemoveCommit(p) \/ CancelCommit(p)
             \/ EditCommit(p) \/ ReverseCommit(p)
      PROVE  AllConsistent'
  BY <1>4, PostConsistent, DepositConsistent, BounceConsistent, EndorseConsistent,
     RemoveConsistent, ReverseConsistent, SingleConsistent
<1>5. ASSUME NEW e \in Entries, NEW kind \in Kinds, NEW party \in Parties,
             NEW amount \in Amounts, NEW alloc \in [Docs -> 0 .. MaxAmount],
             Create(e, kind, party, amount, alloc)
      PROVE  AllConsistent'
  <2>1. PICK new : /\ entries' = [entries EXCEPT ![e] = new]
                   /\ new.status = "pending" /\ new.cheque \in {"none", "PENDING"}
    <3>1. PICK isPdc : isPdc = (kind.method = "CHEQUE" /\ kind.pdc)
      OBVIOUS
    <3>2. PICK new :
             new = [status |-> "pending", type |-> kind.type, method |-> kind.method,
                    pdc |-> kind.pdc, cheque |-> IF isPdc THEN "PENDING" ELSE "none",
                    party |-> party,
                    main |-> IF ~isPdc THEN "cash"
                             ELSE IF kind.type = "RECEIPT" THEN "pdc" ELSE "issued",
                    amount |-> amount, alloc |-> alloc, voucher |-> 0]
      OBVIOUS
    <3>3. new.status = "pending" /\ new.cheque \in {"none", "PENDING"}
      BY <3>2
    <3>4. entries' = [entries EXCEPT ![e] = new]
      BY <1>5, <3>1, <3>2 DEF Create
    <3> QED BY <3>3, <3>4
  <2>2. UNCHANGED vouchers /\ entries[e].status = "absent"
    BY <1>5 DEF Create
  <2>3. Consistent(new, e, vouchers)
    BY <2>1, <2>2 DEF AllConsistent, Consistent
  <2> QED BY <2>1, <2>2, <2>3, ConsistentWrite
<1>6. CASE (\E d \in Docs, amount \in Amounts : PostReturn(d, amount)) \/ SetLock
           \/ UNCHANGED vars
  BY <1>1, <1>6 DEF PostReturn, SetLock, vars
<1> QED
  BY <1>2, <1>3, <1>4, <1>5, <1>6 DEF Next

\* While requests that overlap are about different entries, nothing but what is posted
\* leaves a trace in any account, whatever was corrected, cancelled, deleted or given up
\* half way.
THEOREM CleanLedger == Spec /\ []RowsApart => []UnpostedLeavesNoTrace
<1> DEFINE IInv == TypeInv /\ AllCurrent /\ AllConsistent
<1>1. Init => IInv
  BY TypeInit, CurrentInit, ConsistentInit
<1>2. IInv /\ RowsApart /\ [Next]_vars => IInv'
  BY TypeStep, CurrentStep, ConsistentStep
<1>3. IInv => UnpostedLeavesNoTrace
  BY TraceIsMovement DEF UnpostedLeavesNoTrace, AllConsistent, Consistent
<1> HIDE DEF IInv
<1> QED
  BY <1>1, <1>2, <1>3, PTL DEF Spec

\* While requests that overlap are about different entries, a posted entry points at a
\* live voucher over its present amount with its present party.
THEOREM EntriesMatchVouchers == Spec /\ []RowsApart => []PostedMatchesVoucher
<1> DEFINE IInv == TypeInv /\ AllCurrent /\ AllConsistent
<1>1. Init => IInv
  BY TypeInit, CurrentInit, ConsistentInit
<1>2. IInv /\ RowsApart /\ [Next]_vars => IInv'
  BY TypeStep, CurrentStep, ConsistentStep
<1>3. IInv => PostedMatchesVoucher
  BY DEF PostedMatchesVoucher, AllConsistent, Consistent, Points, InForce, VouchersOf, RefsTo
<1> HIDE DEF IInv
<1> QED
  BY <1>1, <1>2, <1>3, PTL DEF Spec

\* Operations that come late bring nothing back: a bounced cheque and a cancelled entry
\* keep their rows until they are deleted, while requests that overlap are about different
\* entries.
THEOREM FinalIsFinal == Spec /\ []RowsApart => FinalStays
<1> DEFINE IInv == TypeInv /\ AllCurrent /\ AllConsistent
           Final(row) == row.cheque = "BOUNCED" \/ row.status = "cancelled"
           Kept == \A e \in Entries : Final(entries[e]) =>
                      entries'[e] = entries[e] \/ entries'[e].status = "deleted"
           A == \A e \in Entries :
                  /\ entries[e].cheque = "BOUNCED" =>
                        entries'[e] = entries[e] \/ entries'[e].status = "deleted"
                  /\ entries[e].status = "cancelled" =>
                        entries'[e].status \in {"cancelled", "deleted"}
<1>1. Init => IInv
  BY TypeInit, CurrentInit, ConsistentInit
<1>2. IInv /\ RowsApart /\ [Next]_vars => IInv'
  BY TypeStep, CurrentStep, ConsistentStep
<1>3. IInv /\ [Next]_vars => A
  <2> SUFFICES ASSUME IInv, [Next]_vars PROVE Kept
    OBVIOUS
  <2> USE DEF Final
  <2>1. entries \in [Entries -> Entry]
    BY DEF TypeInv, TypeOK, BooksTypeOK
  <2>3. ASSUME UNCHANGED entries PROVE Kept
    BY <2>3
  <2>4. \A e \in Entries : entries[e].cheque = "BOUNCED" => entries[e].status = "posted"
    BY DEF AllConsistent, Consistent
  <2>5. ASSUME NEW p \in Procs, NEW e \in Entries,
               \/ PostRead(p, e) \/ DepositRead(p, e) \/ BounceRead(p, e)
               \/ \E payee \in Parties : EndorseRead(p, e, payee)
               \/ CancelRead(p, e) \/ RemoveRead(p, e) \/ EditRead(p, e)
        PROVE  Kept
    BY <2>3, <2>5 DEF PostRead, DepositRead, BounceRead, EndorseRead, CancelRead,
                      RemoveRead, EditRead, Checks, books
  <2>6. ASSUME NEW p \in Procs, Begin(p) \/ RepostRead(p) \/ Fail(p) PROVE Kept
    BY <2>3, <2>6 DEF Begin, RepostRead, Fail, books
  <2>7. ASSUME NEW p \in Procs, NEW op \in {"post", "deposit", "bounce", "endorse", "edit"},
               Committing(p, op)
        PROVE  ~Final(entries[reqs[p].e])
    <3>1. reqs[p].e \in Entries /\ reqs[p].row = entries[reqs[p].e] /\ Guarded(op, reqs[p].row)
      BY <2>7, Committed
    <3>2. PICK row : row = entries[reqs[p].e]
      OBVIOUS
    <3>3. Guarded(op, row) /\ row.cheque = "BOUNCED" => row.status = "posted"
      BY <2>4, <3>1, <3>2
    <3>4. row.cheque \notin {"none", "PENDING"} => row.status = "posted"
      BY <3>1, <3>2 DEF AllConsistent, Consistent
    <3>5. Guarded(op, row)
      BY <3>1, <3>2
    <3>6. ~Final(row)
      BY <3>3, <3>4, <3>5 DEF Guarded, Depositable, Bounceable, Editable
    <3> QED BY <3>2, <3>6
  <2>8. ASSUME NEW p \in Procs,
               \/ PostCommit(p) \/ DepositCommit(p) \/ BounceCommit(p)
               \/ EndorseCommit(p) \/ ReverseCommit(p)
        PROVE  Kept
    <3>1. ~Final(entries[reqs[p].e])
      BY <2>7, <2>8 DEF PostCommit, DepositCommit, BounceCommit, EndorseCommit, ReverseCommit
    <3>2. \A f \in Entries : f # reqs[p].e => entries'[f] = entries[f]
      BY <2>1, <2>8 DEF PostCommit, DepositCommit, BounceCommit, EndorseCommit, ReverseCommit
    <3> QED BY <3>1, <3>2
  <2>9. ASSUME NEW p \in Procs, RemoveCommit(p) PROVE Kept
    <3>1. \A f \in Entries : \/ entries'[f] = entries[f]
                             \/ entries'[f] = [Blank EXCEPT !.status = "deleted"]
      BY <2>1, <2>9 DEF RemoveCommit
    <3>2. [Blank EXCEPT !.status = "deleted"].status = "deleted"
      BY DEF Blank
    <3> QED BY <3>1, <3>2
  <2>10. ASSUME NEW p \in Procs, EditCommit(p) \/ CancelCommit(p) PROVE Kept
    <3>1. Current(reqs[p]) /\ reqs[p].stage = "checked"
      BY <2>10 DEF AllCurrent, EditCommit, CancelCommit
    <3>2. reqs[p].e \in Entries
      BY <3>1, Requests DEF TypeInv, TypeOK, Checked
    <3>3. entries[reqs[p].e].status = "pending"
      BY <2>10, <3>1, <3>2 DEF Current, Guarded, EditCommit, CancelCommit, SingleWrite
    <3>4. ~Final(entries[reqs[p].e])
      BY <2>4, <3>2, <3>3
    <3>5. \A f \in Entries : f # reqs[p].e => entries'[f] = entries[f]
      BY <2>1, <2>10 DEF EditCommit, CancelCommit
    <3> QED BY <3>4, <3>5
  <2>11. ASSUME NEW e \in Entries, NEW kind \in Kinds, NEW party \in Parties,
                NEW amount \in Amounts, NEW alloc \in [Docs -> 0 .. MaxAmount],
                Create(e, kind, party, amount, alloc)
         PROVE  Kept
    <3>1. ~Final(entries[e])
      BY <2>4, <2>11 DEF Create
    <3>2. \A f \in Entries : f # e => entries'[f] = entries[f]
      BY <2>1, <2>11 DEF Create
    <3> QED BY <3>1, <3>2
  <2>12. CASE (\E d \in Docs, amount \in Amounts : PostReturn(d, amount)) \/ SetLock
              \/ UNCHANGED vars
    BY <2>3, <2>12 DEF PostReturn, SetLock, vars
  <2> QED
    BY <2>5, <2>6, <2>8, <2>9, <2>10, <2>11, <2>12 DEF Next
<1> HIDE DEF IInv
<1>4. FinalStays <=> [][A]_vars
  BY DEF FinalStays
<1> QED
  BY <1>1, <1>2, <1>3, PTL DEF Spec, FinalStays

-------------------------------------------------------------------------------
(* Releases apart: what was paid is what the entries in force allocate.     *)

\* The transaction takes an allocation back: it overwrites the amount paid with what is
\* left of the amount it has read, without comparing.
Releases(req) ==
    \/ req.op \in {"bounce", "edit"}
    \/ req.op = "remove" /\ req.row.status = "posted"

\* A transaction that takes an allocation back is on no document that another open
\* transaction pays or releases.  Postings may compete for one document: they swap.
ReleasesApart ==
    \A q1, q2 \in Procs :
        /\ q1 # q2 /\ reqs[q1].stage = "tx" /\ reqs[q2].stage = "tx"
        /\ Releases(reqs[q1])
        /\ Releases(reqs[q2]) \/ reqs[q2].op = "post"
        => Allocated(reqs[q1].row) \cap Allocated(reqs[q2].row) = {}

\* What a transaction that takes back has read of its documents was not paid on since, and
\* what any has read of totals and returns is true, but for returns that may come at any
\* time.
Fresh(req) ==
    req.stage = "tx" =>
        /\ Releases(req) => \A d \in Allocated(req.row) : req.seen[d].paid = docs[d].paid
        /\ "return" \notin Ops =>
              \A d \in Docs : /\ req.seen[d].grand = docs[d].grand
                              /\ req.seen[d].returned = docs[d].returned

AllFresh == \A p \in Procs : Fresh(reqs[p])

LEMMA FreshInit == Init => AllFresh
<1> SUFFICES ASSUME Init, NEW p \in Procs PROVE Fresh(reqs[p])
    BY DEF AllFresh
<1>1. reqs[p].stage = "idle"
  BY DEF Init, Idle
<1> QED
  BY <1>1 DEF Fresh

\* Totals and returns stay.
SameTerms ==
    \A d \in Docs : docs'[d].grand = docs[d].grand /\ docs'[d].returned = docs[d].returned

\* A step of p leaves what the others have read true.
LEMMA FreshNext ==
    ASSUME TypeInv, AllFresh, NEW p \in Procs, NEW req,
           reqs' = [reqs EXCEPT ![p] = req], Fresh(req)', SameTerms,
           \A q \in Procs : q # p /\ reqs[q].stage = "tx" /\ Releases(reqs[q]) =>
               \A d \in Allocated(reqs[q].row) : docs'[d].paid = docs[d].paid
    PROVE  AllFresh'
<1> SUFFICES ASSUME NEW q \in Procs PROVE Fresh(reqs[q])'
    BY DEF AllFresh
<1>1. CASE q = p
  <2>1. reqs'[q] = req
    BY <1>1 DEF TypeInv, TypeOK
  <2> QED BY <2>1 DEF Fresh, Releases, Allocated
<1>2. CASE q # p
  <2>1. reqs'[q] = reqs[q] /\ Fresh(reqs[q])
    BY <1>2 DEF TypeInv, TypeOK, AllFresh
  <2>2. Allocated(reqs[q].row) \subseteq Docs
    BY DEF Allocated
  <2> QED BY <1>2, <2>1, <2>2 DEF Fresh, Releases, Allocated, SameTerms
<1> QED
  BY <1>1, <1>2

\* A commit that posts or takes back changes what was paid on its own documents only.
LEMMA WritesOwnDocs ==
    ASSUME TypeInv, NEW p \in Procs,
           \/ PostCommit(p) \/ BounceCommit(p) \/ RemoveCommit(p) \/ ReverseCommit(p)
    PROVE  /\ SameTerms
           /\ reqs[p].stage = "tx" /\ (reqs[p].op = "post" \/ Releases(reqs[p]) \/ UNCHANGED docs)
           /\ \A d \in Docs : d \notin Allocated(reqs[p].row) => docs'[d] = docs[d]
<1>1. reqs[p].stage = "tx"
  BY DEF PostCommit, BounceCommit, RemoveCommit, ReverseCommit, Committing
<1>2. docs \in [Docs -> Doc] /\ reqs[p] \in InTx
  BY <1>1, Requests DEF TypeInv, TypeOK, BooksTypeOK
<1>3. PICK row \in Entry : row = reqs[p].row
  BY <1>2 DEF InTx
<1>4. row.alloc \in [Docs -> Nat]
  BY DEF Entry
<1>5. ASSUME NEW d \in Docs, NEW seen, NEW paid
      PROVE  /\ WithPaid(d, seen, paid).grand = docs[d].grand
             /\ WithPaid(d, seen, paid).returned = docs[d].returned
  BY <1>2 DEF WithPaid, Doc
<1>6. CASE PostCommit(p)
  <2>1. \A d \in Docs : docs'[d] = IF d \in Allocated(row)
                                   THEN WithPaid(d, reqs[p].seen[d], reqs[p].seen[d].paid + row.alloc[d])
                                   ELSE docs[d]
    BY <1>3, <1>6 DEF PostCommit
  <2>2. reqs[p].op = "post"
    BY <1>6 DEF PostCommit, Committing
  <2> QED BY <1>1, <1>3, <1>5, <2>1, <2>2 DEF SameTerms
<1>7. ASSUME docs' = Released(reqs[p].seen, row.alloc)
      PROVE  /\ SameTerms
             /\ \A d \in Docs : d \notin Allocated(row) => docs'[d] = docs[d]
  <2>1. ASSUME NEW d \in Docs
        PROVE  \/ docs'[d] = docs[d]
               \/ row.alloc[d] # 0 /\ \E paid : docs'[d] = WithPaid(d, reqs[p].seen[d], paid)
    BY <1>7 DEF Released
  <2>2. \A d \in Docs : d \notin Allocated(row) => row.alloc[d] = 0
    BY <1>4 DEF Allocated
  <2> QED BY <1>5, <2>1, <2>2 DEF SameTerms
<1>8. CASE BounceCommit(p) \/ ReverseCommit(p)
  <2>1. docs' = Released(reqs[p].seen, row.alloc) /\ Releases(reqs[p])
    BY <1>3, <1>8 DEF BounceCommit, ReverseCommit, Committing, Releases
  <2> QED BY <1>1, <1>3, <1>7, <2>1
<1>9. CASE RemoveCommit(p)
  <2>1. CASE row.status = "posted"
    <3>1. docs' = Released(reqs[p].seen, row.alloc) /\ Releases(reqs[p])
      BY <1>3, <1>9, <2>1 DEF RemoveCommit, Committing, Releases
    <3> QED BY <1>1, <1>3, <1>7, <3>1
  <2>2. CASE row.status # "posted"
    <3>1. UNCHANGED docs
      BY <1>3, <1>9, <2>2 DEF RemoveCommit
    <3> QED BY <1>1, <3>1 DEF SameTerms
  <2> QED BY <2>1, <2>2
<1> QED
  BY <1>6, <1>8, <1>9

\* A step that pays nothing leaves all that was read true.
LEMMA FreshIdle ==
    ASSUME TypeInv, AllFresh, NEW p \in Procs, NEW req,
           reqs' = [reqs EXCEPT ![p] = req], req.stage # "tx" \/ req.seen = docs,
           UNCHANGED docs
    PROVE  AllFresh'
<1>1. Fresh(req)'
  BY DEF Fresh, Allocated
<1>2. SameTerms
  BY DEF SameTerms
<1> QED
  BY <1>1, <1>2, FreshNext DEF Allocated

LEMMA FreshStep == ReleasesApart /\ TypeInv /\ AllFresh /\ [Next]_vars => AllFresh'
<1> SUFFICES ASSUME ReleasesApart, TypeInv, AllFresh, [Next]_vars PROVE AllFresh'
    OBVIOUS
<1>1. ASSUME NEW p \in Procs, NEW op, NEW e, NEW arg, Checks(p, op, e, arg) PROVE AllFresh'
  <2>1. PICK req : req = [stage |-> "checked", op |-> op, e |-> e, row |-> entries[e],
                          arg |-> arg]
    OBVIOUS
  <2>2. reqs' = [reqs EXCEPT ![p] = req] /\ UNCHANGED docs /\ req.stage = "checked"
    BY <1>1, <2>1 DEF Checks, books
  <2> QED BY <2>2, FreshIdle
<1>2. ASSUME NEW p \in Procs, NEW e \in Entries,
             \/ PostRead(p, e) \/ DepositRead(p, e) \/ BounceRead(p, e)
             \/ \E payee \in Parties : EndorseRead(p, e, payee)
             \/ CancelRead(p, e) \/ RemoveRead(p, e) \/ EditRead(p, e)
      PROVE  AllFresh'
  BY <1>1, <1>2 DEF PostRead, DepositRead, BounceRead, EndorseRead, CancelRead,
                    RemoveRead, EditRead
<1>3. ASSUME NEW p \in Procs, Begin(p) PROVE AllFresh'
  <2>1. PICK req : req = [stage |-> "tx", op |-> reqs[p].op, e |-> reqs[p].e,
                          row |-> reqs[p].row, arg |-> reqs[p].arg, seen |-> docs]
    OBVIOUS
  <2>2. reqs' = [reqs EXCEPT ![p] = req] /\ UNCHANGED docs /\ req.seen = docs
    BY <1>3, <2>1 DEF Begin, books
  <2> QED BY <2>2, FreshIdle
<1>4. ASSUME NEW p \in Procs, RepostRead(p) PROVE AllFresh'
  <2>1. PICK req : req = [stage |-> "checked", op |-> "post", e |-> reqs[p].e,
                          row |-> entries[reqs[p].e], arg |-> NoArg]
    OBVIOUS
  <2>2. reqs' = [reqs EXCEPT ![p] = req] /\ UNCHANGED docs /\ req.stage = "checked"
    BY <1>4, <2>1 DEF RepostRead, books
  <2> QED BY <2>2, FreshIdle
<1>5. ASSUME NEW p \in Procs,
             \/ DepositCommit(p) \/ EndorseCommit(p) \/ CancelCommit(p)
             \/ EditCommit(p) \/ Fail(p)
      PROVE  AllFresh'
  <2>1. reqs' = [reqs EXCEPT ![p] = Idle] /\ UNCHANGED docs /\ Idle.stage # "tx"
    BY <1>5 DEF DepositCommit, EndorseCommit, CancelCommit, EditCommit, Fail, Finish,
                Idle, books
  <2> QED BY <2>1, FreshIdle
<1>6. ASSUME NEW p \in Procs,
             \/ PostCommit(p) \/ BounceCommit(p) \/ RemoveCommit(p) \/ ReverseCommit(p)
      PROVE  AllFresh'
  <2>1. PICK req : reqs' = [reqs EXCEPT ![p] = req] /\ req.stage \in {"idle", "repost"}
    <3>1. CASE ReverseCommit(p)
      <4>1. PICK req : req = [stage |-> "repost", e |-> reqs[p].e]
        OBVIOUS
      <4>2. reqs' = [reqs EXCEPT ![p] = req] /\ req.stage = "repost"
        BY <3>1, <4>1 DEF ReverseCommit
      <4> QED BY <4>2
    <3>2. CASE ~ReverseCommit(p)
      <4>1. reqs' = [reqs EXCEPT ![p] = Idle] /\ Idle.stage = "idle"
        BY <1>6, <3>2 DEF PostCommit, BounceCommit, RemoveCommit, Finish, Idle
      <4> QED BY <4>1
    <3> QED BY <3>1, <3>2
  <2>2. Fresh(req)'
    BY <2>1 DEF Fresh
  <2>3. /\ SameTerms /\ reqs[p].stage = "tx"
        /\ reqs[p].op = "post" \/ Releases(reqs[p]) \/ UNCHANGED docs
        /\ \A d \in Docs : d \notin Allocated(reqs[p].row) => docs'[d] = docs[d]
    BY <1>6, WritesOwnDocs
  <2>4. ASSUME NEW q \in Procs, q # p, reqs[q].stage = "tx", Releases(reqs[q]),
               NEW d \in Allocated(reqs[q].row)
        PROVE  docs'[d].paid = docs[d].paid
    <3>1. d \in Docs
      BY DEF Allocated
    <3>2. CASE UNCHANGED docs
      BY <3>2
    <3>3. CASE reqs[p].op = "post" \/ Releases(reqs[p])
      <4>1. Allocated(reqs[q].row) \cap Allocated(reqs[p].row) = {}
        BY <2>3, <2>4, <3>3 DEF ReleasesApart
      <4> QED BY <2>3, <3>1, <4>1
    <3> QED BY <2>3, <3>2, <3>3
  <2> QED BY <2>1, <2>2, <2>3, <2>4, FreshNext
<1>7. ASSUME NEW e \in Entries, NEW kind \in Kinds, NEW party \in Parties,
             NEW amount \in Amounts, NEW alloc \in [Docs -> 0 .. MaxAmount],
             Create(e, kind, party, amount, alloc)
      PROVE  AllFresh'
  BY <1>7 DEF Create, AllFresh, Fresh, Releases, Allocated
<1>8. ASSUME NEW d \in Docs, NEW amount \in Amounts, PostReturn(d, amount)
      PROVE  AllFresh'
  <2>1. UNCHANGED reqs /\ ("return" \in Ops \/ \A p \in Procs : reqs[p].stage = "idle")
    BY <1>8 DEF PostReturn
  <2>2. \A f \in Docs : docs'[f].paid = docs[f].paid
    BY <1>8, ReturnKeepsPaid
  <2> QED BY <2>1, <2>2 DEF AllFresh, Fresh, Releases, Allocated
<1>9. CASE SetLock \/ UNCHANGED vars
  BY <1>9 DEF SetLock, vars, AllFresh, Fresh, Releases, Allocated
<1> QED
  BY <1>2, <1>3, <1>4, <1>5, <1>6, <1>7, <1>8, <1>9 DEF Next

\* What an entry with this row has applied to the documents.
Settles(row) == IF row.status = "posted" THEN row.alloc ELSE NoAllocation

AllocatedOn(d) == SumFunctionOnSet([e \in Entries |-> Settles(entries[e])[d]], Entries)

Accounted == \A d \in Docs : docs[d].paid = AllocatedOn(d)

\* Nothing was paid on a document before the desk opens.
FreshDocs == \A doc \in InitialDocs : doc.paid = 0

LEMMA SettlesTyped ==
    ASSUME NEW row \in Entry
    PROVE  Settles(row) \in [Docs -> Nat]
BY DEF Settles, Entry, NoAllocation

LEMMA EntriesFinite == IsFiniteSet(Entries)
BY BooksAssumption DEF BooksAssumption

LEMMA AccountedMeans ==
    ASSUME TypeInv, Accounted
    PROVE  PaidIsAllocated
<1> SUFFICES ASSUME NEW d \in Docs
             PROVE  docs[d].paid = SumFunction([e \in InForce |-> entries[e].alloc[d]])
    BY DEF PaidIsAllocated
<1>1. PICK f, g : /\ f = [e \in InForce |-> entries[e].alloc[d]]
                  /\ g = [e \in Entries |-> Settles(entries[e])[d]]
  OBVIOUS
<1>2. InForce \subseteq Entries
  BY DEF InForce
<1>3. \A e \in Entries : g[e] \in Int /\ (e \notin InForce => g[e] = 0)
  BY <1>1, SettlesTyped DEF InForce, Settles, NoAllocation, TypeInv, TypeOK, BooksTypeOK
<1>4. \A e \in InForce : f[e] = g[e]
  BY <1>1, <1>2 DEF InForce, Settles
<1>5. SumFunctionOnSet(g, Entries) = SumFunctionOnSet(g, InForce)
  BY <1>2, <1>3, EntriesFinite, SumSubset
<1>6. SumFunctionOnSet(f, InForce) = SumFunctionOnSet(g, InForce)
  BY <1>2, <1>4, EntriesFinite, FS_Subset, SumEqual
<1>7. SumFunction(f) = SumFunctionOnSet(f, InForce)
  BY <1>1 DEF SumFunction
<1> QED
  BY <1>1, <1>5, <1>6, <1>7 DEF Accounted, AllocatedOn

LEMMA AccountedInit == FreshDocs /\ Init => Accounted
<1> SUFFICES ASSUME FreshDocs, Init, NEW d \in Docs PROVE docs[d].paid = AllocatedOn(d)
    BY DEF Accounted
<1>1. PICK g : g = [e \in Entries |-> Settles(entries[e])[d]]
  OBVIOUS
<1>2. \A e \in Entries : g[e] = 0
  BY <1>1 DEF Init, Blank, Settles, NoAllocation
<1>3. SumFunctionOnSet(g, Entries) = 0
  BY <1>2, EntriesFinite, SumZero
<1> QED
  BY <1>1, <1>3 DEF AllocatedOn, FreshDocs, Init

\* No entry has applied more to a document than was paid on it.
LEMMA PaidCovers ==
    ASSUME TypeInv, Accounted, NEW e \in Entries, NEW d \in Docs
    PROVE  Settles(entries[e])[d] \in Nat /\ Settles(entries[e])[d] <= docs[d].paid
<1>1. PICK g : g = [f \in Entries |-> Settles(entries[f])[d]]
  OBVIOUS
<1>2. \A f \in Entries : g[f] \in Nat
  BY <1>1, SettlesTyped DEF TypeInv, TypeOK, BooksTypeOK
<1>3. g[e] <= SumFunctionOnSet(g, Entries)
  BY <1>2, EntriesFinite, SumNotNegative
<1> QED
  BY <1>1, <1>2, <1>3 DEF Accounted, AllocatedOn

\* The step writes the row of entry e, and changes what was paid by what the entry
\* applies now instead of before; it changes nothing else of the documents.
Resettles(e, new) ==
    /\ entries' = [entries EXCEPT ![e] = new]
    /\ \A d \in Docs :
          /\ docs'[d].grand = docs[d].grand
          /\ docs'[d].returned = docs[d].returned
          /\ docs'[d].paid = docs[d].paid - Settles(entries[e])[d] + Settles(new)[d]

LEMMA ResettlesAccounted ==
    ASSUME TypeInv, TypeInv', Accounted, NEW e \in Entries, NEW new, Resettles(e, new)
    PROVE  Accounted'
<1> SUFFICES ASSUME NEW d \in Docs PROVE docs'[d].paid = AllocatedOn(d)'
    BY DEF Accounted
<1>1. PICK f, g : /\ f = [x \in Entries |-> Settles(entries[x])[d]]
                  /\ g = [x \in Entries |-> Settles(entries'[x])[d]]
  OBVIOUS
<1>2. entries \in [Entries -> Entry] /\ entries' \in [Entries -> Entry]
  BY DEF TypeInv, TypeOK, BooksTypeOK
<1>3. \A x \in Entries : f[x] \in Int /\ g[x] \in Int
  BY <1>1, <1>2, SettlesTyped
<1>4. /\ entries'[e] = new
      /\ \A x \in Entries : x # e => entries'[x] = entries[x]
  BY <1>2 DEF Resettles
<1>5. /\ f[e] = Settles(entries[e])[d] /\ g[e] = Settles(new)[d]
      /\ \A x \in Entries : x # e => f[x] = g[x]
  BY <1>1, <1>4
<1>6. SumFunctionOnSet(g, Entries) = SumFunctionOnSet(f, Entries) - f[e] + g[e]
  BY <1>3, <1>5, EntriesFinite, SumChange
<1>7. docs[d].paid = SumFunctionOnSet(f, Entries)
  BY <1>1 DEF Accounted, AllocatedOn
<1>8. AllocatedOn(d)' = SumFunctionOnSet(g, Entries)
  BY <1>1 DEF AllocatedOn
<1>9. docs'[d].paid = docs[d].paid - f[e] + g[e]
  BY <1>5 DEF Resettles
<1> QED
  BY <1>6, <1>7, <1>8, <1>9

\* Giving an allocation back takes it off what was paid.
LEMMA ReleasedExact ==
    ASSUME TypeInv, NEW seen \in [Docs -> Doc], NEW alloc \in [Docs -> Nat],
           \A d \in Docs : /\ alloc[d] # 0 => seen[d].paid = docs[d].paid
                           /\ alloc[d] <= docs[d].paid,
           NEW d \in Docs
    PROVE  /\ Released(seen, alloc)[d].paid = docs[d].paid - alloc[d]
           /\ Released(seen, alloc)[d].grand = docs[d].grand
           /\ Released(seen, alloc)[d].returned = docs[d].returned
<1>1. docs \in [Docs -> Doc]
  BY DEF TypeInv, TypeOK, BooksTypeOK
<1>2. docs[d].paid \in Nat /\ alloc[d] \in Nat /\ alloc[d] <= docs[d].paid
  BY <1>1 DEF Doc
<1>3. PICK left : left = IF seen[d].paid > alloc[d] THEN seen[d].paid - alloc[d] ELSE 0
  OBVIOUS
<1>4. Released(seen, alloc)[d] = IF alloc[d] = 0 THEN docs[d] ELSE WithPaid(d, seen[d], left)
  BY <1>3 DEF Released
<1>5. CASE alloc[d] = 0
  BY <1>2, <1>4, <1>5
<1>6. CASE alloc[d] # 0
  <2>1. seen[d].paid = docs[d].paid
    BY <1>6
  <2>2. left = docs[d].paid - alloc[d]
    BY <1>2, <1>3, <2>1
  <2>3. /\ WithPaid(d, seen[d], left).paid = left
        /\ WithPaid(d, seen[d], left).grand = docs[d].grand
        /\ WithPaid(d, seen[d], left).returned = docs[d].returned
    BY <1>1 DEF WithPaid, Doc
  <2> QED BY <1>4, <1>6, <2>2, <2>3
<1> QED
  BY <1>5, <1>6

\* Amounts that the balances read by the request of p cover, and nothing was paid since.
Fitting(p, amounts) ==
    \A d \in Docs : amounts[d] > 0 => /\ amounts[d] <= Outstanding(reqs[p].seen[d])
                                      /\ reqs[p].seen[d].paid = docs[d].paid

\* What a commit of p does to the documents: an entry is applied as a whole, taken back
\* as a whole, or applies what it did.
Resettling(p) ==
    \E e \in Entries, new \in Entry :
        /\ Resettles(e, new)
        /\ new.alloc \in {entries[e].alloc, NoAllocation}
        /\ \/ Settles(new) = Settles(entries[e])
           \/ Settles(new) = NoAllocation
           \/ Settles(entries[e]) = NoAllocation /\ Fitting(p, Settles(new))

\* The row that a commit writes is well formed.
LEMMA NewRow ==
    ASSUME TypeInv, TypeInv', NEW e \in Entries, NEW new,
           entries' = [entries EXCEPT ![e] = new]
    PROVE  new \in Entry
BY DEF TypeInv, TypeOK, BooksTypeOK

LEMMA PostSettles ==
    ASSUME TypeInv, TypeInv', AllCurrent, NEW p \in Procs, PostCommit(p)
    PROVE  Resettling(p)
<1>1. PICK e \in Entries : e = reqs[p].e
  BY Committed DEF PostCommit
<1>2. PICK row \in Entry : row = entries[e]
  BY DEF TypeInv, TypeOK, BooksTypeOK
<1>3. reqs[p].row = row /\ row.status = "pending" /\ row.alloc \in [Docs -> Nat]
  BY <1>1, <1>2, Committed DEF PostCommit, Guarded, Entry
<1>4. PICK seen \in [Docs -> Doc] : /\ seen = reqs[p].seen
                                    /\ \A d \in Allocated(row) : seen[d].paid = docs[d].paid
  BY <1>3, Committed DEF PostCommit, Swappable
<1>5. docs \in [Docs -> Doc]
  BY DEF TypeInv, TypeOK, BooksTypeOK
<1>6. PICK main, cheque :
         /\ main = IF IsPdc(row) THEN PostAccount(row) ELSE row.main
         /\ cheque = IF IsPdc(row) THEN "IN_HAND"
                     ELSE IF row.method = "CHEQUE" THEN "CLEARED" ELSE row.cheque
  OBVIOUS
<1>7. PICK new : new = PostedRow(row, Len(vouchers) + 1, main, cheque)
  OBVIOUS
<1>8. entries' = [entries EXCEPT ![e] = new]
  BY <1>1, <1>2, <1>3, <1>6, <1>7 DEF PostCommit, PostedRow, TypeInv, TypeOK, BooksTypeOK
<1>9. new.status = "posted" /\ new.alloc = row.alloc
  BY <1>7 DEF PostedRow, Entry
<1>10. Settles(row) = NoAllocation /\ Settles(new) = row.alloc
  BY <1>3, <1>9 DEF Settles
<1>11. ASSUME NEW d \in Docs
       PROVE  /\ docs'[d].grand = docs[d].grand
              /\ docs'[d].returned = docs[d].returned
              /\ docs'[d].paid = docs[d].paid - Settles(row)[d] + Settles(new)[d]
  <2>1. docs[d].paid \in Nat /\ row.alloc[d] \in Nat /\ Settles(row)[d] = 0
    BY <1>3, <1>5, <1>10 DEF Doc, NoAllocation
  <2>2. CASE d \in Allocated(row)
    <3>1. docs'[d] = WithPaid(d, seen[d], seen[d].paid + row.alloc[d])
      BY <1>3, <1>4, <2>2 DEF PostCommit
    <3>2. /\ docs'[d].grand = docs[d].grand /\ docs'[d].returned = docs[d].returned
          /\ docs'[d].paid = seen[d].paid + row.alloc[d]
      BY <1>5, <3>1 DEF WithPaid, Doc
    <3> QED BY <1>4, <1>10, <2>1, <2>2, <3>2
  <2>3. CASE d \notin Allocated(row)
    <3>1. docs'[d] = docs[d]
      BY <1>3, <2>3 DEF PostCommit
    <3>2. row.alloc[d] = 0
      BY <2>1, <2>3 DEF Allocated
    <3> QED BY <1>10, <2>1, <3>1, <3>2
  <2> QED BY <2>2, <2>3
<1>12. Resettles(e, new)
  BY <1>2, <1>8, <1>11 DEF Resettles
<1>13. Fitting(p, Settles(new))
  BY <1>3, <1>4, <1>10 DEF PostCommit, Covered, Swappable, Allocated, Fitting
<1>14. new \in Entry
  BY <1>8, NewRow
<1> QED
  BY <1>2, <1>9, <1>10, <1>12, <1>13, <1>14 DEF Resettling

\* The writes that leave the documents and the allocation in force alone.
LEMMA SameSettles ==
    ASSUME TypeInv, TypeInv', NEW p \in Procs, NEW e \in Entries, NEW new,
           entries' = [entries EXCEPT ![e] = new], UNCHANGED docs,
           new.alloc \in {entries[e].alloc, NoAllocation},
           Settles(new) = Settles(entries[e])
    PROVE  Resettling(p)
<1>1. new \in Entry /\ entries[e] \in Entry /\ docs \in [Docs -> Doc]
  BY NewRow DEF TypeInv, TypeOK, BooksTypeOK
<1>2. ASSUME NEW d \in Docs
      PROVE  docs[d].paid = docs[d].paid - Settles(entries[e])[d] + Settles(new)[d]
  <2>1. Settles(new)[d] \in Nat /\ docs[d].paid \in Nat
    BY <1>1, SettlesTyped DEF Doc
  <2> QED BY <2>1
<1>3. Resettles(e, new)
  BY <1>2 DEF Resettles
<1> QED
  BY <1>1, <1>3 DEF Resettling

\* The writes that take an entry back.
LEMMA BackSettles ==
    ASSUME TypeInv, TypeInv', Accounted, NEW p \in Procs, NEW e \in Entries, NEW new,
           NEW seen \in [Docs -> Doc],
           \A d \in Allocated(entries[e]) : seen[d].paid = docs[d].paid,
           entries[e].status = "posted", docs' = Released(seen, entries[e].alloc),
           entries' = [entries EXCEPT ![e] = new], Settles(new) = NoAllocation,
           new.alloc \in {entries[e].alloc, NoAllocation}
    PROVE  Resettling(p)
<1>1. PICK row \in Entry : row = entries[e]
  BY DEF TypeInv, TypeOK, BooksTypeOK
<1>2. PICK alloc \in [Docs -> Nat] : alloc = row.alloc /\ alloc = Settles(row)
  BY <1>1, SettlesTyped DEF Settles
<1>3. ASSUME NEW d \in Docs
      PROVE  (alloc[d] # 0 => seen[d].paid = docs[d].paid) /\ alloc[d] <= docs[d].paid
  BY <1>1, <1>2, PaidCovers DEF Allocated
<1>4. docs \in [Docs -> Doc]
  BY DEF TypeInv, TypeOK, BooksTypeOK
<1>5. ASSUME NEW d \in Docs
      PROVE  /\ docs'[d].grand = docs[d].grand
             /\ docs'[d].returned = docs[d].returned
             /\ docs'[d].paid = docs[d].paid - Settles(row)[d] + Settles(new)[d]
  <2>1. docs[d].paid \in Nat /\ alloc[d] \in Nat /\ Settles(new)[d] = 0
    BY <1>4 DEF Doc, NoAllocation
  <2>2. docs' = Released(seen, alloc)
    BY <1>1, <1>2
  <2>3. /\ docs'[d].grand = docs[d].grand /\ docs'[d].returned = docs[d].returned
        /\ docs'[d].paid = docs[d].paid - alloc[d]
    BY <1>3, <2>2, ReleasedExact
  <2> QED BY <1>2, <2>1, <2>3
<1>6. Resettles(e, new)
  BY <1>1, <1>5 DEF Resettles
<1>7. new \in Entry
  BY NewRow
<1> QED
  BY <1>6, <1>7 DEF Resettling

LEMMA ChequeSettles ==
    ASSUME TypeInv, TypeInv', AllCurrent, NEW p \in Procs,
           DepositCommit(p) \/ EndorseCommit(p)
    PROVE  Resettling(p)
<1>1. PICK e \in Entries : e = reqs[p].e
  BY Committed DEF DepositCommit, EndorseCommit
<1>2. PICK row \in Entry : row = entries[e]
  BY DEF TypeInv, TypeOK, BooksTypeOK
<1>3. PICK cheque : entries' = [entries EXCEPT ![e].cheque = cheque]
  BY <1>1 DEF DepositCommit, EndorseCommit
<1>4. PICK new : new = [row EXCEPT !.cheque = cheque]
  OBVIOUS
<1>5. entries' = [entries EXCEPT ![e] = new] /\ UNCHANGED docs
  BY <1>2, <1>3, <1>4 DEF DepositCommit, EndorseCommit
<1>6. new.alloc = row.alloc /\ new.status = row.status
  BY <1>4 DEF Entry
<1>7. Settles(new) = Settles(row)
  BY <1>6 DEF Settles
<1> QED
  BY <1>2, <1>5, <1>6, <1>7, SameSettles

LEMMA BounceSettles ==
    ASSUME TypeInv, TypeInv', AllCurrent, AllConsistent, Accounted, AllFresh,
           NEW p \in Procs, BounceCommit(p)
    PROVE  Resettling(p)
<1>1. PICK e \in Entries : e = reqs[p].e
  BY Committed DEF BounceCommit
<1>2. PICK row \in Entry : row = entries[e]
  BY DEF TypeInv, TypeOK, BooksTypeOK
<1>3. reqs[p].row = row /\ row.cheque = "IN_HAND"
  BY <1>1, <1>2, Committed DEF BounceCommit, Guarded, Bounceable
<1>4. row.status = "posted"
  BY <1>2, <1>3 DEF AllConsistent, Consistent
<1>5. PICK seen \in [Docs -> Doc] : /\ seen = reqs[p].seen
                                    /\ \A d \in Allocated(row) : seen[d].paid = docs[d].paid
  <2>1. reqs[p].stage = "tx" /\ Releases(reqs[p]) /\ Fresh(reqs[p])
    BY DEF BounceCommit, Committing, Releases, AllFresh
  <2> QED BY <1>3, <2>1, Committed DEF BounceCommit, Fresh
<1>6. PICK new : new = [row EXCEPT !.cheque = "BOUNCED", !.alloc = NoAllocation]
  OBVIOUS
<1>7. entries' = [entries EXCEPT ![e] = new] /\ docs' = Released(seen, row.alloc)
  BY <1>1, <1>2, <1>3, <1>5, <1>6 DEF BounceCommit
<1>8. new.alloc = NoAllocation /\ Settles(new) = NoAllocation
  BY <1>6 DEF Entry, Settles
<1> QED
  BY <1>2, <1>4, <1>5, <1>7, <1>8, BackSettles

LEMMA RemoveSettles ==
    ASSUME TypeInv, TypeInv', AllCurrent, Accounted, AllFresh, NEW p \in Procs, RemoveCommit(p)
    PROVE  Resettling(p)
<1>1. PICK e \in Entries : e = reqs[p].e
  BY Committed DEF RemoveCommit
<1>2. PICK row \in Entry : row = entries[e]
  BY DEF TypeInv, TypeOK, BooksTypeOK
<1>3. reqs[p].row = row
  BY <1>1, <1>2, Committed DEF RemoveCommit
<1>4. PICK seen \in [Docs -> Doc] :
         /\ seen = reqs[p].seen
         /\ row.status = "posted" => \A d \in Allocated(row) : seen[d].paid = docs[d].paid
  <2>1. /\ reqs[p].stage = "tx" /\ Fresh(reqs[p])
        /\ row.status = "posted" => Releases(reqs[p])
    BY <1>3 DEF RemoveCommit, Committing, Releases, AllFresh
  <2> QED BY <1>3, <2>1, Committed DEF RemoveCommit, Fresh
<1>5. PICK new : new = [Blank EXCEPT !.status = "deleted"]
  OBVIOUS
<1>6. entries' = [entries EXCEPT ![e] = new]
  BY <1>1, <1>5 DEF RemoveCommit
<1>7. new.alloc = NoAllocation /\ Settles(new) = NoAllocation
  BY <1>5 DEF Blank, Settles
<1>8. CASE row.status = "posted"
  <2>1. docs' = Released(seen, row.alloc)
    BY <1>3, <1>4, <1>8 DEF RemoveCommit
  <2> QED BY <1>2, <1>4, <1>6, <1>7, <1>8, <2>1, BackSettles
<1>9. CASE row.status # "posted"
  <2>1. UNCHANGED docs /\ Settles(row) = NoAllocation
    BY <1>3, <1>9 DEF RemoveCommit, Settles
  <2> QED BY <1>2, <1>6, <1>7, <2>1, SameSettles
<1> QED
  BY <1>8, <1>9

LEMMA ReverseSettles ==
    ASSUME TypeInv, TypeInv', AllCurrent, Accounted, AllFresh, NEW p \in Procs, ReverseCommit(p)
    PROVE  Resettling(p)
<1>1. PICK e \in Entries : e = reqs[p].e
  BY Committed DEF ReverseCommit
<1>2. PICK row \in Entry : row = entries[e]
  BY DEF TypeInv, TypeOK, BooksTypeOK
<1>3. /\ reqs[p].row = row /\ Editable(row) /\ reqs[p].stage = "tx" /\ reqs[p].op = "edit"
      /\ ReqOK(reqs[p], Len(vouchers)) /\ row.status \in {"pending", "posted", "cancelled"}
  BY <1>1, <1>2, Committed DEF ReverseCommit, Guarded, Committing
<1>4. row.status = "posted" /\ reqs[p].arg \in Edit
  BY <1>3 DEF ReqOK, SingleWrite, Editable
<1>5. PICK seen \in [Docs -> Doc] : /\ seen = reqs[p].seen
                                    /\ \A d \in Allocated(row) : seen[d].paid = docs[d].paid
  <2>1. reqs[p].stage = "tx" /\ Releases(reqs[p]) /\ Fresh(reqs[p])
    BY DEF ReverseCommit, Committing, Releases, AllFresh
  <2> QED BY <1>3, <2>1, Committed DEF ReverseCommit, Fresh
<1>6. PICK over \in Entry : over = Overwritten(e, reqs[p].arg)
  BY <1>4, OverwrittenTyped DEF TypeInv, TypeOK, BooksTypeOK
<1>7. PICK new : new = [over EXCEPT !.status = "pending", !.voucher = 0, !.cheque = "none"]
  OBVIOUS
<1>8. entries' = [entries EXCEPT ![e] = new] /\ docs' = Released(seen, row.alloc)
  BY <1>1, <1>3, <1>5, <1>6, <1>7 DEF ReverseCommit
<1>9. over.alloc = row.alloc
  BY <1>2, <1>6 DEF Overwritten, Entry
<1>10. new.alloc = row.alloc /\ Settles(new) = NoAllocation
  BY <1>7, <1>9 DEF Entry, Settles
<1> QED
  BY <1>2, <1>4, <1>5, <1>8, <1>10, BackSettles

LEMMA SingleSettles ==
    ASSUME TypeInv, TypeInv', AllCurrent, NEW p \in Procs, EditCommit(p) \/ CancelCommit(p)
    PROVE  Resettling(p)
<1>1. Current(reqs[p]) /\ reqs[p].stage = "checked"
  BY DEF AllCurrent, EditCommit, CancelCommit
<1>2. PICK e \in Entries : e = reqs[p].e
  BY <1>1, Requests DEF TypeInv, TypeOK, Checked
<1>3. PICK row \in Entry : row = entries[e]
  BY DEF TypeInv, TypeOK, BooksTypeOK
<1>4. reqs[p].row = row /\ row.status = "pending" /\ UNCHANGED docs
  BY <1>1, <1>2, <1>3 DEF Current, Guarded, EditCommit, CancelCommit, SingleWrite
<1>5. PICK new : /\ entries' = [entries EXCEPT ![e] = new]
                 /\ new.status # "posted" /\ new.alloc = row.alloc
  <2>1. CASE EditCommit(p)
    <3>1. /\ Overwritten(e, reqs[p].arg).status = row.status
          /\ Overwritten(e, reqs[p].arg).alloc = row.alloc
      BY <1>3 DEF Overwritten, Entry
    <3> QED BY <1>2, <1>4, <2>1, <3>1 DEF EditCommit
  <2>2. CASE CancelCommit(p)
    <3>1. PICK new : new = [row EXCEPT !.status = "cancelled"]
      OBVIOUS
    <3>2. new.status = "cancelled" /\ new.alloc = row.alloc
      BY <3>1 DEF Entry
    <3>3. entries' = [entries EXCEPT ![e] = new]
      BY <1>2, <1>3, <2>2, <3>1 DEF CancelCommit
    <3> QED BY <3>2, <3>3
  <2> QED BY <2>1, <2>2
<1>6. Settles(new) = Settles(row)
  BY <1>4, <1>5 DEF Settles
<1> QED
  BY <1>3, <1>4, <1>5, <1>6, SameSettles

\* Every commit of the desk applies an entry, takes it back or leaves it applied.
LEMMA CommitSettles ==
    ASSUME TypeInv, TypeInv', AllCurrent, AllConsistent, Accounted, AllFresh, NEW p \in Procs,
           \/ PostCommit(p) \/ DepositCommit(p) \/ BounceCommit(p)
           \/ EndorseCommit(p) \/ RemoveCommit(p) \/ CancelCommit(p)
           \/ EditCommit(p) \/ ReverseCommit(p)
    PROVE  Resettling(p)
BY PostSettles, ChequeSettles, BounceSettles, RemoveSettles, SingleSettles, ReverseSettles

\* Creating an entry applies nothing.
LEMMA CreateResettles ==
    ASSUME TypeInv, NEW e \in Entries, NEW kind \in Kinds, NEW party \in Parties,
           NEW amount \in Amounts, NEW alloc \in [Docs -> 0 .. MaxAmount],
           Create(e, kind, party, amount, alloc)
    PROVE  \E new : /\ Resettles(e, new) /\ new.alloc = alloc
                    /\ new.status = "pending" /\ entries[e].status = "absent"
<1>1. PICK isPdc : isPdc = (kind.method = "CHEQUE" /\ kind.pdc)
  OBVIOUS
<1>2. PICK new :
         new = [status |-> "pending", type |-> kind.type, method |-> kind.method,
                pdc |-> kind.pdc, cheque |-> IF isPdc THEN "PENDING" ELSE "none",
                party |-> party,
                main |-> IF ~isPdc THEN "cash"
                         ELSE IF kind.type = "RECEIPT" THEN "pdc" ELSE "issued",
                amount |-> amount, alloc |-> alloc, voucher |-> 0]
  OBVIOUS
<1>3. /\ entries' = [entries EXCEPT ![e] = new] /\ entries[e].status = "absent"
      /\ UNCHANGED docs
  BY <1>1, <1>2 DEF Create
<1>4. new.status = "pending" /\ new.alloc = alloc
  BY <1>2
<1>5. ASSUME NEW d \in Docs
      PROVE  docs[d].paid = docs[d].paid - Settles(entries[e])[d] + Settles(new)[d]
  <2>1. docs[d].paid \in Nat
    BY DEF TypeInv, TypeOK, BooksTypeOK, Doc
  <2>2. Settles(entries[e])[d] = 0 /\ Settles(new)[d] = 0
    BY <1>3, <1>4 DEF Settles, NoAllocation
  <2> QED BY <2>1, <2>2
<1>6. Resettles(e, new)
  BY <1>3, <1>5 DEF Resettles
<1> QED
  BY <1>3, <1>4, <1>6

LEMMA AccountedStep ==
    ASSUME TypeInv, TypeInv', AllCurrent, AllConsistent, Accounted, AllFresh, [Next]_vars
    PROVE  Accounted'
<1>1. ASSUME UNCHANGED entries, \A d \in Docs : docs'[d].paid = docs[d].paid
      PROVE  Accounted'
  BY <1>1 DEF Accounted, AllocatedOn
<1>2. ASSUME NEW p \in Procs, NEW e \in Entries,
             \/ PostRead(p, e) \/ DepositRead(p, e) \/ BounceRead(p, e)
             \/ \E payee \in Parties : EndorseRead(p, e, payee)
             \/ CancelRead(p, e) \/ RemoveRead(p, e) \/ EditRead(p, e)
      PROVE  Accounted'
  BY <1>1, <1>2 DEF PostRead, DepositRead, BounceRead, EndorseRead, CancelRead,
                    RemoveRead, EditRead, Checks, books
<1>3. ASSUME NEW p \in Procs, Begin(p) \/ RepostRead(p) \/ Fail(p) PROVE Accounted'
  BY <1>1, <1>3 DEF Begin, RepostRead, Fail, books
<1>4. ASSUME NEW p \in Procs,
             \/ PostCommit(p) \/ DepositCommit(p) \/ BounceCommit(p)
             \/ EndorseCommit(p) \/ RemoveCommit(p) \/ CancelCommit(p)
             \/ EditCommit(p) \/ ReverseCommit(p)
      PROVE  Accounted'
  BY <1>4, CommitSettles, ResettlesAccounted DEF Resettling
<1>5. ASSUME NEW e \in Entries, NEW kind \in Kinds, NEW party \in Parties,
             NEW amount \in Amounts, NEW alloc \in [Docs -> 0 .. MaxAmount],
             Create(e, kind, party, amount, alloc)
      PROVE  Accounted'
  <2>1. \E new : Resettles(e, new)
    BY <1>5, CreateResettles
  <2> QED BY <2>1, ResettlesAccounted
<1>6. ASSUME NEW d \in Docs, NEW amount \in Amounts, PostReturn(d, amount)
      PROVE  Accounted'
  <2>1. UNCHANGED entries
    BY <1>6 DEF PostReturn
  <2> QED BY <1>1, <1>6, <2>1, ReturnKeepsPaid
<1>7. CASE SetLock \/ UNCHANGED vars
  BY <1>1, <1>7 DEF SetLock, vars
<1> QED
  BY <1>2, <1>3, <1>4, <1>5, <1>6, <1>7 DEF Next

\* The amount paid on a document is what the posted entries allocate to it, through every
\* bounce, deletion and correction, if nothing was paid on it before: while requests that
\* overlap are about different entries, and none takes an allocation back from a document
\* that another is paying.  Postings that compete for a document need no such care.
THEOREM PaidFollowsEntries ==
    FreshDocs => (Spec /\ [](RowsApart /\ ReleasesApart) => []PaidIsAllocated)
<1> SUFFICES ASSUME FreshDocs
             PROVE  Spec /\ [](RowsApart /\ ReleasesApart) => []PaidIsAllocated
    OBVIOUS
<1> DEFINE IInv == TypeInv /\ AllCurrent /\ AllConsistent /\ Accounted /\ AllFresh
<1>1. Init => IInv
  BY TypeInit, CurrentInit, ConsistentInit, AccountedInit, FreshInit
<1>2. IInv /\ RowsApart /\ ReleasesApart /\ [Next]_vars => IInv'
  BY TypeStep, CurrentStep, ConsistentStep, AccountedStep, FreshStep
<1>3. IInv => PaidIsAllocated
  BY AccountedMeans
<1> HIDE DEF IInv
<1> QED
  BY <1>1, <1>2, <1>3, PTL DEF Spec

-------------------------------------------------------------------------------
(* The desk implements the abstract settlement.                             *)

AllocsBounded == \A e \in Entries : entries[e].alloc \in [Docs -> 0 .. MaxAmount]

\* The abstract settlement starts when nothing was paid or returned.
UntouchedDocs == \A doc \in InitialDocs : doc.paid = 0 /\ doc.returned = 0

LEMMA AppliedIs ==
    /\ Applied = [e \in Entries |-> Settles(entries[e])]
    /\ Applied' = [e \in Entries |-> Settles(entries'[e])]
BY DEF Applied, InForce, Settles

LEMMA AllocsStep ==
    ASSUME TypeInv, TypeInv', AllCurrent, AllConsistent, Accounted, AllFresh,
           AllocsBounded, [Next]_vars
    PROVE  AllocsBounded'
<1>1. /\ entries \in [Entries -> Entry] /\ NoAllocation \in [Docs -> 0 .. MaxAmount]
      /\ UNCHANGED entries => AllocsBounded'
  BY BooksAssumption DEF BooksAssumption, NoAllocation, AllocsBounded, TypeInv, TypeOK, BooksTypeOK
<1>2. ASSUME NEW e \in Entries, NEW new, entries' = [entries EXCEPT ![e] = new],
             new.alloc \in [Docs -> 0 .. MaxAmount]
      PROVE  AllocsBounded'
  BY <1>1, <1>2 DEF AllocsBounded
<1>3. ASSUME NEW p \in Procs,
             \/ PostCommit(p) \/ DepositCommit(p) \/ BounceCommit(p)
             \/ EndorseCommit(p) \/ RemoveCommit(p) \/ CancelCommit(p)
             \/ EditCommit(p) \/ ReverseCommit(p)
      PROVE  AllocsBounded'
  <2>1. PICK e \in Entries, new \in Entry :
           Resettles(e, new) /\ new.alloc \in {entries[e].alloc, NoAllocation}
    BY <1>3, CommitSettles DEF Resettling
  <2>2. new.alloc \in [Docs -> 0 .. MaxAmount]
    BY <1>1, <2>1 DEF AllocsBounded
  <2> QED BY <1>2, <2>1, <2>2 DEF Resettles
<1>4. ASSUME NEW e \in Entries, NEW kind \in Kinds, NEW party \in Parties,
             NEW amount \in Amounts, NEW alloc \in [Docs -> 0 .. MaxAmount],
             Create(e, kind, party, amount, alloc)
      PROVE  AllocsBounded'
  <2>1. PICK new : Resettles(e, new) /\ new.alloc = alloc
    BY <1>4, CreateResettles
  <2> QED BY <1>2, <2>1 DEF Resettles
<1>5. ASSUME NEW p \in Procs, NEW e \in Entries,
             \/ PostRead(p, e) \/ DepositRead(p, e) \/ BounceRead(p, e)
             \/ \E payee \in Parties : EndorseRead(p, e, payee)
             \/ CancelRead(p, e) \/ RemoveRead(p, e) \/ EditRead(p, e)
      PROVE  UNCHANGED entries
  BY <1>5 DEF PostRead, DepositRead, BounceRead, EndorseRead, CancelRead,
              RemoveRead, EditRead, Checks, books
<1>6. ASSUME NEW p \in Procs, Begin(p) \/ RepostRead(p) \/ Fail(p)
      PROVE  UNCHANGED entries
  BY <1>6 DEF Begin, RepostRead, Fail, books
<1>7. CASE (\E d \in Docs, amount \in Amounts : PostReturn(d, amount)) \/ SetLock
           \/ UNCHANGED vars
  BY <1>1, <1>7 DEF PostReturn, SetLock, vars
<1> QED
  BY <1>1, <1>3, <1>4, <1>5, <1>6, <1>7 DEF Next

\* What the commits do is what the settlement promises.
LEMMA SettlingPromised ==
    ASSUME TypeInv, TypeInv', AllFresh, AllocsBounded, "return" \notin Ops,
           NEW p \in Procs, reqs[p].stage = "tx" \/ UNCHANGED docs, Resettling(p)
    PROVE  [Promise!Next]_(Promise!vars)
<1>1. PICK e \in Entries, new \in Entry :
         /\ Resettles(e, new)
         /\ new.alloc \in {entries[e].alloc, NoAllocation}
         /\ \/ Settles(new) = Settles(entries[e])
            \/ Settles(new) = NoAllocation
            \/ Settles(entries[e]) = NoAllocation /\ Fitting(p, Settles(new))
  BY DEF Resettling
<1>2. PICK old \in Entry : old = entries[e]
  BY DEF TypeInv, TypeOK, BooksTypeOK
<1>3. PICK before, after : before = Settles(old) /\ after = Settles(new)
  OBVIOUS
<1>4. before \in [Docs -> Nat] /\ after \in [Docs -> Nat]
  BY <1>3, SettlesTyped
<1>5. Applied' = [Applied EXCEPT ![e] = after] /\ Applied[e] = before
  <2>1. entries \in [Entries -> Entry]
    BY DEF TypeInv, TypeOK, BooksTypeOK
  <2>2. \A f \in Entries : entries'[f] = IF f = e THEN new ELSE entries[f]
    BY <1>1, <2>1 DEF Resettles
  <2>3. Applied' = [f \in Entries |-> Settles(entries'[f])]
    BY AppliedIs
  <2> QED BY <1>2, <1>3, <2>2, <2>3, AppliedIs
<1>6. docs \in [Docs -> Doc] /\ docs' \in [Docs -> Doc]
  BY DEF TypeInv, TypeOK, BooksTypeOK
<1>7. /\ [d \in Docs |-> docs'[d].grand] = [d \in Docs |-> docs[d].grand]
      /\ [d \in Docs |-> docs'[d].returned] = [d \in Docs |-> docs[d].returned]
      /\ \A d \in Docs : docs'[d].paid = docs[d].paid - before[d] + after[d]
  BY <1>1, <1>2, <1>3 DEF Resettles
<1>8. CASE after = before
  <2>1. \A d \in Docs : docs'[d].paid = docs[d].paid
    BY <1>4, <1>6, <1>7, <1>8 DEF Doc
  <2>2. [d \in Docs |-> docs'[d].paid] = [d \in Docs |-> docs[d].paid]
    BY <2>1
  <2>3. Applied' = Applied
    BY <1>5, <1>8, AppliedIs
  <2>4. UNCHANGED Promise!vars
    BY <1>7, <2>2, <2>3 DEF Promise!vars
  <2> QED BY <2>4
<1>9. CASE after = NoAllocation
  <2>1. \A d \in Docs : docs'[d].paid = docs[d].paid - before[d]
    BY <1>4, <1>6, <1>7, <1>9 DEF Doc, NoAllocation
  <2>2. [d \in Docs |-> docs'[d].paid]
          = [d \in Docs |-> [x \in Docs |-> docs[x].paid][d] - Applied[e][d]]
    BY <1>5, <2>1
  <2>3. Applied' = [Applied EXCEPT ![e] = Promise!Nothing]
    BY <1>5, <1>9 DEF Promise!Nothing, NoAllocation
  <2>4. Promise!TakeBack(e)
    BY <1>7, <2>2, <2>3 DEF Promise!TakeBack
  <2> QED BY <2>4 DEF Promise!Next
<1>10. CASE before = NoAllocation /\ Fitting(p, after) /\ after # NoAllocation
  <2>1. \A d \in Docs : docs'[d].paid = docs[d].paid + after[d]
    BY <1>4, <1>6, <1>7, <1>10 DEF Doc, NoAllocation
  <2>2. [d \in Docs |-> docs'[d].paid]
          = [d \in Docs |-> [x \in Docs |-> docs[x].paid][d] + after[d]]
    BY <2>1
  <2>3. Applied[e] = Promise!Nothing
    BY <1>5, <1>10 DEF Promise!Nothing, NoAllocation
  <2>4. after \in [Docs -> 0 .. MaxAmount]
    <3>1. after = new.alloc
      BY <1>3, <1>10 DEF Settles
    <3>2. new.alloc \in {old.alloc, NoAllocation}
      BY <1>1, <1>2
    <3>3. old.alloc \in [Docs -> 0 .. MaxAmount]
      BY <1>2 DEF AllocsBounded
    <3> QED BY <1>10, <3>1, <3>2, <3>3
  <2>5. \A d \in Docs : /\ reqs[p].seen[d].grand = docs[d].grand
                        /\ reqs[p].seen[d].returned = docs[d].returned
    <3>1. Fresh(reqs[p])
      BY DEF AllFresh
    <3>2. reqs[p].stage = "tx"
      <4>1. SUFFICES ASSUME UNCHANGED docs PROVE FALSE
        OBVIOUS
      <4>2. ASSUME NEW d \in Docs PROVE after[d] = 0
        <5>1. docs[d].paid = docs[d].paid + after[d]
          BY <2>1, <4>1
        <5>2. docs[d].paid \in Nat /\ after[d] \in Nat
          BY <1>4, <1>6 DEF Doc
        <5> QED BY <5>1, <5>2
      <4>3. after = NoAllocation
        BY <1>4, <4>2 DEF NoAllocation
      <4> QED BY <1>10, <4>3
    <3> QED BY <3>1, <3>2 DEF Fresh
  <2>6. ASSUME NEW d \in Docs, after[d] > 0
        PROVE  docs[d].paid + after[d] <= docs[d].grand - docs[d].returned
    <3>1. after[d] <= Outstanding(docs[d])
      BY <1>10, <2>5, <2>6 DEF Fitting, Outstanding
    <3>2. /\ docs[d].paid \in Nat /\ docs[d].grand \in Nat /\ docs[d].returned \in Nat
          /\ after[d] \in Nat
      BY <1>4, <1>6 DEF Doc
    <3> QED BY <2>6, <3>1, <3>2 DEF Outstanding
  <2>7. \A d \in Docs : Promise!Fits(after, d)
    BY <2>6 DEF Promise!Fits
  <2>8. Promise!Apply(e, after)
    BY <1>4, <1>5, <1>7, <2>2, <2>3, <2>7 DEF Promise!Apply
  <2> QED BY <2>4, <2>8 DEF Promise!Next
<1> QED
  BY <1>1, <1>2, <1>3, <1>8, <1>9, <1>10

LEMMA PromiseInit == UntouchedDocs /\ Init => Promise!Init
<1> SUFFICES ASSUME UntouchedDocs, Init PROVE Promise!Init
    OBVIOUS
<1>1. docs \in [Docs -> Doc]
  BY TypeInit DEF TypeInv, TypeOK, BooksTypeOK
<1>2. \A d \in Docs : docs[d].grand \in Nat /\ docs[d].paid = 0 /\ docs[d].returned = 0
  BY <1>1 DEF UntouchedDocs, Init, Doc
<1>3. Applied = [e \in Entries |-> Promise!Nothing]
  BY AppliedIs DEF Init, Blank, Settles, Promise!Nothing, NoAllocation
<1>4. /\ [d \in Docs |-> docs[d].grand] \in [Docs -> Nat]
      /\ [d \in Docs |-> docs[d].returned] = Promise!Nothing
      /\ [d \in Docs |-> docs[d].paid] = Promise!Nothing
  BY <1>2 DEF Promise!Nothing
<1> QED
  BY <1>3, <1>4 DEF Promise!Init

LEMMA PromiseStep ==
    ASSUME TypeInv, TypeInv', AllCurrent, AllConsistent, Accounted, AllFresh,
           AllocsBounded, "return" \notin Ops, [Next]_vars
    PROVE  [Promise!Next]_(Promise!vars)
<1>1. ASSUME UNCHANGED <<entries, docs>> PROVE [Promise!Next]_(Promise!vars)
  <2>1. UNCHANGED Promise!vars
    BY <1>1, AppliedIs DEF Promise!vars
  <2> QED BY <2>1
<1>2. ASSUME NEW p \in Procs, NEW e \in Entries,
             \/ PostRead(p, e) \/ DepositRead(p, e) \/ BounceRead(p, e)
             \/ \E payee \in Parties : EndorseRead(p, e, payee)
             \/ CancelRead(p, e) \/ RemoveRead(p, e) \/ EditRead(p, e)
      PROVE  UNCHANGED <<entries, docs>>
  BY <1>2 DEF PostRead, DepositRead, BounceRead, EndorseRead, CancelRead,
              RemoveRead, EditRead, Checks, books
<1>3. ASSUME NEW p \in Procs, Begin(p) \/ RepostRead(p) \/ Fail(p)
      PROVE  UNCHANGED <<entries, docs>>
  BY <1>3 DEF Begin, RepostRead, Fail, books
<1>4. ASSUME NEW p \in Procs,
             \/ PostCommit(p) \/ DepositCommit(p) \/ BounceCommit(p)
             \/ EndorseCommit(p) \/ RemoveCommit(p) \/ CancelCommit(p)
             \/ EditCommit(p) \/ ReverseCommit(p)
      PROVE  [Promise!Next]_(Promise!vars)
  <2>1. Resettling(p)
    BY <1>4, CommitSettles
  <2>2. reqs[p].stage = "tx" \/ UNCHANGED docs
    BY <1>4 DEF PostCommit, DepositCommit, BounceCommit, EndorseCommit, RemoveCommit,
                CancelCommit, EditCommit, ReverseCommit, Committing
  <2> QED BY <2>1, <2>2, SettlingPromised
<1>5. ASSUME NEW e \in Entries, NEW kind \in Kinds, NEW party \in Parties,
             NEW amount \in Amounts, NEW alloc \in [Docs -> 0 .. MaxAmount],
             Create(e, kind, party, amount, alloc)
      PROVE  [Promise!Next]_(Promise!vars)
  <2>1. PICK new : /\ Resettles(e, new) /\ new.status = "pending"
                   /\ entries[e].status = "absent"
    BY <1>5, CreateResettles
  <2>2. \A f \in Entries : Settles(entries'[f]) = Settles(entries[f])
    BY <2>1 DEF Resettles, Settles, TypeInv, TypeOK, BooksTypeOK
  <2>3. UNCHANGED docs
    BY <1>5 DEF Create
  <2>4. UNCHANGED Promise!vars
    BY <2>2, <2>3, AppliedIs DEF Promise!vars
  <2> QED BY <2>4
<1>6. ASSUME NEW d \in Docs, NEW amount \in Amounts, PostReturn(d, amount)
      PROVE  [Promise!Next]_(Promise!vars)
  <2>8. docs \in [Docs -> Doc]
    BY DEF TypeInv, TypeOK, BooksTypeOK
  <2>9. amount \in Nat /\ amount \in 0 .. MaxAmount
    BY BooksAssumption DEF Amounts, BooksAssumption
  <2>1. /\ docs \in [Docs -> Doc] /\ amount \in Nat /\ amount \in 0 .. MaxAmount
        /\ docs[d].returned + amount <= docs[d].grand
    BY <1>6, <2>8, <2>9 DEF PostReturn
  <2>2. PICK new : new = [docs[d] EXCEPT !.returned = @ + amount]
    OBVIOUS
  <2>3. /\ new.grand = docs[d].grand /\ new.paid = docs[d].paid
        /\ new.returned = docs[d].returned + amount
    BY <2>1, <2>2 DEF Doc
  <2>4. docs' = [docs EXCEPT ![d] = new] /\ UNCHANGED entries
    BY <1>6, <2>2 DEF PostReturn
  <2>5. /\ [x \in Docs |-> docs'[x].grand] = [x \in Docs |-> docs[x].grand]
        /\ [x \in Docs |-> docs'[x].paid] = [x \in Docs |-> docs[x].paid]
        /\ [x \in Docs |-> docs'[x].returned]
             = [[x \in Docs |-> docs[x].returned] EXCEPT ![d] = @ + amount]
    BY <2>1, <2>3, <2>4
  <2>6. Applied' = Applied
    BY <2>4, AppliedIs
  <2>7. Promise!Return(d, amount)
    BY <2>1, <2>5, <2>6 DEF Promise!Return
  <2> QED BY <2>1, <2>7 DEF Promise!Next
<1>7. CASE SetLock \/ UNCHANGED vars
  BY <1>1, <1>7 DEF SetLock, vars
<1> QED
  BY <1>1, <1>2, <1>3, <1>4, <1>5, <1>6, <1>7 DEF Next

\* The desk keeps the promise of the settlement: an entry is applied to its documents as a
\* whole, never beyond what is left to collect, and taken back as a whole; while requests
\* that overlap are about different entries, none takes an allocation back from a document
\* that another is paying, and returns are posted while the desk rests.
THEOREM DeskKeepsPromise ==
    UntouchedDocs /\ "return" \notin Ops =>
        (Spec /\ [](RowsApart /\ ReleasesApart) => KeepsPromise)
<1> SUFFICES ASSUME UntouchedDocs, "return" \notin Ops
             PROVE  Spec /\ [](RowsApart /\ ReleasesApart) => KeepsPromise
    OBVIOUS
<1> DEFINE IInv == /\ TypeInv /\ AllCurrent /\ AllConsistent /\ Accounted /\ AllFresh
                   /\ AllocsBounded
<1>1. Init => IInv
  <2>1. FreshDocs
    BY DEF UntouchedDocs, FreshDocs
  <2>2. Init => AllocsBounded
    BY BooksAssumption DEF BooksAssumption, Init, Blank, NoAllocation, AllocsBounded
  <2> QED BY <2>1, <2>2, TypeInit, CurrentInit, ConsistentInit, AccountedInit, FreshInit
<1>2. IInv /\ RowsApart /\ ReleasesApart /\ [Next]_vars => IInv'
  BY TypeStep, CurrentStep, ConsistentStep, AccountedStep, FreshStep, AllocsStep
<1>3. Init => Promise!Init
  BY PromiseInit
<1>4. IInv /\ IInv' /\ [Next]_vars => [Promise!Next]_(Promise!vars)
  BY PromiseStep
<1> HIDE DEF IInv
<1> QED
  BY <1>1, <1>2, <1>3, <1>4, PTL DEF Spec, KeepsPromise, Promise!Spec

-------------------------------------------------------------------------------
(* The holding accounts hold the cheques in hand.                           *)

Waiting == {"pdc", "issued"}

\* What a row leaves in an account in which cheques wait.
Held(row, h) ==
    IF row.status = "posted" /\ row.cheque = "IN_HAND"
    THEN IF IsReceipt(row) THEN (IF h = "pdc" THEN row.amount ELSE 0)
         ELSE (IF h = "issued" THEN 0 - row.amount ELSE 0)
    ELSE 0

\* Cheques are post-dated, so they wait where their kind waits; clearing is for those we
\* received, since a cheque of our own can be cleared again (payments.service.ts:431);
\* edits do not turn one kind of entry into another.  Nobody is named as an account of
\* the house, and no cheque is endorsed (an endorsement leaves the cheque in the account).
ChequesWait ==
    /\ Parties \cap Holdings = {}
    /\ "endorse" \notin Ops
    /\ EditColumns \cap {"pdc", "main"} = {}
    /\ \A kind \in Kinds : kind.method = "CHEQUE" =>
          kind.pdc /\ (kind.type = "RECEIPT" \/ "deposit" \notin Ops)

\* A row of one of these kinds.
OfKind(row) ==
    /\ row.method = "CASH" => row.main = "cash" /\ row.cheque = "none"
    /\ row.method = "CHEQUE" =>
          /\ row.pdc
          /\ row.main = IF IsReceipt(row) THEN "pdc" ELSE "issued"
          /\ row.status = "posted" => row.cheque \in {"IN_HAND", "DEPOSITED", "BOUNCED"}
          /\ IsReceipt(row) \/ "deposit" \notin Ops

HoldsRow(row, e, vs) ==
    /\ OfKind(row)
    /\ row.status = "posted" => \A h \in Waiting : Trace(vs, e, h) = Held(row, h)

AllHeld == \A e \in Entries : HoldsRow(entries[e], e, vouchers)

\* A request was asked for, or is the second half of an edit, and an edit keeps the kind.
AskedOK(req) ==
    req.stage \in {"checked", "tx"} =>
        /\ req.op \in Ops \cup {"post"}
        /\ req.op = "edit" => req.arg.pdc = req.row.pdc /\ req.arg.main = req.row.main

AllAsked == \A p \in Procs : AskedOK(reqs[p])

LEMMA AskedNext ==
    ASSUME TypeInv, AllAsked, NEW p \in Procs, NEW req, AskedOK(req),
           reqs' = [reqs EXCEPT ![p] = req]
    PROVE  AllAsked'
BY DEF AllAsked, AskedOK, TypeInv, TypeOK

LEMMA AskedStep ==
    ASSUME ChequesWait, TypeInv, AllAsked, [Next]_vars
    PROVE  AllAsked'
<1>1. ASSUME UNCHANGED reqs PROVE AllAsked'
  BY <1>1 DEF AllAsked, AskedOK
<1>2. ASSUME NEW p \in Procs, Finish(p) PROVE AllAsked'
  <2>1. AskedOK(Idle)
    BY DEF AskedOK, Idle
  <2> QED BY <1>2, <2>1, AskedNext DEF Finish
<1>3. ASSUME NEW p \in Procs, NEW op, NEW e \in Entries, NEW arg, Checks(p, op, e, arg),
             op = "edit" => arg.pdc = entries[e].pdc /\ arg.main = entries[e].main
      PROVE  AllAsked'
  <2>1. PICK req : req = [stage |-> "checked", op |-> op, e |-> e, row |-> entries[e],
                          arg |-> arg]
    OBVIOUS
  <2>2. reqs' = [reqs EXCEPT ![p] = req] /\ op \in Ops
    BY <1>3, <2>1 DEF Checks
  <2>3. AskedOK(req)
    BY <1>3, <2>1, <2>2 DEF AskedOK
  <2> QED BY <2>2, <2>3, AskedNext
<1>4. ASSUME NEW p \in Procs, NEW e \in Entries, EditRead(p, e) PROVE AllAsked'
  <2>1. PICK amount \in Amounts, party \in Parties :
           Checks(p, "edit", e, Edited(entries[e], amount, party, entries[e].pdc,
                                       entries[e].main))
    <3>1. entries[e] \in Entry
      BY DEF TypeInv, TypeOK, BooksTypeOK
    <3>2. "pdc" \notin EditColumns /\ "main" \notin EditColumns
      BY DEF ChequesWait
    <3> QED BY <1>4, <3>1, <3>2 DEF EditRead, Entry
  <2>2. PICK arg : arg = Edited(entries[e], amount, party, entries[e].pdc, entries[e].main)
    OBVIOUS
  <2>3. arg.pdc = entries[e].pdc /\ arg.main = entries[e].main
    BY <2>2 DEF Edited
  <2> QED BY <1>3, <2>1, <2>2, <2>3
<1>5. ASSUME NEW p \in Procs, NEW e \in Entries,
             \/ PostRead(p, e) \/ DepositRead(p, e) \/ BounceRead(p, e)
             \/ \E payee \in Parties : EndorseRead(p, e, payee)
             \/ CancelRead(p, e) \/ RemoveRead(p, e) \/ EditRead(p, e)
      PROVE  AllAsked'
  <2>1. CASE PostRead(p, e) \/ DepositRead(p, e) \/ BounceRead(p, e)
    BY <1>3, <2>1 DEF PostRead, DepositRead, BounceRead
  <2>2. CASE \E payee \in Parties : EndorseRead(p, e, payee)
    BY <1>3, <2>2 DEF EndorseRead
  <2>3. CASE CancelRead(p, e) \/ RemoveRead(p, e)
    BY <1>3, <2>3 DEF CancelRead, RemoveRead
  <2> QED BY <1>4, <1>5, <2>1, <2>2, <2>3
<1>6. ASSUME NEW p \in Procs, Begin(p) PROVE AllAsked'
  <2>1. PICK req : req = [stage |-> "tx", op |-> reqs[p].op, e |-> reqs[p].e,
                          row |-> reqs[p].row, arg |-> reqs[p].arg, seen |-> docs]
    OBVIOUS
  <2>2. reqs' = [reqs EXCEPT ![p] = req] /\ reqs[p].stage = "checked"
    BY <1>6, <2>1 DEF Begin
  <2>3. AskedOK(req)
    BY <2>1, <2>2 DEF AllAsked, AskedOK
  <2> QED BY <2>2, <2>3, AskedNext
<1>7. ASSUME NEW p \in Procs, RepostRead(p) PROVE AllAsked'
  <2>1. PICK req : req = [stage |-> "checked", op |-> "post", e |-> reqs[p].e,
                          row |-> entries[reqs[p].e], arg |-> NoArg]
    OBVIOUS
  <2>2. reqs' = [reqs EXCEPT ![p] = req]
    BY <1>7, <2>1 DEF RepostRead
  <2>3. AskedOK(req)
    BY <2>1 DEF AskedOK
  <2> QED BY <2>2, <2>3, AskedNext
<1>8. ASSUME NEW p \in Procs, ReverseCommit(p) PROVE AllAsked'
  <2>1. PICK req : req = [stage |-> "repost", e |-> reqs[p].e]
    OBVIOUS
  <2>2. reqs' = [reqs EXCEPT ![p] = req] /\ AskedOK(req)
    BY <1>8, <2>1 DEF ReverseCommit, AskedOK
  <2> QED BY <2>2, AskedNext
<1>9. ASSUME NEW p \in Procs,
             \/ PostCommit(p) \/ DepositCommit(p) \/ BounceCommit(p)
             \/ EndorseCommit(p) \/ RemoveCommit(p) \/ CancelCommit(p)
             \/ EditCommit(p) \/ Fail(p)
      PROVE  AllAsked'
  BY <1>2, <1>9 DEF PostCommit, DepositCommit, BounceCommit, EndorseCommit,
                    RemoveCommit, CancelCommit, EditCommit, Fail
<1>10. ASSUME NEW e \in Entries, NEW kind \in Kinds, NEW party \in Parties,
              NEW amount \in Amounts, NEW alloc \in [Docs -> 0 .. MaxAmount],
              Create(e, kind, party, amount, alloc)
       PROVE  AllAsked'
  BY <1>1, <1>10 DEF Create
<1>11. CASE (\E d \in Docs, amount \in Amounts : PostReturn(d, amount)) \/ SetLock
            \/ UNCHANGED vars
  BY <1>1, <1>11 DEF PostReturn, SetLock, vars
<1> QED
  BY <1>5, <1>6, <1>7, <1>8, <1>9, <1>10, <1>11 DEF Next

\* The step writes entry e and books a voucher for it.
LEMMA HeldBook ==
    ASSUME TypeInv, AllHeld, NEW e \in Entries, NEW new,
           entries' = [entries EXCEPT ![e] = new], NEW v \in Voucher, v.ref = e,
           vouchers' = Append(vouchers, v), HoldsRow(new, e, Append(vouchers, v))
    PROVE  AllHeld'
<1> SUFFICES ASSUME NEW f \in Entries PROVE HoldsRow(entries'[f], f, vouchers')
    BY DEF AllHeld
<1>1. vouchers \in Seq(Voucher) /\ entries \in [Entries -> Entry]
  BY DEF TypeInv, TypeOK, BooksTypeOK
<1>2. CASE f = e
  BY <1>1, <1>2
<1>3. CASE f # e
  <2>1. HoldsRow(entries[f], f, vouchers)
    BY DEF AllHeld
  <2>2. ASSUME NEW h PROVE Trace(Append(vouchers, v), f, h) = Trace(vouchers, f, h)
    <3>1. Trace(vouchers, f, h) \in Int
      BY <1>1, TraceTyped
    <3>2. Trace(Append(vouchers, v), f, h) = Trace(vouchers, f, h) + 0
      BY <1>1, <1>3, TraceAppend
    <3> QED BY <3>1, <3>2
  <2> QED
    BY <1>1, <1>3, <2>1, <2>2 DEF HoldsRow
<1> QED
  BY <1>2, <1>3

\* The step writes entry e, which is not posted afterwards; the others keep their traces.
LEMMA HeldWrite ==
    ASSUME TypeInv, AllHeld, NEW e \in Entries, NEW new,
           entries' = [entries EXCEPT ![e] = new], OfKind(new), new.status # "posted",
           \A f \in Entries \ {e} : \A h : Trace(vouchers', f, h) = Trace(vouchers, f, h)
    PROVE  AllHeld'
<1> SUFFICES ASSUME NEW f \in Entries PROVE HoldsRow(entries'[f], f, vouchers')
    BY DEF AllHeld
<1>1. entries \in [Entries -> Entry]
  BY DEF TypeInv, TypeOK, BooksTypeOK
<1>2. CASE f = e
  BY <1>1, <1>2 DEF HoldsRow
<1>3. CASE f # e
  BY <1>1, <1>3 DEF AllHeld, HoldsRow
<1> QED
  BY <1>2, <1>3

\* What a voucher adds to the trace of its entry.
LEMMA HeldAppend ==
    ASSUME TypeInv, NEW e, NEW v \in Voucher, v.ref = e, v.status = "posted", NEW h
    PROVE  /\ Trace(Append(vouchers, v), e, h) = Trace(vouchers, e, h) + Moved(v, h)
           /\ Trace(vouchers, e, h) \in Int
BY TraceAppend, TraceTyped DEF Counts, TypeInv, TypeOK, BooksTypeOK

LEMMA HeldPost ==
    ASSUME ChequesWait, TypeInv, AllCurrent, AllConsistent, AllHeld, NEW p \in Procs,
           PostCommit(p)
    PROVE  AllHeld'
<1>1. PICK e \in Entries : e = reqs[p].e
  BY Committed DEF PostCommit
<1>2. PICK row \in Entry : row = entries[e]
  BY DEF TypeInv, TypeOK, BooksTypeOK
<1>3. reqs[p].row = row /\ row.status = "pending"
  BY <1>1, <1>2, Committed DEF PostCommit, Guarded
<1>4. OfKind(row) /\ \A h : Trace(vouchers, e, h) = 0
  BY <1>2, <1>3 DEF AllHeld, HoldsRow, AllConsistent, Consistent
<1>5. PICK account : account = PostAccount(row)
  OBVIOUS
<1>6. /\ row.method = "CASH" => account = "cash" /\ row.cheque = "none" /\ ~IsPdc(row)
      /\ row.method = "CHEQUE" =>
            account = (IF IsReceipt(row) THEN "pdc" ELSE "issued") /\ IsPdc(row)
      /\ row.method \in {"CASH", "CHEQUE"}
      /\ row.party \notin Holdings
  BY <1>4, <1>5 DEF OfKind, PostAccount, IsPdc, ChequesWait, Entry, Methods
<1>7. PICK dr, cr : /\ vouchers' = Booked(e, "post", dr, cr, row.amount)
                    /\ IsReceipt(row) => dr = account /\ cr = row.party
                    /\ ~IsReceipt(row) => dr = row.party /\ cr = account
  <2>1. CASE IsReceipt(row)
    BY <1>1, <1>3, <1>5, <2>1 DEF PostCommit
  <2>2. CASE ~IsReceipt(row)
    BY <1>1, <1>3, <1>5, <2>2 DEF PostCommit
  <2> QED BY <2>1, <2>2
<1>8. PICK v \in Voucher : /\ vouchers' = Append(vouchers, v) /\ v.ref = e
                           /\ v.dr = dr /\ v.cr = cr
                           /\ v.amount = row.amount /\ v.status = "posted"
  <2>1. row.amount \in Amounts /\ row.party \in Accounts /\ account \in Accounts
    BY <1>6 DEF Entry, Accounts, Holdings
  <2> QED BY <1>7, <2>1, BookedVoucher
<1>9. PICK main, cheque :
         /\ main = (IF IsPdc(row) THEN account ELSE row.main)
         /\ cheque = IF IsPdc(row) THEN "IN_HAND"
                     ELSE IF row.method = "CHEQUE" THEN "CLEARED" ELSE row.cheque
  OBVIOUS
<1>10. PICK new : new = PostedRow(row, Len(vouchers) + 1, main, cheque)
  OBVIOUS
<1>11. entries' = [entries EXCEPT ![e] = new]
  BY <1>1, <1>2, <1>3, <1>5, <1>9, <1>10 DEF PostCommit, PostedRow, TypeInv, TypeOK, BooksTypeOK
<1>12. /\ new.status = "posted" /\ new.amount = row.amount /\ new.method = row.method
       /\ new.pdc = row.pdc /\ new.main = main /\ new.cheque = cheque
       /\ IsReceipt(new) = IsReceipt(row)
  BY <1>10 DEF PostedRow, Entry, IsReceipt
<1>13. OfKind(new)
  BY <1>4, <1>6, <1>9, <1>12 DEF OfKind
<1>14. ASSUME NEW h \in Waiting PROVE Trace(Append(vouchers, v), e, h) = Held(new, h)
  <2>1. Trace(Append(vouchers, v), e, h) = 0 + Moved(v, h) /\ Moved(v, h) \in Int
    BY <1>4, <1>8, HeldAppend, CountsTyped
  <2>2. row.amount \in Nat
    BY Amounts1 DEF Entry
  <2>3. h # row.party /\ h # "cash" /\ h \in {"pdc", "issued"}
    BY <1>6 DEF Waiting, Holdings
  <2>4. Moved(v, h) = Held(new, h)
    <3>1. CASE row.method = "CASH"
      BY <1>6, <1>7, <1>8, <1>9, <1>12, <2>2, <2>3, <3>1 DEF Moved, Held
    <3>2. CASE row.method = "CHEQUE" /\ IsReceipt(row)
      BY <1>6, <1>7, <1>8, <1>9, <1>12, <2>2, <2>3, <3>2 DEF Moved, Held
    <3>3. CASE row.method = "CHEQUE" /\ ~IsReceipt(row)
      BY <1>6, <1>7, <1>8, <1>9, <1>12, <2>2, <2>3, <3>3 DEF Moved, Held
    <3> QED BY <1>6, <3>1, <3>2, <3>3
  <2> QED BY <2>1, <2>4
<1> QED
  BY <1>8, <1>11, <1>13, <1>14, HeldBook DEF HoldsRow

\* A cheque leaves the hand: the voucher takes out what the row held.
LEMMA HeldGone ==
    ASSUME TypeInv, AllHeld, NEW e \in Entries, NEW row \in Entry, row = entries[e],
           row.status = "posted", row.cheque = "IN_HAND", row.method = "CHEQUE",
           NEW cheque \in {"DEPOSITED", "BOUNCED"}, NEW alloc,
           entries' = [entries EXCEPT ![e] = [row EXCEPT !.cheque = cheque, !.alloc = alloc]],
           NEW kind \in {"clear", "bounce"}, NEW dr \in Accounts, NEW cr \in Accounts,
           vouchers' = Booked(e, kind, dr, cr, row.amount),
           IsReceipt(row) => cr = "pdc" /\ dr \notin Waiting,
           ~IsReceipt(row) => dr = "issued" /\ cr \notin Waiting
    PROVE  AllHeld'
<1>1. PICK v \in Voucher : /\ vouchers' = Append(vouchers, v) /\ v.ref = e
                           /\ v.dr = dr /\ v.cr = cr
                           /\ v.amount = row.amount /\ v.status = "posted"
  <2>1. row.amount \in Amounts
    BY DEF Entry
  <2> QED BY <2>1, BookedVoucher
<1>2. PICK new : new = [row EXCEPT !.cheque = cheque, !.alloc = alloc]
  OBVIOUS
<1>3. /\ new.status = "posted" /\ new.method = row.method /\ new.pdc = row.pdc
      /\ new.main = row.main /\ new.cheque = cheque /\ IsReceipt(new) = IsReceipt(row)
  BY <1>2 DEF Entry, IsReceipt
<1>4. HoldsRow(row, e, vouchers)
  BY DEF AllHeld
<1>5. OfKind(new)
  BY <1>3, <1>4 DEF HoldsRow, OfKind
<1>6. ASSUME NEW h \in Waiting PROVE Trace(Append(vouchers, v), e, h) = Held(new, h)
  <2>1. Trace(Append(vouchers, v), e, h) = Held(row, h) + Moved(v, h)
    BY <1>1, <1>4, HeldAppend DEF HoldsRow
  <2>2. row.amount \in Nat
    BY Amounts1 DEF Entry
  <2>3. Held(row, h) + Moved(v, h) = 0
    BY <1>1, <2>2 DEF Moved, Held, Waiting
  <2>4. Held(new, h) = 0
    BY <1>3 DEF Held
  <2> QED BY <2>1, <2>3, <2>4
<1> QED
  BY <1>1, <1>2, <1>3, <1>5, <1>6, HeldBook DEF HoldsRow

LEMMA HeldDeposit ==
    ASSUME ChequesWait, TypeInv, AllCurrent, AllHeld, AllAsked, NEW p \in Procs,
           DepositCommit(p)
    PROVE  AllHeld'
<1>1. PICK e \in Entries : e = reqs[p].e
  BY Committed DEF DepositCommit
<1>2. PICK row \in Entry : row = entries[e]
  BY DEF TypeInv, TypeOK, BooksTypeOK
<1>3. /\ reqs[p].row = row /\ row.status = "posted" /\ row.method = "CHEQUE"
      /\ row.cheque \notin {"DEPOSITED", "BOUNCED"}
  BY <1>1, <1>2, Committed DEF DepositCommit, Guarded, Depositable
<1>4. "deposit" \in Ops
  BY DEF DepositCommit, Committing, AllAsked, AskedOK
<1>5. row.cheque = "IN_HAND" /\ IsReceipt(row)
  BY <1>2, <1>3, <1>4 DEF AllHeld, HoldsRow, OfKind
<1>6. entries' = [entries EXCEPT ![e] = [row EXCEPT !.cheque = "DEPOSITED", !.alloc = row.alloc]]
  <2>1. [row EXCEPT !.cheque = "DEPOSITED"]
          = [row EXCEPT !.cheque = "DEPOSITED", !.alloc = row.alloc]
    BY DEF Entry
  <2>2. entries' = [entries EXCEPT ![e] = [row EXCEPT !.cheque = "DEPOSITED"]]
    BY <1>1, <1>2, <1>3, <1>5 DEF DepositCommit
  <2> QED BY <2>1, <2>2
<1>7. vouchers' = Booked(e, "clear", "bank", "pdc", row.amount)
  BY <1>1, <1>3, <1>5 DEF DepositCommit
<1>8. "bank" \in Accounts /\ "pdc" \in Accounts /\ "bank" \notin Waiting
  BY DEF Accounts, Holdings, Waiting
<1> QED
  BY <1>2, <1>3, <1>5, <1>6, <1>7, <1>8, HeldGone

LEMMA HeldBounce ==
    ASSUME ChequesWait, TypeInv, AllCurrent, AllConsistent, AllHeld, NEW p \in Procs,
           BounceCommit(p)
    PROVE  AllHeld'
<1>1. PICK e \in Entries : e = reqs[p].e
  BY Committed DEF BounceCommit
<1>2. PICK row \in Entry : row = entries[e]
  BY DEF TypeInv, TypeOK, BooksTypeOK
<1>3. reqs[p].row = row /\ row.cheque = "IN_HAND" /\ row.method = "CHEQUE"
  BY <1>1, <1>2, Committed DEF BounceCommit, Guarded, Bounceable
<1>4. row.status = "posted"
  BY <1>2, <1>3 DEF AllConsistent, Consistent
<1>5. ~IsReceipt(row) => row.main = "issued"
  BY <1>2, <1>3 DEF AllHeld, HoldsRow, OfKind
<1>6. entries' = [entries EXCEPT ![e] = [row EXCEPT !.cheque = "BOUNCED",
                                                    !.alloc = NoAllocation]]
  BY <1>1, <1>2 DEF BounceCommit
<1>7. PICK dr \in Accounts, cr \in Accounts :
         /\ vouchers' = Booked(e, "bounce", dr, cr, row.amount)
         /\ IsReceipt(row) => cr = "pdc" /\ dr \notin Waiting
         /\ ~IsReceipt(row) => dr = "issued" /\ cr \notin Waiting
  <2>1. row.party \in Accounts /\ row.party \notin Waiting
        /\ "pdc" \in Accounts /\ "issued" \in Accounts
    BY DEF Entry, Accounts, Holdings, Waiting, ChequesWait
  <2>2. CASE IsReceipt(row)
    BY <1>1, <1>3, <2>1, <2>2 DEF BounceCommit
  <2>3. CASE ~IsReceipt(row)
    BY <1>1, <1>3, <1>5, <2>1, <2>3 DEF BounceCommit
  <2> QED BY <2>2, <2>3
<1> QED
  BY <1>2, <1>3, <1>4, <1>6, <1>7, HeldGone

LEMMA HeldRemove ==
    ASSUME TypeInv, AllCurrent, AllConsistent, AllHeld, NEW p \in Procs, RemoveCommit(p)
    PROVE  AllHeld'
<1>1. PICK e \in Entries : e = reqs[p].e
  BY Committed DEF RemoveCommit
<1>2. PICK row \in Entry : row = entries[e]
  BY DEF TypeInv, TypeOK, BooksTypeOK
<1>3. reqs[p].row = row /\ vouchers \in Seq(Voucher)
  BY <1>1, <1>2, Committed DEF RemoveCommit, TypeInv, TypeOK, BooksTypeOK
<1>4. PICK new : new = [Blank EXCEPT !.status = "deleted"]
  OBVIOUS
<1>5. /\ entries' = [entries EXCEPT ![e] = new]
      /\ new.status # "posted" /\ OfKind(new)
  BY <1>1, <1>4 DEF RemoveCommit, Blank, OfKind
<1>6. ASSUME NEW f \in Entries \ {e}, NEW h PROVE Trace(vouchers', f, h) = Trace(vouchers, f, h)
  <2>1. CASE row.status = "posted"
    <3>1. row.voucher \in VouchersOf(e)
      BY <1>2, <2>1 DEF AllConsistent, Consistent, Points, RefsTo, VouchersOf
    <3>2. VouchersOf(e) \cup {row.voucher} = VouchersOf(e)
      BY <3>1
    <3>3. vouchers' = Cancelled(VouchersOf(e))
      BY <1>1, <1>3, <2>1, <3>2 DEF RemoveCommit
    <3> QED BY <1>3, <3>3, TraceCancelled
  <2>2. CASE row.status # "posted"
    BY <1>3, <2>2 DEF RemoveCommit
  <2> QED BY <2>1, <2>2
<1> QED
  BY <1>5, <1>6, HeldWrite

LEMMA HeldReverse ==
    ASSUME TypeInv, AllCurrent, AllConsistent, AllHeld, AllAsked, NEW p \in Procs,
           ReverseCommit(p)
    PROVE  AllHeld'
<1>1. PICK e \in Entries : e = reqs[p].e
  BY Committed DEF ReverseCommit
<1>2. PICK row \in Entry : row = entries[e]
  BY DEF TypeInv, TypeOK, BooksTypeOK
<1>3. /\ reqs[p].row = row /\ Editable(row)
      /\ ReqOK(reqs[p], Len(vouchers)) /\ reqs[p].stage = "tx" /\ reqs[p].op = "edit"
      /\ row.status \in {"pending", "posted", "cancelled"}
  BY <1>1, <1>2, Committed DEF ReverseCommit, Guarded, Committing
<1>4. PICK arg \in Edit : arg = reqs[p].arg
  BY <1>3 DEF ReqOK
<1>5. arg.pdc = row.pdc /\ arg.main = row.main
  BY <1>3, <1>4 DEF AllAsked, AskedOK
<1>6. row.status = "posted"
  BY <1>3 DEF ReqOK, SingleWrite, Editable
<1>7. vouchers \in Seq(Voucher) /\ Consistent(row, e, vouchers)
  BY <1>2 DEF AllConsistent, TypeInv, TypeOK, BooksTypeOK
<1>8. PICK original \in Voucher : original = vouchers[row.voucher]
  BY <1>6, <1>7, Appended DEF Consistent, Points, RefsTo
<1>9. PICK v \in Voucher : vouchers' = Append(vouchers, v) /\ v.ref = e
  <2>1. vouchers' = Booked(e, "reversal", original.cr, original.dr, original.amount)
    BY <1>1, <1>3, <1>8 DEF ReverseCommit
  <2>2. original.cr \in Accounts /\ original.dr \in Accounts /\ original.amount \in Amounts
    BY DEF Voucher
  <2> QED BY <2>1, <2>2, BookedVoucher
<1>10. PICK new : new = [Overwritten(e, arg) EXCEPT !.status = "pending", !.voucher = 0,
                                                    !.cheque = "none"]
  OBVIOUS
<1>11. entries' = [entries EXCEPT ![e] = new]
  BY <1>1, <1>4, <1>10 DEF ReverseCommit
<1>12. /\ new.status = "pending" /\ new.method = row.method /\ new.pdc = row.pdc
       /\ new.main = row.main /\ new.cheque = "none" /\ IsReceipt(new) = IsReceipt(row)
  BY <1>2, <1>5, <1>10 DEF Overwritten, Entry, IsReceipt
<1>13. OfKind(row)
  BY <1>2 DEF AllHeld, HoldsRow
<1>14. HoldsRow(new, e, Append(vouchers, v))
  BY <1>12, <1>13 DEF HoldsRow, OfKind
<1> QED
  BY <1>9, <1>11, <1>14, HeldBook

LEMMA HeldSingle ==
    ASSUME TypeInv, AllCurrent, AllHeld, AllAsked, NEW p \in Procs,
           EditCommit(p) \/ CancelCommit(p)
    PROVE  AllHeld'
<1>1. Current(reqs[p]) /\ reqs[p].stage = "checked"
  BY DEF AllCurrent, EditCommit, CancelCommit
<1>2. PICK e \in Entries : e = reqs[p].e
  BY <1>1, Requests DEF TypeInv, TypeOK, Checked
<1>3. PICK row \in Entry : row = entries[e]
  BY DEF TypeInv, TypeOK, BooksTypeOK
<1>4. reqs[p].row = row /\ row.status = "pending" /\ UNCHANGED vouchers
  BY <1>1, <1>2, <1>3 DEF Current, Guarded, EditCommit, CancelCommit, SingleWrite
<1>5. OfKind(row)
  BY <1>3 DEF AllHeld, HoldsRow
<1>6. PICK new : entries' = [entries EXCEPT ![e] = new] /\ new.status # "posted" /\ OfKind(new)
  <2>1. CASE EditCommit(p)
    <3>1. PICK arg : arg = reqs[p].arg
      OBVIOUS
    <3>2. arg.pdc = row.pdc /\ arg.main = row.main
      BY <1>1, <1>4, <2>1, <3>1 DEF AllAsked, AskedOK, EditCommit
    <3>3. PICK new : new = Overwritten(e, arg)
      OBVIOUS
    <3>4. /\ new.status = "pending" /\ new.method = row.method /\ new.pdc = row.pdc
          /\ new.main = row.main /\ new.cheque = row.cheque /\ IsReceipt(new) = IsReceipt(row)
      BY <1>3, <1>4, <3>2, <3>3 DEF Overwritten, Entry, IsReceipt
    <3>5. OfKind(new)
      BY <1>5, <3>4 DEF OfKind
    <3>6. entries' = [entries EXCEPT ![e] = new]
      BY <1>2, <2>1, <3>1, <3>3 DEF EditCommit
    <3> QED BY <3>4, <3>5, <3>6
  <2>2. CASE CancelCommit(p)
    <3>1. PICK new : new = [row EXCEPT !.status = "cancelled"]
      OBVIOUS
    <3>2. /\ new.status = "cancelled" /\ new.method = row.method /\ new.pdc = row.pdc
          /\ new.main = row.main /\ new.cheque = row.cheque /\ IsReceipt(new) = IsReceipt(row)
      BY <3>1 DEF Entry, IsReceipt
    <3>3. OfKind(new)
      BY <1>5, <3>2 DEF OfKind
    <3>4. entries' = [entries EXCEPT ![e] = new]
      BY <1>2, <1>3, <2>2, <3>1 DEF CancelCommit
    <3> QED BY <3>2, <3>3, <3>4
  <2> QED BY <2>1, <2>2
<1> QED
  BY <1>4, <1>6, HeldWrite

LEMMA HeldCreate ==
    ASSUME ChequesWait, TypeInv, AllHeld, NEW e \in Entries, NEW kind \in Kinds,
           NEW party \in Parties, NEW amount \in Amounts,
           NEW alloc \in [Docs -> 0 .. MaxAmount], Create(e, kind, party, amount, alloc)
    PROVE  AllHeld'
<1>1. kind \in AllKinds /\ (kind.method = "CHEQUE" =>
          kind.pdc /\ (kind.type = "RECEIPT" \/ "deposit" \notin Ops))
  BY PaymentsAssumption DEF PaymentsAssumption, ChequesWait
<1>2. PICK isPdc : isPdc = (kind.method = "CHEQUE" /\ kind.pdc)
  OBVIOUS
<1>3. PICK new :
         new = [status |-> "pending", type |-> kind.type, method |-> kind.method,
                pdc |-> kind.pdc, cheque |-> IF isPdc THEN "PENDING" ELSE "none",
                party |-> party,
                main |-> IF ~isPdc THEN "cash"
                         ELSE IF kind.type = "RECEIPT" THEN "pdc" ELSE "issued",
                amount |-> amount, alloc |-> alloc, voucher |-> 0]
  OBVIOUS
<1>4. entries' = [entries EXCEPT ![e] = new] /\ UNCHANGED vouchers
  BY <1>2, <1>3 DEF Create
<1>5. /\ new.status = "pending" /\ new.method = kind.method /\ new.pdc = kind.pdc
      /\ new.type = kind.type /\ (~isPdc => new.cheque = "none" /\ new.main = "cash")
      /\ isPdc => new.main = IF kind.type = "RECEIPT" THEN "pdc" ELSE "issued"
  BY <1>3
<1>6. OfKind(new)
  BY <1>1, <1>2, <1>5 DEF OfKind, IsReceipt
<1> QED
  BY <1>4, <1>5, <1>6, HeldWrite

LEMMA HeldInit == Init => AllHeld /\ AllAsked
<1> SUFFICES ASSUME Init PROVE AllHeld /\ AllAsked
    OBVIOUS
<1>1. AllAsked
  BY DEF Init, Idle, AllAsked, AskedOK
<1>2. AllHeld
  BY DEF Init, Blank, AllHeld, HoldsRow, OfKind
<1> QED BY <1>1, <1>2

LEMMA HeldStep ==
    ASSUME ChequesWait, TypeInv, AllCurrent, AllConsistent, AllAsked, AllHeld, [Next]_vars
    PROVE  AllHeld'
<1>1. ASSUME UNCHANGED <<entries, vouchers>> PROVE AllHeld'
  BY <1>1 DEF AllHeld
<1>2. ASSUME NEW p \in Procs, NEW e \in Entries,
             \/ PostRead(p, e) \/ DepositRead(p, e) \/ BounceRead(p, e)
             \/ \E payee \in Parties : EndorseRead(p, e, payee)
             \/ CancelRead(p, e) \/ RemoveRead(p, e) \/ EditRead(p, e)
      PROVE  AllHeld'
  BY <1>1, <1>2 DEF PostRead, DepositRead, BounceRead, EndorseRead, CancelRead,
                    RemoveRead, EditRead, Checks, books
<1>3. ASSUME NEW p \in Procs, Begin(p) \/ RepostRead(p) \/ Fail(p) PROVE AllHeld'
  BY <1>1, <1>3 DEF Begin, RepostRead, Fail, books
<1>4. ASSUME NEW p \in Procs PROVE ~EndorseCommit(p)
  BY DEF EndorseCommit, Committing, AllAsked, AskedOK, ChequesWait
<1>5. ASSUME NEW p \in Procs,
             \/ PostCommit(p) \/ DepositCommit(p) \/ BounceCommit(p)
             \/ EndorseCommit(p) \/ RemoveCommit(p) \/ CancelCommit(p)
             \/ EditCommit(p) \/ ReverseCommit(p)
      PROVE  AllHeld'
  BY <1>4, <1>5, HeldPost, HeldDeposit, HeldBounce, HeldRemove, HeldReverse, HeldSingle
<1>6. ASSUME NEW e \in Entries, NEW kind \in Kinds, NEW party \in Parties,
             NEW amount \in Amounts, NEW alloc \in [Docs -> 0 .. MaxAmount],
             Create(e, kind, party, amount, alloc)
      PROVE  AllHeld'
  BY <1>6, HeldCreate
<1>7. CASE (\E d \in Docs, amount \in Amounts : PostReturn(d, amount)) \/ SetLock
           \/ UNCHANGED vars
  BY <1>1, <1>7 DEF PostReturn, SetLock, vars
<1> QED
  BY <1>2, <1>3, <1>5, <1>6, <1>7 DEF Next

\* The balance of an account is what the vouchers of the entries leave in it.
LEMMA BalanceOfTraces ==
    ASSUME TypeInv, NEW h
    PROVE  Balance(h) = SumFunctionOnSet([e \in Entries |-> Trace(vouchers, e, h)], Entries)
<1>1. PICK S, f, r : /\ S = DOMAIN vouchers
                     /\ f = [i \in S |-> Counts(vouchers[i], h)]
                     /\ r = [i \in S |-> vouchers[i].ref]
  OBVIOUS
<1>2. vouchers \in Seq(Voucher)
  BY DEF TypeInv, TypeOK, BooksTypeOK
<1>3. \A i \in S : f[i] \in Int /\ r[i] \in Entries
  <2>1. \A i \in S : vouchers[i] \in Voucher
    BY <1>1, <1>2
  <2> QED BY <1>1, <2>1, CountsTyped DEF Voucher
<1>4. IsFiniteSet(S)
  BY <1>1, <1>2, PositionsFinite
<1>5. Balance(h) = SumFunctionOnSet(f, S)
  <2>1. f = [i \in DOMAIN vouchers |-> IF Live(i) THEN Moved(vouchers[i], h) ELSE 0]
    BY <1>1 DEF Counts, Live
  <2>2. Balance(h) = SumFunction(f)
    BY <2>1 DEF Balance, Movement
  <2> QED BY <1>1, <2>2 DEF SumFunction
<1>6. ASSUME NEW e \in Entries
      PROVE  SumFunctionOnSet(f, {i \in S : r[i] = e}) = Trace(vouchers, e, h)
  <2>1. PICK R, g : R = RefsTo(vouchers, e) /\ g = [i \in R |-> Counts(vouchers[i], h)]
    OBVIOUS
  <2>2. R = {i \in S : r[i] = e} /\ R \subseteq S
    BY <1>1, <2>1 DEF RefsTo
  <2>3. \A i \in R : f[i] = g[i]
    BY <1>1, <2>1, <2>2
  <2>4. SumFunctionOnSet(f, R) = SumFunctionOnSet(g, R)
    BY <1>4, <2>2, <2>3, FS_Subset, SumEqual
  <2> QED BY <2>1, <2>2, <2>4 DEF Trace, SumFunction
<1>7. SumFunctionOnSet(f, S)
        = SumFunctionOnSet([e \in Entries |-> SumFunctionOnSet(f, {i \in S : r[i] = e})], Entries)
  BY <1>3, <1>4, EntriesFinite, SumParts
<1>8. [e \in Entries |-> SumFunctionOnSet(f, {i \in S : r[i] = e})]
        = [e \in Entries |-> Trace(vouchers, e, h)]
  BY <1>6
<1> QED
  BY <1>5, <1>7, <1>8

LEMMA HeldMeans ==
    ASSUME TypeInv, AllConsistent, AllHeld
    PROVE  HoldingsMatchCheques
<1>1. ASSUME NEW h \in Waiting
      PROVE  Balance(h) = SumFunctionOnSet([e \in Entries |-> Held(entries[e], h)], Entries)
  <2>1. ASSUME NEW e \in Entries PROVE Trace(vouchers, e, h) = Held(entries[e], h)
    BY DEF AllHeld, HoldsRow, AllConsistent, Consistent, Held
  <2>2. [e \in Entries |-> Trace(vouchers, e, h)] = [e \in Entries |-> Held(entries[e], h)]
    BY <2>1
  <2> QED BY <2>2, BalanceOfTraces
<1>2. \A e \in Entries : entries[e].amount \in Nat /\ entries[e].type \in {"RECEIPT", "PAYMENT"}
  BY Amounts1 DEF TypeInv, TypeOK, BooksTypeOK, Entry, Types
<1>3. Balance("pdc") = SumFunction([e \in InHand("RECEIPT") |-> entries[e].amount])
  <2>1. PICK f, g : /\ f = [e \in InHand("RECEIPT") |-> entries[e].amount]
                    /\ g = [e \in Entries |-> Held(entries[e], "pdc")]
    OBVIOUS
  <2>2. InHand("RECEIPT") \subseteq Entries
    BY DEF InHand, InForce
  <2>3. \A e \in Entries : g[e] \in Int /\ (e \notin InHand("RECEIPT") => g[e] = 0)
    BY <1>2, <2>1 DEF Held, InHand, InForce, IsReceipt
  <2>4. \A e \in InHand("RECEIPT") : f[e] = g[e]
    BY <2>1, <2>2 DEF Held, InHand, InForce, IsReceipt
  <2>5. SumFunctionOnSet(g, Entries) = SumFunctionOnSet(g, InHand("RECEIPT"))
    BY <2>2, <2>3, EntriesFinite, SumSubset
  <2>6. SumFunctionOnSet(f, InHand("RECEIPT")) = SumFunctionOnSet(g, InHand("RECEIPT"))
    BY <2>2, <2>4, EntriesFinite, FS_Subset, SumEqual
  <2>7. SumFunction(f) = SumFunctionOnSet(f, InHand("RECEIPT"))
    BY <2>1 DEF SumFunction
  <2>8. Balance("pdc") = SumFunctionOnSet(g, Entries)
    BY <1>1, <2>1 DEF Waiting
  <2> QED BY <2>1, <2>5, <2>6, <2>7, <2>8
<1>4. Balance("issued") = 0 - SumFunction([e \in InHand("PAYMENT") |-> entries[e].amount])
  <2>1. PICK f, g, k : /\ f = [e \in InHand("PAYMENT") |-> entries[e].amount]
                       /\ g = [e \in Entries |-> Held(entries[e], "issued")]
                       /\ k = [e \in InHand("PAYMENT") |-> 0 - entries[e].amount]
    OBVIOUS
  <2>2. InHand("PAYMENT") \subseteq Entries
    BY DEF InHand, InForce
  <2>3. \A e \in Entries : g[e] \in Int /\ (e \notin InHand("PAYMENT") => g[e] = 0)
    BY <1>2, <2>1 DEF Held, InHand, InForce, IsReceipt
  <2>4. \A e \in InHand("PAYMENT") : g[e] = k[e] /\ k[e] = 0 - f[e] /\ f[e] \in Int
    BY <1>2, <2>1, <2>2 DEF Held, InHand, InForce, IsReceipt
  <2>5. SumFunctionOnSet(g, Entries) = SumFunctionOnSet(g, InHand("PAYMENT"))
    BY <2>2, <2>3, EntriesFinite, SumSubset
  <2>6. IsFiniteSet(InHand("PAYMENT"))
    BY <2>2, EntriesFinite, FS_Subset
  <2>7. SumFunctionOnSet(g, InHand("PAYMENT")) = SumFunctionOnSet(k, InHand("PAYMENT"))
    BY <2>4, <2>6, SumEqual
  <2>8. SumFunctionOnSet(k, InHand("PAYMENT")) = 0 - SumFunctionOnSet(f, InHand("PAYMENT"))
    BY <2>4, <2>6, SumNegative
  <2>9. SumFunction(f) = SumFunctionOnSet(f, InHand("PAYMENT"))
    BY <2>1 DEF SumFunction
  <2>10. Balance("issued") = SumFunctionOnSet(g, Entries)
    BY <1>1, <2>1 DEF Waiting
  <2> QED BY <2>1, <2>5, <2>7, <2>8, <2>9, <2>10
<1> QED
  BY <1>3, <1>4 DEF HoldingsMatchCheques

\* The account of cheques in hand holds the received cheques that were neither cleared nor
\* bounced, and the account of issued cheques those that were not presented, through
\* bounces, corrections and deletions, while requests that overlap are about different
\* entries.
THEOREM HoldingsHold ==
    ChequesWait => (Spec /\ []RowsApart => []HoldingsMatchCheques)
<1> SUFFICES ASSUME ChequesWait PROVE Spec /\ []RowsApart => []HoldingsMatchCheques
    OBVIOUS
<1> DEFINE IInv == TypeInv /\ AllCurrent /\ AllConsistent /\ AllAsked /\ AllHeld
<1>1. Init => IInv
  BY TypeInit, CurrentInit, ConsistentInit, HeldInit
<1>2. IInv /\ RowsApart /\ [Next]_vars => IInv'
  BY TypeStep, CurrentStep, ConsistentStep, AskedStep, HeldStep
<1>3. IInv => HoldingsMatchCheques
  BY HeldMeans
<1> HIDE DEF IInv
<1> QED
  BY <1>1, <1>2, <1>3, PTL DEF Spec

-------------------------------------------------------------------------------
(* However requests overlap, the swap of the amount paid loses no posting.  *)

TakingBack == {"bounce", "remove", "edit"}

Postings(vs) == {i \in DOMAIN vs : vs[i].status = "posted" /\ vs[i].kind = "post"}

CollectedOn(d) ==
    SumFunctionOnSet([i \in Postings(vouchers) |-> entries[vouchers[i].ref].alloc[d]],
                     Postings(vouchers))

Known(row) == row.status # "absent"

\* Vouchers and requests refer to entries that were created; what a created entry
\* allocates does not change while nobody takes allocations back.
CollectInv ==
    /\ \A d \in Docs : docs[d].paid = CollectedOn(d)
    /\ \A i \in DOMAIN vouchers : Known(entries[vouchers[i].ref])
    /\ \A p \in Procs : reqs[p].stage \in {"checked", "tx"} =>
          /\ reqs[p].op \notin TakingBack
          /\ Known(entries[reqs[p].e])
          /\ reqs[p].row.alloc = entries[reqs[p].e].alloc

LEMMA CollectMeans == CollectInv => CollectedIsBooked
BY DEF CollectInv, CollectedOn, CollectedIsBooked, Postings, Live, SumFunction

LEMMA CollectInit == FreshDocs /\ Init => CollectInv
<1> SUFFICES ASSUME FreshDocs, Init PROVE CollectInv
    OBVIOUS
<1>1. vouchers = <<>> /\ \A p \in Procs : reqs[p].stage = "idle"
  BY DEF Init, Idle
<1>2. Postings(vouchers) = {}
  BY <1>1 DEF Postings
<1>3. \A d \in Docs : CollectedOn(d) = 0
  BY <1>2, SumEmpty DEF CollectedOn
<1>4. \A d \in Docs : docs[d].paid = 0
  BY DEF FreshDocs, Init
<1> QED
  BY <1>1, <1>3, <1>4 DEF CollectInv

\* Created entries stay created and keep what they allocate.
Lasting == \A e \in Entries : Known(entries[e]) => Known(entries'[e]) /\ entries'[e].alloc = entries[e].alloc

\* The amount collected after a voucher was booked or none.
LEMMA CollectedKept ==
    ASSUME TypeInv, TypeInv', CollectInv, Lasting, UNCHANGED vouchers, NEW d \in Docs
    PROVE  CollectedOn(d)' = CollectedOn(d)
<1>1. PICK S, f, g : /\ S = Postings(vouchers)
                     /\ f = [i \in Postings(vouchers) |-> entries[vouchers[i].ref].alloc[d]]
                     /\ g = [i \in Postings(vouchers) |-> entries'[vouchers[i].ref].alloc[d]]
  OBVIOUS
<1>2. vouchers \in Seq(Voucher) /\ S \subseteq DOMAIN vouchers
  BY <1>1 DEF Postings, TypeInv, TypeOK, BooksTypeOK
<1>3. \A i \in S : f[i] = g[i]
  <2>1. \A i \in S : vouchers[i] \in Voucher
    BY <1>2
  <2>2. \A i \in S : vouchers[i].ref \in Entries /\ Known(entries[vouchers[i].ref])
    BY <1>2, <2>1 DEF CollectInv, Voucher
  <2> QED
    BY <1>1, <2>2 DEF Lasting
<1>4. SumFunctionOnSet(f, S) = SumFunctionOnSet(g, S)
  BY <1>2, <1>3, PositionsFinite, SumEqual
<1> QED
  BY <1>1, <1>4 DEF CollectedOn

LEMMA CollectedBooked ==
    ASSUME TypeInv, TypeInv', CollectInv, Lasting, NEW v \in Voucher, Known(entries[v.ref]),
           v.status = "posted", vouchers' = Append(vouchers, v), NEW d \in Docs
    PROVE  CollectedOn(d)' = CollectedOn(d)
             + (IF v.kind = "post" THEN entries[v.ref].alloc[d] ELSE 0)
<1>1. PICK S, T, n : S = Postings(vouchers) /\ T = Postings(vouchers') /\ n = Len(vouchers) + 1
  OBVIOUS
<1>2. PICK f, g : /\ f = [i \in S |-> entries[vouchers[i].ref].alloc[d]]
                  /\ g = [i \in T |-> entries'[vouchers'[i].ref].alloc[d]]
  OBVIOUS
<1>3. /\ vouchers \in Seq(Voucher) /\ S \subseteq DOMAIN vouchers
      /\ entries \in [Entries -> Entry] /\ entries' \in [Entries -> Entry]
  BY <1>1 DEF Postings, TypeInv, TypeOK, BooksTypeOK
<1>4. /\ n \notin DOMAIN vouchers /\ vouchers'[n] = v
      /\ DOMAIN vouchers' = DOMAIN vouchers \cup {n}
      /\ \A i \in DOMAIN vouchers : vouchers'[i] = vouchers[i] /\ vouchers[i] \in Voucher
  BY <1>1, <1>3, Appended
<1>5. IsFiniteSet(S)
  BY <1>3, PositionsFinite
<1>6. T = IF v.kind = "post" THEN S \cup {n} ELSE S
  BY <1>1, <1>4 DEF Postings
<1>7. \A i \in S : f[i] = g[i] /\ g[i] \in Int
  <2>1. \A i \in S : vouchers[i].ref \in Entries /\ Known(entries[vouchers[i].ref]) /\ i \in T
    BY <1>3, <1>4, <1>6 DEF CollectInv, Voucher
  <2>2. \A e \in Entries : entries'[e].alloc \in [Docs -> Nat]
    BY <1>3 DEF Entry
  <2> QED
    BY <1>2, <1>3, <1>4, <2>1, <2>2 DEF Lasting
<1>8. SumFunctionOnSet(f, S) = SumFunctionOnSet(g, S) /\ SumFunctionOnSet(g, S) \in Int
  BY <1>5, <1>7, SumEqual, SumType
<1>9. CollectedOn(d) = SumFunctionOnSet(f, S) /\ CollectedOn(d)' = SumFunctionOnSet(g, T)
  BY <1>1, <1>2 DEF CollectedOn
<1>10. CASE v.kind = "post"
  <2>1. T = S \cup {n} /\ T \ {n} = S /\ IsFiniteSet(T)
    BY <1>3, <1>4, <1>5, <1>6, <1>10, FS_AddElement
  <2>2. g[n] = entries[v.ref].alloc[d] /\ g[n] \in Int
    <3>1. v.ref \in Entries
      BY DEF Voucher
    <3>2. entries'[v.ref].alloc = entries[v.ref].alloc /\ entries[v.ref].alloc[d] \in Nat
      BY <1>3, <3>1 DEF Lasting, Entry
    <3> QED BY <1>2, <1>4, <2>1, <3>2
  <2>3. SumFunctionOnSet(g, T) = g[n] + SumFunctionOnSet(g, T \ {n})
    <3>1. \A i \in T : g[i] \in Int
      BY <1>7, <2>1, <2>2
    <3> QED BY <2>1, <3>1, SumRemove
  <2>5. SumFunctionOnSet(g, T \ {n}) = SumFunctionOnSet(f, S)
    BY <1>8, <2>1
  <2>4. SumFunctionOnSet(g, T) = SumFunctionOnSet(f, S) + g[n]
    BY <1>8, <2>2, <2>3, <2>5
  <2> QED
    BY <1>9, <1>10, <2>2, <2>4
<1>11. CASE v.kind # "post"
  BY <1>6, <1>8, <1>9, <1>11
<1> QED
  BY <1>10, <1>11

\* A step that puts p in a stage where it has read nothing, or reads the row afresh.
LEMMA CollectStep1 ==
    ASSUME TypeInv, TypeInv', CollectInv, Lasting, NEW p \in Procs, NEW req,
           reqs' = [reqs EXCEPT ![p] = req],
           req.stage \in {"checked", "tx"} =>
              /\ req.op \notin TakingBack /\ req.e \in Entries /\ Known(entries[req.e])
              /\ req.row.alloc = entries[req.e].alloc,
           \A i \in DOMAIN vouchers' : Known(entries[vouchers'[i].ref]),
           \A i \in DOMAIN vouchers' : vouchers'[i].ref \in Entries,
           \A d \in Docs : docs'[d].paid = CollectedOn(d)'
    PROVE  CollectInv'
<1>1. \A i \in DOMAIN vouchers' : Known(entries'[vouchers'[i].ref])
  BY DEF Lasting
<1>2. ASSUME NEW q \in Procs, reqs'[q].stage \in {"checked", "tx"}
      PROVE  /\ reqs'[q].op \notin TakingBack /\ Known(entries'[reqs'[q].e])
             /\ reqs'[q].row.alloc = entries'[reqs'[q].e].alloc
  <2>1. CASE q = p
    <3>1. reqs'[q] = req
      BY <2>1 DEF TypeInv, TypeOK
    <3> QED BY <1>2, <3>1 DEF Lasting
  <2>2. CASE q # p
    <3>1. reqs'[q] = reqs[q]
      BY <2>2 DEF TypeInv, TypeOK
    <3>2. reqs[q].e \in Entries
      BY <1>2, <3>1, Requests DEF TypeInv, TypeOK, Checked, InTx
    <3> QED BY <1>2, <3>1, <3>2 DEF CollectInv, Lasting
  <2> QED BY <2>1, <2>2
<1> QED
  BY <1>1, <1>2 DEF CollectInv

\* Writing one entry lasts if the entry is new or keeps what it allocates.
LEMMA LastingWrite ==
    ASSUME TypeInv, NEW e \in Entries, NEW new, entries' = [entries EXCEPT ![e] = new],
           Known(entries[e]) => Known(new) /\ new.alloc = entries[e].alloc
    PROVE  Lasting
BY DEF Lasting, TypeInv, TypeOK, BooksTypeOK

\* A commit that books one voucher for its entry.
LEMMA CollectBook ==
    ASSUME TypeInv, TypeInv', CollectInv, NEW p \in Procs, reqs' = [reqs EXCEPT ![p] = Idle],
           NEW e \in Entries, Known(entries[e]), NEW new,
           entries' = [entries EXCEPT ![e] = new],
           Known(new), new.alloc = entries[e].alloc,
           NEW v \in Voucher, v.ref = e, v.status = "posted",
           vouchers' = Append(vouchers, v),
           \A d \in Docs : docs'[d].paid = docs[d].paid
             + (IF v.kind = "post" THEN entries[e].alloc[d] ELSE 0)
    PROVE  CollectInv'
<1>1. Lasting
  BY LastingWrite
<1>2. \A d \in Docs : docs'[d].paid = CollectedOn(d)'
  BY <1>1, CollectedBooked DEF CollectInv
<1>3. vouchers \in Seq(Voucher)
  BY DEF TypeInv, TypeOK, BooksTypeOK
<1>4. \A i \in DOMAIN vouchers' : /\ vouchers'[i].ref \in Entries
                                  /\ Known(entries[vouchers'[i].ref])
  <2>1. /\ DOMAIN vouchers' = DOMAIN vouchers \cup {Len(vouchers) + 1}
        /\ vouchers'[Len(vouchers) + 1] = v
        /\ \A i \in DOMAIN vouchers : vouchers'[i] = vouchers[i] /\ vouchers[i] \in Voucher
    BY <1>3, Appended
  <2>2. \A i \in DOMAIN vouchers : vouchers[i].ref \in Entries
    BY <2>1 DEF Voucher
  <2> QED BY <2>1, <2>2 DEF CollectInv
<1>5. Idle.stage = "idle"
  BY DEF Idle
<1> QED
  BY <1>1, <1>2, <1>4, <1>5, CollectStep1

\* A step that books nothing, pays nothing, and leaves p with req.
LEMMA CollectQuiet ==
    ASSUME TypeInv, TypeInv', CollectInv, NEW p \in Procs, NEW req,
           reqs' = [reqs EXCEPT ![p] = req],
           req.stage \in {"checked", "tx"} =>
              /\ req.op \notin TakingBack /\ req.e \in Entries /\ Known(entries[req.e])
              /\ req.row.alloc = entries[req.e].alloc,
           Lasting, UNCHANGED <<vouchers, docs>>
    PROVE  CollectInv'
<1>1. \A d \in Docs : docs'[d].paid = CollectedOn(d)'
  BY CollectedKept DEF CollectInv
<1>2. \A i \in DOMAIN vouchers : vouchers[i] \in Voucher
  BY DEF TypeInv, TypeOK, BooksTypeOK
<1>3. \A i \in DOMAIN vouchers' : /\ vouchers'[i].ref \in Entries
                                  /\ Known(entries[vouchers'[i].ref])
  BY <1>2 DEF CollectInv, Voucher
<1> QED
  BY <1>1, <1>3, CollectStep1

\* What a commit knows of its entry.
LEMMA CollectCommitted ==
    ASSUME TypeInv, CollectInv, NEW p \in Procs, NEW op, Committing(p, op)
    PROVE  /\ reqs[p].e \in Entries /\ reqs[p].row \in Entry /\ reqs[p].op = op
           /\ op \notin TakingBack /\ Known(entries[reqs[p].e])
           /\ reqs[p].row.alloc = entries[reqs[p].e].alloc
           /\ reqs[p].seen \in [Docs -> Doc]
           /\ ReqOK(reqs[p], Len(vouchers))
<1>1. reqs[p].stage = "tx" /\ reqs[p].op = op
  BY DEF Committing
<1> QED
  BY <1>1, AtCommit DEF CollectInv

LEMMA CollectPost ==
    ASSUME TypeInv, TypeInv', CollectInv, NEW p \in Procs, PostCommit(p)
    PROVE  CollectInv'
<1>1. PICK e \in Entries : e = reqs[p].e
  BY CollectCommitted DEF PostCommit
<1>2. PICK row \in Entry : row = reqs[p].row
  BY CollectCommitted DEF PostCommit
<1>3. PICK old \in Entry : old = entries[e]
  BY DEF TypeInv, TypeOK, BooksTypeOK
<1>4. Known(old) /\ row.alloc = old.alloc /\ row.alloc \in [Docs -> Nat]
  BY <1>1, <1>2, <1>3, CollectCommitted DEF PostCommit, Entry
<1>5. PICK seen \in [Docs -> Doc] : seen = reqs[p].seen
  BY CollectCommitted DEF PostCommit
<1>6. PICK account \in Accounts : account = PostAccount(row)
  BY DEF PostAccount, Entry, Accounts, Holdings
<1>7. PICK v \in Voucher : /\ vouchers' = Append(vouchers, v) /\ v.ref = e
                           /\ v.kind = "post" /\ v.status = "posted"
  <2>1. row.party \in Accounts /\ row.amount \in Amounts
    BY DEF Entry, Accounts
  <2>2. PICK dr \in Accounts, cr \in Accounts : vouchers' = Booked(e, "post", dr, cr, row.amount)
    BY <1>1, <1>2, <1>6, <2>1 DEF PostCommit
  <2> QED BY <2>1, <2>2, BookedVoucher
<1>8. PICK main, cheque :
         /\ main = IF IsPdc(row) THEN PostAccount(row) ELSE old.main
         /\ cheque = IF IsPdc(row) THEN "IN_HAND"
                     ELSE IF row.method = "CHEQUE" THEN "CLEARED" ELSE old.cheque
  OBVIOUS
<1>9. PICK new : new = PostedRow(old, Len(vouchers) + 1, main, cheque)
  OBVIOUS
<1>10. entries' = [entries EXCEPT ![e] = new]
  BY <1>1, <1>2, <1>3, <1>8, <1>9 DEF PostCommit, PostedRow, TypeInv, TypeOK, BooksTypeOK
<1>11. Known(new) /\ new.alloc = old.alloc
  BY <1>9 DEF PostedRow, Entry, Known
<1>12. docs \in [Docs -> Doc]
  BY DEF TypeInv, TypeOK, BooksTypeOK
<1>13. ASSUME NEW d \in Docs PROVE docs'[d].paid = docs[d].paid + old.alloc[d]
  <2>1. row.alloc[d] \in Nat /\ docs[d].paid \in Nat
    BY <1>4, <1>12 DEF Doc
  <2>2. CASE d \in Allocated(row)
    <3>1. docs'[d] = WithPaid(d, seen[d], seen[d].paid + row.alloc[d])
      BY <1>2, <1>5, <2>2 DEF PostCommit
    <3>2. docs[d].paid = seen[d].paid
      BY <1>2, <1>5, <2>2 DEF PostCommit, Swappable
    <3>3. docs'[d].paid = seen[d].paid + row.alloc[d]
      BY <1>12, <3>1 DEF WithPaid, Doc
    <3> QED BY <1>4, <3>2, <3>3
  <2>3. CASE d \notin Allocated(row)
    <3>1. docs'[d] = docs[d]
      BY <1>2, <2>3 DEF PostCommit
    <3>2. row.alloc[d] = 0
      BY <2>1, <2>3 DEF Allocated
    <3> QED BY <1>4, <2>1, <3>1, <3>2
  <2> QED BY <2>2, <2>3
<1>14. reqs' = [reqs EXCEPT ![p] = Idle]
  BY DEF PostCommit, Finish
<1> QED
  BY <1>3, <1>4, <1>7, <1>10, <1>11, <1>13, <1>14, CollectBook

LEMMA ChequeVoucher ==
    ASSUME NEW e \in Entries, NEW dr \in Accounts, NEW cr \in Accounts,
           NEW amount \in Amounts, NEW kind \in {"clear", "endorse"},
           vouchers' = Booked(e, kind, dr, cr, amount)
    PROVE  \E v \in Voucher : /\ vouchers' = Append(vouchers, v) /\ v.ref = e
                              /\ v.kind # "post" /\ v.status = "posted"
<1>1. kind \in {"post", "clear", "bounce", "endorse", "reversal"} /\ kind # "post"
  OBVIOUS
<1>2. PICK v \in Voucher : /\ vouchers' = Append(vouchers, v)
                           /\ v.ref = e /\ v.kind = kind /\ v.status = "posted"
  BY <1>1, BookedVoucher
<1> QED
  BY <1>1, <1>2

LEMMA CollectCheque ==
    ASSUME TypeInv, TypeInv', CollectInv, NEW p \in Procs,
           DepositCommit(p) \/ EndorseCommit(p)
    PROVE  CollectInv'
<1>1. PICK e \in Entries : e = reqs[p].e
  BY CollectCommitted DEF DepositCommit, EndorseCommit
<1>2. PICK row \in Entry : row = reqs[p].row
  BY CollectCommitted DEF DepositCommit, EndorseCommit
<1>3. PICK old \in Entry : old = entries[e]
  BY DEF TypeInv, TypeOK, BooksTypeOK
<1>4. Known(old)
  BY <1>1, <1>3, CollectCommitted DEF DepositCommit, EndorseCommit
<1>5. PICK v \in Voucher : /\ vouchers' = Append(vouchers, v) /\ v.ref = e
                           /\ v.kind # "post" /\ v.status = "posted"
  <2>1. /\ row.party \in Accounts /\ row.main \in Accounts /\ row.amount \in Amounts
        /\ "bank" \in Accounts /\ "pdc" \in Accounts
    BY DEF Entry, Accounts, Holdings
  <2>2. CASE DepositCommit(p)
    <3>1. PICK dr \in Accounts, cr \in Accounts :
             vouchers' = Booked(e, "clear", dr, cr, row.amount)
      BY <1>1, <1>2, <2>1, <2>2 DEF DepositCommit
    <3>2. "clear" \in {"clear", "endorse"}
      OBVIOUS
    <3> QED BY <2>1, <3>1, <3>2, ChequeVoucher
  <2>3. CASE EndorseCommit(p)
    <3>1. reqs[p].arg \in [payee : Parties]
      BY <2>3, CollectCommitted DEF EndorseCommit, ReqOK
    <3>2. reqs[p].arg.payee \in Accounts
      BY <3>1 DEF Accounts
    <3>3. vouchers' = Booked(e, "endorse", reqs[p].arg.payee, row.party, row.amount)
      BY <1>1, <1>2, <2>3 DEF EndorseCommit
    <3>4. "endorse" \in {"clear", "endorse"}
      OBVIOUS
    <3> QED BY <2>1, <3>2, <3>3, <3>4, ChequeVoucher
  <2> QED BY <2>2, <2>3
<1>6. PICK cheque : entries' = [entries EXCEPT ![e].cheque = cheque]
  BY <1>1 DEF DepositCommit, EndorseCommit
<1>7. PICK new : new = [old EXCEPT !.cheque = cheque]
  OBVIOUS
<1>8. entries' = [entries EXCEPT ![e] = new]
  BY <1>3, <1>6, <1>7
<1>9. Known(new) /\ new.alloc = old.alloc
  BY <1>4, <1>7 DEF Entry, Known
<1>10. reqs' = [reqs EXCEPT ![p] = Idle] /\ UNCHANGED docs
  BY DEF DepositCommit, EndorseCommit, Finish
<1>11. \A d \in Docs : docs[d].paid \in Nat
  BY DEF TypeInv, TypeOK, BooksTypeOK, Doc
<1>12. \A d \in Docs : docs'[d].paid = docs[d].paid + 0
  BY <1>10, <1>11
<1> QED
  BY <1>3, <1>4, <1>5, <1>8, <1>9, <1>10, <1>12, CollectBook

LEMMA CollectStep ==
    ASSUME TypeInv, TypeInv', CollectInv, Ops \cap TakingBack = {}, [Next]_vars
    PROVE  CollectInv'
<1>1. UNCHANGED entries => Lasting
  BY DEF Lasting
<1>2. ASSUME NEW p \in Procs, NEW op, NEW e \in Entries, NEW arg, Checks(p, op, e, arg)
      PROVE  CollectInv'
  <2>1. PICK req : req = [stage |-> "checked", op |-> op, e |-> e, row |-> entries[e],
                          arg |-> arg]
    OBVIOUS
  <2>2. /\ reqs' = [reqs EXCEPT ![p] = req] /\ UNCHANGED <<entries, docs, vouchers>>
        /\ req.op = op /\ req.e = e /\ req.row = entries[e]
        /\ op \in Ops /\ Known(entries[e])
    BY <1>2, <2>1 DEF Checks, Exists, Known, books
  <2> QED BY <1>1, <2>2, CollectQuiet
<1>3. ASSUME NEW p \in Procs, NEW e \in Entries,
             \/ PostRead(p, e) \/ DepositRead(p, e) \/ BounceRead(p, e)
             \/ \E payee \in Parties : EndorseRead(p, e, payee)
             \/ CancelRead(p, e) \/ RemoveRead(p, e) \/ EditRead(p, e)
      PROVE  CollectInv'
  BY <1>2, <1>3 DEF PostRead, DepositRead, BounceRead, EndorseRead, CancelRead,
                    RemoveRead, EditRead
<1>4. ASSUME NEW p \in Procs, Begin(p) PROVE CollectInv'
  <2>1. PICK req : req = [stage |-> "tx", op |-> reqs[p].op, e |-> reqs[p].e,
                          row |-> reqs[p].row, arg |-> reqs[p].arg, seen |-> docs]
    OBVIOUS
  <2>2. /\ reqs' = [reqs EXCEPT ![p] = req] /\ UNCHANGED <<entries, docs, vouchers>>
        /\ req.op = reqs[p].op /\ req.e = reqs[p].e /\ req.row = reqs[p].row
        /\ reqs[p].stage = "checked"
    BY <1>4, <2>1 DEF Begin, books
  <2>3. reqs[p].e \in Entries
    BY <2>2, Requests DEF TypeInv, TypeOK, Checked
  <2>4. /\ req.op \notin TakingBack /\ req.e \in Entries /\ Known(entries[req.e])
        /\ req.row.alloc = entries[req.e].alloc
    BY <2>2, <2>3 DEF CollectInv
  <2> QED BY <1>1, <2>2, <2>4, CollectQuiet
<1>5. ASSUME NEW p \in Procs, RepostRead(p) PROVE CollectInv'
  <2>1. PICK req : req = [stage |-> "checked", op |-> "post", e |-> reqs[p].e,
                          row |-> entries[reqs[p].e], arg |-> NoArg]
    OBVIOUS
  <2>2. /\ reqs' = [reqs EXCEPT ![p] = req] /\ UNCHANGED <<entries, docs, vouchers>>
        /\ req.op = "post" /\ req.e = reqs[p].e /\ req.row = entries[req.e]
        /\ reqs[p].stage = "repost" /\ Known(entries[req.e])
    BY <1>5, <2>1 DEF RepostRead, Postable, Known, books
  <2>3. req.e \in Entries /\ req.op \notin TakingBack
    BY <2>2, Requests DEF TypeInv, TypeOK, Repost, TakingBack
  <2> QED BY <1>1, <2>2, <2>3, CollectQuiet
<1>6. ASSUME NEW p \in Procs, Fail(p) PROVE CollectInv'
  <2>1. /\ reqs' = [reqs EXCEPT ![p] = Idle] /\ UNCHANGED <<entries, docs, vouchers>>
        /\ Idle.stage = "idle"
    BY <1>6 DEF Fail, Finish, Idle, books
  <2> QED BY <1>1, <2>1, CollectQuiet
<1>7. ASSUME NEW p \in Procs, BounceCommit(p) \/ RemoveCommit(p) \/ ReverseCommit(p)
      PROVE  CollectInv'
  BY <1>7, CollectCommitted DEF BounceCommit, RemoveCommit, ReverseCommit, TakingBack
<1>8. ASSUME NEW p \in Procs, EditCommit(p) PROVE CollectInv'
  BY <1>8 DEF EditCommit, CollectInv, TakingBack
<1>9. ASSUME NEW p \in Procs, CancelCommit(p) PROVE CollectInv'
  <2>1. PICK e \in Entries : e = reqs[p].e
    BY <1>9, Requests DEF CancelCommit, TypeInv, TypeOK, Checked
  <2>2. PICK old \in Entry : old = entries[e]
    BY DEF TypeInv, TypeOK, BooksTypeOK
  <2>3. PICK new : new = [old EXCEPT !.status = "cancelled"]
    OBVIOUS
  <2>4. entries' = [entries EXCEPT ![e] = new] /\ Known(new) /\ new.alloc = old.alloc
    BY <1>9, <2>1, <2>2, <2>3 DEF CancelCommit, Known, Entry
  <2>5. Lasting
    BY <2>2, <2>4, LastingWrite
  <2>6. /\ reqs' = [reqs EXCEPT ![p] = Idle] /\ UNCHANGED <<docs, vouchers>>
        /\ Idle.stage = "idle"
    BY <1>9 DEF CancelCommit, Finish, Idle
  <2> QED BY <2>5, <2>6, CollectQuiet
<1>10. ASSUME Lasting, UNCHANGED <<vouchers, reqs>>,
              \A d \in Docs : docs'[d].paid = docs[d].paid
       PROVE  CollectInv'
  <2>1. \A d \in Docs : docs'[d].paid = CollectedOn(d)'
    BY <1>10, CollectedKept DEF CollectInv
  <2>2. \A i \in DOMAIN vouchers : vouchers[i] \in Voucher
    BY DEF TypeInv, TypeOK, BooksTypeOK
  <2>3. \A i \in DOMAIN vouchers' : Known(entries'[vouchers'[i].ref])
    BY <1>10, <2>2 DEF CollectInv, Lasting, Voucher
  <2>4. \A p \in Procs : reqs[p].stage \in {"checked", "tx"} => reqs[p].e \in Entries
    BY Requests DEF TypeInv, TypeOK, Checked, InTx
  <2> QED BY <1>10, <2>1, <2>3, <2>4 DEF CollectInv, Lasting
<1>11. ASSUME NEW e \in Entries, NEW kind \in Kinds, NEW party \in Parties,
              NEW amount \in Amounts, NEW alloc \in [Docs -> 0 .. MaxAmount],
              Create(e, kind, party, amount, alloc)
       PROVE  CollectInv'
  <2>1. PICK new : Resettles(e, new) /\ entries[e].status = "absent"
    BY <1>11, CreateResettles
  <2>2. Lasting
    BY <2>1, LastingWrite DEF Resettles, Known
  <2>3. UNCHANGED <<docs, vouchers, reqs>>
    BY <1>11 DEF Create
  <2> QED BY <1>10, <2>2, <2>3
<1>12. ASSUME NEW d \in Docs, NEW amount \in Amounts, PostReturn(d, amount)
       PROVE  CollectInv'
  <2>1. UNCHANGED <<entries, vouchers, reqs>>
    BY <1>12 DEF PostReturn
  <2> QED BY <1>1, <1>10, <1>12, <2>1, ReturnKeepsPaid
<1>13. CASE SetLock \/ UNCHANGED vars
  <2>1. UNCHANGED <<entries, docs, vouchers, reqs>>
    BY <1>13 DEF SetLock, vars
  <2> QED BY <1>1, <1>10, <2>1
<1> QED
  BY <1>3, <1>4, <1>5, <1>6, <1>7, <1>8, <1>9, <1>11, <1>12, <1>13, CollectPost,
     CollectCheque DEF Next

\* However requests overlap and whichever fail, the amount paid on a document is what the
\* live postings collected on it: the swap of the amount paid loses none, as long as
\* clients do not take allocations back.
THEOREM NoPostingLost ==
    FreshDocs /\ Ops \cap TakingBack = {} => (Spec => []CollectedIsBooked)
<1> SUFFICES ASSUME FreshDocs, Ops \cap TakingBack = {} PROVE Spec => []CollectedIsBooked
    OBVIOUS
<1> DEFINE IInv == TypeInv /\ CollectInv
<1>1. Init => IInv
  BY TypeInit, CollectInit
<1>2. IInv /\ [Next]_vars => IInv'
  BY TypeStep, CollectStep
<1>3. IInv => CollectedIsBooked
  BY CollectMeans
<1> HIDE DEF IInv
<1> QED
  BY <1>1, <1>2, <1>3, PTL DEF Spec

-------------------------------------------------------------------------------
(* The voucher desk beside the payment desk, whether or not they overlap.   *)

\* Voucher i of vs is in ws with its reference, and only a deletion took it.
Survive(vs, ws) ==
    \A i \in DOMAIN vs : /\ i \in DOMAIN ws
                         /\ ws[i].ref = vs[i].ref
                         /\ vs[i].status # "deleted" => ws[i].status # "deleted"

\* The row of entry e, if it is posted, points at one of its vouchers that exists.
PointsRight(row, e, vs) ==
    row.status = "posted" => /\ row.voucher \in DOMAIN vs
                             /\ vs[row.voucher].ref = e
                             /\ vs[row.voucher].status # "deleted"

AllPointRight == \A e \in Entries : PointsRight(entries[e], e, vouchers)

LEMMA PointingMeans ==
    ASSUME TypeInv, AllPointRight
    PROVE  NoDanglingPointer
<1>1. DOMAIN vouchers = 1 .. Len(vouchers) /\ Len(vouchers) \in Nat
  BY DEF TypeInv, TypeOK, BooksTypeOK
<1>2. ASSUME NEW e \in InForce
      PROVE  entries[e].voucher # 0 /\ vouchers[entries[e].voucher].status # "deleted"
  <2>1. e \in Entries /\ entries[e].status = "posted"
    BY DEF InForce
  <2>2. /\ entries[e].voucher \in DOMAIN vouchers
        /\ vouchers[entries[e].voucher].status # "deleted"
    BY <2>1 DEF AllPointRight, PointsRight
  <2> QED BY <1>1, <2>2
<1> QED
  BY <1>2 DEF NoDanglingPointer, Stored

LEMMA AppendSurvives ==
    ASSUME vouchers \in Seq(Voucher), NEW v
    PROVE  /\ Survive(vouchers, Append(vouchers, v))
           /\ Len(vouchers) + 1 \in DOMAIN Append(vouchers, v)
           /\ Append(vouchers, v)[Len(vouchers) + 1] = v
<1>1. /\ DOMAIN vouchers = 1 .. Len(vouchers) /\ Len(vouchers) \in Nat
      /\ DOMAIN Append(vouchers, v) = 1 .. (Len(vouchers) + 1)
      /\ \A i \in 1 .. Len(vouchers) : Append(vouchers, v)[i] = vouchers[i]
      /\ Append(vouchers, v)[Len(vouchers) + 1] = v
  OBVIOUS
<1> QED
  BY <1>1 DEF Survive

LEMMA CancelledSurvives ==
    ASSUME vouchers \in Seq(Voucher), NEW positions
    PROVE  Survive(vouchers, Cancelled(positions))
<1>1. ASSUME NEW i \in DOMAIN vouchers
      PROVE  /\ i \in DOMAIN Cancelled(positions)
             /\ Cancelled(positions)[i].ref = vouchers[i].ref
             /\ vouchers[i].status # "deleted" => Cancelled(positions)[i].status # "deleted"
  <2>1. vouchers[i] \in Voucher
    OBVIOUS
  <2> QED BY <2>1 DEF Cancelled, Voucher
<1> QED
  BY <1>1 DEF Survive

\* The write of one row, while every voucher survives.
LEMMA PointingWrite ==
    ASSUME TypeInv, AllPointRight, Survive(vouchers, vouchers'), NEW e \in Entries, NEW new,
           entries' = [entries EXCEPT ![e] = new],
           \/ new.status = "posted" => /\ entries[e].status = "posted"
                                       /\ new.voucher = entries[e].voucher
           \/ PointsRight(new, e, vouchers')
    PROVE  AllPointRight'
<1>1. ASSUME NEW f \in Entries, NEW row, row.status = "posted" => /\ entries[f].status = "posted"
                                                       /\ row.voucher = entries[f].voucher
      PROVE  PointsRight(row, f, vouchers')
  BY <1>1 DEF AllPointRight, PointsRight, Survive
<1>2. ASSUME NEW f \in Entries PROVE PointsRight(entries'[f], f, vouchers')
  <2>1. CASE f = e
    <3>1. entries'[f] = new
      BY <2>1 DEF TypeInv, TypeOK, BooksTypeOK
    <3> QED BY <1>1, <2>1, <3>1
  <2>2. CASE f # e
    <3>1. entries'[f] = entries[f]
      BY <2>2 DEF TypeInv, TypeOK, BooksTypeOK
    <3> QED BY <1>1, <3>1
  <2> QED BY <2>1, <2>2
<1> QED
  BY <1>2 DEF AllPointRight

LEMMA PointingQuiet ==
    ASSUME AllPointRight, UNCHANGED <<entries, vouchers>>
    PROVE  AllPointRight' /\ Survive(vouchers, vouchers')
BY DEF AllPointRight, Survive

LEMMA PostPointing ==
    ASSUME TypeInv, AllPointRight, NEW p \in Procs, PostCommit(p)
    PROVE  AllPointRight' /\ Survive(vouchers, vouchers')
<1>1. PICK e \in Entries : e = reqs[p].e
  BY AtCommit DEF PostCommit
<1>2. PICK row \in Entry : row = reqs[p].row
  BY AtCommit DEF PostCommit
<1>3. PICK old \in Entry : old = entries[e]
  BY DEF TypeInv, TypeOK, BooksTypeOK
<1>4. PICK account \in Accounts : account = PostAccount(row)
  BY DEF PostAccount, Entry, Accounts, Holdings
<1>5. PICK v \in Voucher : vouchers' = Append(vouchers, v) /\ v.ref = e /\ v.status = "posted"
  <2>1. /\ row.party \in Accounts /\ row.amount \in Amounts
        /\ "post" \in {"post", "clear", "bounce", "endorse", "reversal"}
    BY DEF Entry, Accounts
  <2>2. PICK dr \in Accounts, cr \in Accounts : vouchers' = Booked(e, "post", dr, cr, row.amount)
    BY <1>1, <1>2, <1>4, <2>1 DEF PostCommit
  <2> QED BY <2>1, <2>2, BookedVoucher
<1>6. PICK main, cheque :
         /\ main = IF IsPdc(row) THEN PostAccount(row) ELSE old.main
         /\ cheque = IF IsPdc(row) THEN "IN_HAND"
                     ELSE IF row.method = "CHEQUE" THEN "CLEARED" ELSE old.cheque
  OBVIOUS
<1>7. PICK new : new = PostedRow(old, Len(vouchers) + 1, main, cheque)
  OBVIOUS
<1>8. entries' = [entries EXCEPT ![e] = new]
  BY <1>1, <1>2, <1>3, <1>6, <1>7 DEF PostCommit, PostedRow, TypeInv, TypeOK, BooksTypeOK
<1>9. new.voucher = Len(vouchers) + 1
  BY <1>7 DEF PostedRow, Entry
<1>10. vouchers \in Seq(Voucher)
  BY DEF TypeInv, TypeOK, BooksTypeOK
<1>11. Survive(vouchers, vouchers') /\ PointsRight(new, e, vouchers')
  BY <1>5, <1>9, <1>10, AppendSurvives DEF PointsRight
<1> QED
  BY <1>8, <1>11, PointingWrite

\* The other commits post no row, and book or cancel vouchers without deleting any.
LEMMA ChequePointing ==
    ASSUME TypeInv, AllPointRight, NEW p \in Procs,
           DepositCommit(p) \/ BounceCommit(p) \/ EndorseCommit(p)
    PROVE  AllPointRight' /\ Survive(vouchers, vouchers')
<1>1. PICK e \in Entries : e = reqs[p].e
  BY AtCommit DEF DepositCommit, BounceCommit, EndorseCommit
<1>2. PICK old \in Entry : old = entries[e]
  BY DEF TypeInv, TypeOK, BooksTypeOK
<1>3. PICK new : /\ entries' = [entries EXCEPT ![e] = new]
                 /\ new.status = old.status /\ new.voucher = old.voucher
  <2>1. CASE BounceCommit(p)
    <3>1. PICK new : new = [old EXCEPT !.cheque = "BOUNCED", !.alloc = NoAllocation]
      OBVIOUS
    <3>2. new.status = old.status /\ new.voucher = old.voucher
      BY <3>1 DEF Entry
    <3>3. entries' = [entries EXCEPT ![e] = new]
      BY <1>1, <1>2, <2>1, <3>1 DEF BounceCommit
    <3> QED BY <3>2, <3>3
  <2>2. CASE DepositCommit(p) \/ EndorseCommit(p)
    <3>1. PICK cheque : entries' = [entries EXCEPT ![e].cheque = cheque]
      BY <1>1, <2>2 DEF DepositCommit, EndorseCommit
    <3>2. PICK new : new = [old EXCEPT !.cheque = cheque]
      OBVIOUS
    <3>3. new.status = old.status /\ new.voucher = old.voucher
      BY <3>2 DEF Entry
    <3>4. entries' = [entries EXCEPT ![e] = new]
      BY <1>2, <3>1, <3>2
    <3> QED BY <3>3, <3>4
  <2> QED BY <2>1, <2>2
<1>4. PICK v : vouchers' = Append(vouchers, v)
  BY DEF DepositCommit, BounceCommit, EndorseCommit, Booked
<1>5. vouchers \in Seq(Voucher)
  BY DEF TypeInv, TypeOK, BooksTypeOK
<1>6. Survive(vouchers, vouchers')
  BY <1>4, <1>5, AppendSurvives
<1> QED
  BY <1>2, <1>3, <1>6, PointingWrite

LEMMA RemovePointing ==
    ASSUME TypeInv, AllPointRight, NEW p \in Procs, RemoveCommit(p)
    PROVE  AllPointRight' /\ Survive(vouchers, vouchers')
<1>1. PICK e \in Entries : e = reqs[p].e
  BY AtCommit DEF RemoveCommit
<1>2. PICK new : new = [Blank EXCEPT !.status = "deleted"]
  OBVIOUS
<1>3. new.status = "deleted"
  BY <1>2 DEF Blank
<1>4. entries' = [entries EXCEPT ![e] = new]
  BY <1>1, <1>2 DEF RemoveCommit
<1>5. vouchers \in Seq(Voucher)
  BY DEF TypeInv, TypeOK, BooksTypeOK
<1>6. Survive(vouchers, vouchers')
  BY <1>5, CancelledSurvives DEF RemoveCommit, Survive
<1> QED
  BY <1>3, <1>4, <1>6, PointingWrite

LEMMA ReversePointing ==
    ASSUME TypeInv, AllPointRight, NEW p \in Procs, ReverseCommit(p)
    PROVE  AllPointRight' /\ Survive(vouchers, vouchers')
<1>1. PICK e \in Entries : e = reqs[p].e
  BY AtCommit DEF ReverseCommit
<1>2. PICK over \in Entry : over = Overwritten(e, reqs[p].arg)
  <2>1. reqs[p].arg \in Edit
    BY AtCommit DEF ReverseCommit, ReqOK
  <2> QED BY <1>1, <2>1, OverwrittenTyped DEF TypeInv, TypeOK, BooksTypeOK
<1>3. PICK new : new = [over EXCEPT !.status = "pending", !.voucher = 0, !.cheque = "none"]
  OBVIOUS
<1>4. new.status = "pending"
  BY <1>3 DEF Entry
<1>5. entries' = [entries EXCEPT ![e] = new]
  BY <1>1, <1>2, <1>3 DEF ReverseCommit
<1>6. PICK v : vouchers' = Append(vouchers, v)
  BY DEF ReverseCommit, Booked
<1>7. vouchers \in Seq(Voucher)
  BY DEF TypeInv, TypeOK, BooksTypeOK
<1>8. Survive(vouchers, vouchers')
  BY <1>6, <1>7, AppendSurvives
<1> QED
  BY <1>4, <1>5, <1>8, PointingWrite

LEMMA SinglePointing ==
    ASSUME TypeInv, AllPointRight, NEW p \in Procs, EditCommit(p) \/ CancelCommit(p)
    PROVE  AllPointRight' /\ Survive(vouchers, vouchers')
<1>1. PICK req : req = reqs[p]
  OBVIOUS
<1>2. req.e \in Entries /\ ReqOK(req, Len(vouchers))
  <2>1. req.stage = "checked"
    BY <1>1 DEF EditCommit, CancelCommit
  <2> QED BY <1>1, <2>1, Requests DEF TypeInv, TypeOK, Checked
<1>3. PICK old \in Entry : old = entries[req.e]
  BY <1>2 DEF TypeInv, TypeOK, BooksTypeOK
<1>4. PICK new : /\ entries' = [entries EXCEPT ![req.e] = new]
                 /\ new.status = "posted" => /\ old.status = "posted"
                                             /\ new.voucher = old.voucher
  <2>1. CASE EditCommit(p)
    <3>1. PICK new : new = [old EXCEPT !.amount = req.arg.amount, !.party = req.arg.party,
                                       !.pdc = req.arg.pdc, !.main = req.arg.main]
      OBVIOUS
    <3>2. new.status = old.status /\ new.voucher = old.voucher
      BY <3>1 DEF Entry
    <3>3. entries' = [entries EXCEPT ![req.e] = new]
      BY <1>1, <1>3, <2>1, <3>1 DEF EditCommit, Overwritten
    <3> QED BY <3>2, <3>3
  <2>2. CASE CancelCommit(p)
    <3>1. PICK new : new = [old EXCEPT !.status = "cancelled"]
      OBVIOUS
    <3>2. new.status = "cancelled"
      BY <3>1 DEF Entry
    <3>3. entries' = [entries EXCEPT ![req.e] = new]
      BY <1>1, <1>3, <2>2, <3>1 DEF CancelCommit
    <3> QED BY <3>2, <3>3
  <2> QED BY <2>1, <2>2
<1>5. Survive(vouchers, vouchers')
  BY DEF EditCommit, CancelCommit, Survive
<1> QED
  BY <1>2, <1>3, <1>4, <1>5, PointingWrite

LEMMA CreatePointing ==
    ASSUME TypeInv, AllPointRight, NEW e \in Entries, NEW kind \in Kinds,
           NEW party \in Parties, NEW amount \in Amounts,
           NEW alloc \in [Docs -> 0 .. MaxAmount], Create(e, kind, party, amount, alloc)
    PROVE  AllPointRight' /\ Survive(vouchers, vouchers')
<1>1. PICK new : entries' = [entries EXCEPT ![e] = new] /\ new.status = "pending"
  BY CreateResettles DEF Resettles
<1>2. Survive(vouchers, vouchers')
  BY DEF Create, Survive
<1> QED
  BY <1>1, <1>2, PointingWrite

LEMMA PointingStep ==
    ASSUME TypeInv, AllPointRight, [Next]_vars
    PROVE  AllPointRight' /\ Survive(vouchers, vouchers')
<1>1. ASSUME NEW p \in Procs, NEW e \in Entries,
             \/ PostRead(p, e) \/ DepositRead(p, e) \/ BounceRead(p, e)
             \/ \E payee \in Parties : EndorseRead(p, e, payee)
             \/ CancelRead(p, e) \/ RemoveRead(p, e) \/ EditRead(p, e)
      PROVE  UNCHANGED <<entries, vouchers>>
  BY <1>1 DEF PostRead, DepositRead, BounceRead, EndorseRead, CancelRead, RemoveRead,
              EditRead, Checks, books
<1>2. ASSUME NEW p \in Procs, Begin(p) \/ RepostRead(p) \/ Fail(p)
      PROVE  UNCHANGED <<entries, vouchers>>
  BY <1>2 DEF Begin, RepostRead, Fail, books
<1>3. CASE \/ \E d \in Docs, amount \in Amounts : PostReturn(d, amount)
           \/ SetLock \/ UNCHANGED vars
  <2>1. UNCHANGED <<entries, vouchers>>
    BY <1>3 DEF PostReturn, SetLock, vars
  <2> QED BY <2>1, PointingQuiet
<1> QED
  BY <1>1, <1>2, <1>3, PointingQuiet, PostPointing, ChequePointing, RemovePointing,
     ReversePointing, SinglePointing, CreatePointing DEF Next

\* The request of the voucher desk names a voucher that was there when it was read, and
\* no voucher leaves the sequence.
DeskInv ==
    /\ TypeInv
    /\ desk \in {DeskIdle} \cup DeskReq
    /\ desk # DeskIdle => desk.v \in DOMAIN vouchers
    /\ AllPointRight

LEMMA DeskRequests ==
    ASSUME DeskInv, NEW op, op \in AllDeskOps, desk.op = op
    PROVE  desk \in DeskReq /\ desk.v \in DOMAIN vouchers
<1>1. desk # DeskIdle
  BY DEF DeskIdle, AllDeskOps
<1> QED
  BY <1>1 DEF DeskInv

\* A step that leaves the requests alone and keeps as many vouchers.
LEMMA RowsTyped ==
    ASSUME TypeInv, UNCHANGED <<reqs, locked>>,
           entries' \in [Entries -> Entry], docs' \in [Docs -> Doc],
           vouchers' \in Seq(Voucher), Len(vouchers') = Len(vouchers),
           \A e \in Entries : entries'[e].voucher \in 0 .. Len(vouchers)
    PROVE  TypeInv'
<1>1. TypeOK'
  BY DEF TypeInv, TypeOK, BooksTypeOK
<1> QED
  BY <1>1 DEF TypeInv, ReqOK, Pointer

\* Posting, unposting or cancelling a voucher.
LEMMA StatusTyped ==
    ASSUME vouchers \in Seq(Voucher), NEW v \in DOMAIN vouchers,
           NEW status \in {"draft", "posted", "cancelled"}
    PROVE  /\ WithStatus(v, status) \in Seq(Voucher)
           /\ Len(WithStatus(v, status)) = Len(vouchers)
           /\ Survive(vouchers, WithStatus(v, status))
           /\ \A i \in DOMAIN vouchers :
                 WithStatus(v, status)[i].status = "deleted" => vouchers[i].status = "deleted"
<1>1. PICK new : new = [vouchers[v] EXCEPT !.status = status]
  OBVIOUS
<1>2. vouchers[v] \in Voucher
  OBVIOUS
<1>3. new \in Voucher /\ new.ref = vouchers[v].ref /\ new.status = status
  BY <1>1, <1>2 DEF Voucher
<1>4. WithStatus(v, status) = [vouchers EXCEPT ![v] = new]
  BY <1>1 DEF WithStatus
<1>5. PICK ws : ws = [vouchers EXCEPT ![v] = new]
  OBVIOUS
<1>6. ws \in Seq(Voucher) /\ Len(ws) = Len(vouchers) /\ DOMAIN ws = DOMAIN vouchers
  BY <1>3, <1>5
<1>7. \A i \in DOMAIN vouchers : ws[i] = IF i = v THEN new ELSE vouchers[i]
  BY <1>5
<1>8. new.status # "deleted"
  BY <1>3
<1>9. Survive(vouchers, ws)
  BY <1>3, <1>6, <1>7, <1>8 DEF Survive
<1> QED
  BY <1>4, <1>5, <1>6, <1>7, <1>8, <1>9

LEMMA DeskStatusStep ==
    ASSUME DeskInv, DeskStatus
    PROVE  /\ DeskInv'
           /\ \A i \in DOMAIN vouchers :
                 vouchers'[i].status = "deleted" => vouchers[i].status = "deleted"
<1>1. desk \in DeskReq /\ desk.v \in DOMAIN vouchers
  BY DeskRequests DEF DeskStatus, AllDeskOps
<1>2. PICK status \in {"draft", "posted", "cancelled"} :
         vouchers' = WithStatus(desk.v, status)
  BY DEF DeskStatus
<1>3. /\ vouchers \in Seq(Voucher) /\ entries \in [Entries -> Entry] /\ docs \in [Docs -> Doc]
      /\ \A e \in Entries : entries[e].voucher \in 0 .. Len(vouchers)
  BY DEF DeskInv, TypeInv, TypeOK, BooksTypeOK, Pointer
<1>4. /\ vouchers' \in Seq(Voucher) /\ Len(vouchers') = Len(vouchers)
      /\ Survive(vouchers, vouchers')
      /\ \A i \in DOMAIN vouchers :
            vouchers'[i].status = "deleted" => vouchers[i].status = "deleted"
  BY <1>1, <1>2, <1>3, StatusTyped
<1>5. UNCHANGED <<entries, docs, locked, reqs>> /\ desk' = DeskIdle
  BY DEF DeskStatus, DeskFinish
<1>6. TypeInv'
  BY <1>3, <1>4, <1>5, RowsTyped DEF DeskInv
<1>7. AllPointRight'
  BY <1>4, <1>5 DEF DeskInv, AllPointRight, PointsRight, Survive
<1> QED
  BY <1>4, <1>5, <1>6, <1>7 DEF DeskInv

\* What a deletion gives back on each document.
LEMMA AppliedTyped ==
    ASSUME TypeInv, NEW reversed \in SUBSET Entries
    PROVE  [d \in Docs |-> SumFunction([e \in reversed |-> entries[e].alloc[d]])]
              \in [Docs -> Nat]
<1>1. IsFiniteSet(reversed)
  BY EntriesFinite, FS_Subset
<1> SUFFICES ASSUME NEW d \in Docs
             PROVE  SumFunction([e \in reversed |-> entries[e].alloc[d]]) \in Nat
    OBVIOUS
<1>2. PICK f : f = [e \in reversed |-> entries[e].alloc[d]]
  OBVIOUS
<1>3. \A e \in reversed : entries[e] \in Entry
  BY DEF TypeInv, TypeOK, BooksTypeOK
<1>4. \A e \in reversed : f[e] \in Nat
  BY <1>2, <1>3 DEF Entry
<1>5. SumFunctionOnSet(f, reversed) \in Nat
  BY <1>1, <1>4, SumNotNegative
<1>6. DOMAIN f = reversed
  BY <1>2
<1> QED
  BY <1>2, <1>5, <1>6 DEF SumFunction

LEMMA ListOf ==
    ASSUME NEW S, NEW n \in Nat, NEW f \in [1 .. n -> S]
    PROVE  f \in Seq(S) /\ Len(f) = n
OBVIOUS

\* Deleting voucher v: the row is gone, its siblings are cancelled, the entry that it
\* belongs to is cancelled and points nowhere.
LEMMA RemovedVouchers ==
    ASSUME vouchers \in Seq(Voucher), NEW v \in DOMAIN vouchers, NEW ws,
           ws = [Cancelled(Siblings(v)) EXCEPT ![v].status = "deleted"]
    PROVE  /\ ws \in Seq(Voucher) /\ Len(ws) = Len(vouchers)
           /\ \A i \in DOMAIN vouchers : ws[i].ref = vouchers[i].ref
           /\ \A i \in DOMAIN vouchers :
                 ws[i].status = "deleted" <=> (i = v \/ vouchers[i].status = "deleted")
           /\ \A i \in DOMAIN vouchers :
                 vouchers[i].ref = vouchers[v].ref => ws[i].status # "posted"
<1>1. PICK us : us = Cancelled(Siblings(v))
  OBVIOUS
<1>2. us \in Seq(Voucher) /\ Len(us) = Len(vouchers)
  BY <1>1, CancelledTyped
<1>3. DOMAIN us = DOMAIN vouchers
  BY <1>2
<1>4. \A i \in DOMAIN vouchers : vouchers[i] \in Voucher /\ us[i] \in Voucher
  BY <1>2, <1>3
<1>5. PICK gone : gone = [us[v] EXCEPT !.status = "deleted"]
  OBVIOUS
<1>6. gone \in Voucher /\ gone.ref = us[v].ref /\ gone.status = "deleted"
  BY <1>4, <1>5 DEF Voucher
<1>7. ws = [us EXCEPT ![v] = gone]
  BY <1>1, <1>5
<1>8. ws \in Seq(Voucher) /\ Len(ws) = Len(vouchers)
  <2>1. us \in [1 .. Len(vouchers) -> Voucher] /\ v \in 1 .. Len(vouchers)
        /\ Len(vouchers) \in Nat
    BY <1>2
  <2>2. ws \in [1 .. Len(vouchers) -> Voucher]
    BY <1>6, <1>7, <2>1
  <2>3. PICK n \in Nat : n = Len(vouchers)
    BY <2>1
  <2>4. ws \in [1 .. n -> Voucher]
    BY <2>2, <2>3
  <2>5. ws \in Seq(Voucher) /\ Len(ws) = n
    BY <2>4, ListOf
  <2> QED BY <2>3, <2>5
<1>9. \A i \in DOMAIN vouchers : ws[i] = IF i = v THEN gone ELSE us[i]
  BY <1>3, <1>7
<1>10. ASSUME NEW i \in DOMAIN vouchers
       PROVE  /\ us[i].ref = vouchers[i].ref
              /\ us[i].status = "deleted" <=> vouchers[i].status = "deleted"
              /\ i # v /\ vouchers[i].ref = vouchers[v].ref => us[i].status # "posted"
  <2>1. us[i] = IF i \in Siblings(v) /\ vouchers[i].status # "deleted"
                THEN [vouchers[i] EXCEPT !.status = "cancelled"] ELSE vouchers[i]
    BY <1>1 DEF Cancelled
  <2> QED BY <1>4, <2>1 DEF Voucher, Siblings
<1> QED
  BY <1>6, <1>8, <1>9, <1>10

LEMMA DeskRemoveStep ==
    ASSUME DeskInv, DeskRemove
    PROVE  /\ DeskInv'
           /\ \A i \in DOMAIN vouchers :
                 vouchers'[i].status = "deleted" /\ Stored(i) =>
                    /\ entries'[vouchers[i].ref].status # "posted"
                    /\ \A j \in VouchersOf(vouchers[i].ref) : vouchers'[j].status # "posted"
<1>1. PICK v : v = desk.v
  OBVIOUS
<1>2. v \in DOMAIN vouchers
  BY <1>1, DeskRequests DEF DeskRemove, AllDeskOps
<1>3. PICK reversed \in SUBSET Entries : reversed = ReversedBy(v)
  BY DEF ReversedBy
<1>4. /\ vouchers \in Seq(Voucher) /\ entries \in [Entries -> Entry] /\ docs \in [Docs -> Doc]
      /\ \A e \in Entries : entries[e].voucher \in 0 .. Len(vouchers)
      /\ \A i \in DOMAIN vouchers : vouchers[i] \in Voucher
  BY DEF DeskInv, TypeInv, TypeOK, BooksTypeOK, Pointer
<1>5. vouchers' = [Cancelled(Siblings(v)) EXCEPT ![v].status = "deleted"]
  BY <1>1 DEF DeskRemove
<1>6. /\ vouchers' \in Seq(Voucher) /\ Len(vouchers') = Len(vouchers)
      /\ \A i \in DOMAIN vouchers : vouchers'[i].ref = vouchers[i].ref
      /\ \A i \in DOMAIN vouchers :
            vouchers'[i].status = "deleted" <=> (i = v \/ vouchers[i].status = "deleted")
      /\ \A i \in DOMAIN vouchers :
            vouchers[i].ref = vouchers[v].ref => vouchers'[i].status # "posted"
  BY <1>2, <1>4, <1>5, RemovedVouchers
<1>7. docs' \in [Docs -> Doc]
  <2>1. PICK applied : applied = [d \in Docs |-> SumFunction([e \in reversed |-> entries[e].alloc[d]])]
    OBVIOUS
  <2>2. applied \in [Docs -> Nat]
    BY <2>1, AppliedTyped DEF DeskInv
  <2>3. docs' = Released(docs, applied)
    BY <1>1, <1>3, <2>1 DEF DeskRemove
  <2> QED BY <1>4, <2>2, <2>3, ReleasedTyped
<1>8. entries' = [e \in Entries |->
                    IF e \in reversed
                    THEN [entries[e] EXCEPT !.status = "cancelled", !.voucher = 0,
                                            !.alloc = NoAllocation]
                    ELSE entries[e]]
  BY <1>1, <1>3 DEF DeskRemove
<1>9. ASSUME NEW e \in Entries
      PROVE  /\ entries'[e] \in Entry /\ entries'[e].voucher \in 0 .. Len(vouchers)
             /\ e \in reversed => entries'[e].status = "cancelled"
             /\ e \notin reversed => entries'[e] = entries[e]
  <2>1. entries[e] \in Entry /\ NoAllocation \in [Docs -> Nat] /\ Len(vouchers) \in Nat
    BY <1>4 DEF NoAllocation
  <2>2. CASE e \in reversed
    <3>1. PICK new : new = [entries[e] EXCEPT !.status = "cancelled", !.voucher = 0,
                                              !.alloc = NoAllocation]
      OBVIOUS
    <3>2. new \in Entry /\ new.voucher = 0 /\ new.status = "cancelled"
      BY <2>1, <3>1 DEF Entry
    <3>3. entries'[e] = new
      BY <1>8, <2>2, <3>1
    <3> QED BY <2>1, <2>2, <3>2, <3>3
  <2>3. CASE e \notin reversed
    BY <1>4, <1>8, <2>1, <2>3
  <2> QED BY <2>2, <2>3
<1>10. entries' \in [Entries -> Entry]
  BY <1>8, <1>9
<1>11. UNCHANGED <<locked, reqs>> /\ desk' = DeskIdle
  BY DEF DeskRemove, DeskFinish
<1>12. TypeInv'
  BY <1>6, <1>7, <1>9, <1>10, <1>11, RowsTyped DEF DeskInv
<1>13. ASSUME NEW e \in Entries PROVE PointsRight(entries'[e], e, vouchers')
  <2>1. CASE e \in reversed \/ entries[e].status # "posted"
    BY <1>9, <2>1 DEF PointsRight
  <2>2. CASE e \notin reversed /\ entries[e].status = "posted"
    <3>1. PointsRight(entries[e], e, vouchers)
      BY DEF DeskInv, AllPointRight
    <3>2. entries[e].voucher # v
      BY <1>3, <2>2 DEF ReversedBy
    <3> QED BY <1>4, <1>6, <1>9, <2>2, <3>1, <3>2 DEF PointsRight
  <2> QED BY <2>1, <2>2
<1>14. AllPointRight'
  BY <1>13 DEF AllPointRight
<1>15. ASSUME NEW i \in DOMAIN vouchers, vouchers'[i].status = "deleted", Stored(i)
       PROVE  /\ entries'[vouchers[i].ref].status # "posted"
              /\ \A j \in VouchersOf(vouchers[i].ref) : vouchers'[j].status # "posted"
  <2>1. i = v
    BY <1>6, <1>15 DEF Stored
  <2>2. PICK e \in Entries : e = vouchers[v].ref
    BY <1>2, <1>4 DEF Voucher
  <2>3. entries'[e].status # "posted"
    <3>1. entries[e].status = "posted" => e \in reversed
      BY <1>3, <2>2 DEF ReversedBy
    <3> QED BY <1>9, <3>1
  <2>4. \A j \in VouchersOf(vouchers[v].ref) : vouchers'[j].status # "posted"
    BY <1>6 DEF VouchersOf
  <2> QED BY <2>1, <2>2, <2>3, <2>4
<1> QED
  BY <1>6, <1>11, <1>12, <1>14, <1>15 DEF DeskInv

\* A step of either desk keeps the invariant, and deletes no voucher but with all of its
\* entry's.
LEMMA DeskStep ==
    ASSUME DeskInv, [DeskNext]_allVars
    PROVE  /\ DeskInv'
           /\ \A i \in DOMAIN vouchers :
                 vouchers'[i].status = "deleted" /\ Stored(i) =>
                    /\ entries'[vouchers[i].ref].status # "posted"
                    /\ \A j \in VouchersOf(vouchers[i].ref) : vouchers'[j].status # "posted"
<1>1. CASE [Next]_vars /\ UNCHANGED desk
  <2>1. TypeInv'
    BY <1>1, TypeStep DEF DeskInv
  <2>2. AllPointRight' /\ Survive(vouchers, vouchers')
    BY <1>1, PointingStep DEF DeskInv
  <2>3. desk # DeskIdle => desk.v \in DOMAIN vouchers'
    BY <2>2 DEF DeskInv, Survive
  <2> QED BY <1>1, <2>1, <2>2, <2>3 DEF DeskInv, Survive, Stored
<1>2. ASSUME NEW op \in DeskOps, NEW v \in DOMAIN vouchers, DeskRead(op, v)
      PROVE  DeskInv' /\ UNCHANGED vouchers
  <2>1. PICK req : req = [op |-> op, v |-> v]
    OBVIOUS
  <2>2. op \in AllDeskOps /\ v \in Nat
    BY BackOfficeAssumption DEF BackOfficeAssumption, DeskInv, TypeInv, TypeOK, BooksTypeOK
  <2>3. req \in DeskReq /\ req.v = v
    BY <2>1, <2>2 DEF DeskReq
  <2>4. desk' = req /\ UNCHANGED vars
    BY <1>2, <2>1 DEF DeskRead
  <2>5. TypeInv'
    BY <2>4, TypeStep DEF DeskInv
  <2>6. UNCHANGED <<entries, vouchers>>
    BY <2>4 DEF vars
  <2>7. AllPointRight'
    BY <2>6, PointingQuiet DEF DeskInv
  <2> QED BY <2>3, <2>4, <2>5, <2>6, <2>7 DEF DeskInv
<1>3. CASE DeskFail
  <2>1. desk' = DeskIdle /\ UNCHANGED vars
    BY <1>3 DEF DeskFail, DeskFinish
  <2>2. TypeInv'
    BY <2>1, TypeStep DEF DeskInv
  <2>3. UNCHANGED <<entries, vouchers>>
    BY <2>1 DEF vars
  <2>4. AllPointRight'
    BY <2>3, PointingQuiet DEF DeskInv
  <2> QED BY <2>1, <2>2, <2>3, <2>4 DEF DeskInv, Stored
<1>4. CASE UNCHANGED allVars
  BY <1>1, <1>4 DEF allVars, vars
<1>5. CASE DeskStatus
  BY <1>5, DeskStatusStep DEF Stored
<1>6. CASE DeskRemove
  BY <1>6, DeskRemoveStep
<1> QED
  BY <1>1, <1>2, <1>3, <1>4, <1>5, <1>6 DEF DeskNext, Stored

LEMMA DeskInitial == DeskInit => DeskInv
<1> SUFFICES ASSUME DeskInit PROVE DeskInv
    OBVIOUS
<1>1. TypeInv
  BY TypeInit DEF DeskInit
<1>2. AllPointRight
  BY DEF DeskInit, Init, Blank, AllPointRight, PointsRight
<1> QED
  BY <1>1, <1>2 DEF DeskInit, DeskInv

\* The rows of both desks have their types in every reachable state.
THEOREM DeskTypeCorrect == DeskSpec => []DeskTypeOK
<1>1. DeskInv => DeskTypeOK
  BY DEF DeskInv, TypeInv, DeskTypeOK
<1>2. DeskInv /\ [DeskNext]_allVars => DeskInv'
  BY DeskStep
<1> QED
  BY <1>1, <1>2, DeskInitial, PTL DEF DeskSpec

\* However the requests of the two desks overlap, a posted entry points at one of its
\* vouchers, and that voucher was not deleted.
THEOREM PointersHold == DeskSpec => []NoDanglingPointer
<1>1. DeskInv => NoDanglingPointer
  BY PointingMeans DEF DeskInv
<1>2. DeskInv /\ [DeskNext]_allVars => DeskInv'
  BY DeskStep
<1> QED
  BY <1>1, <1>2, DeskInitial, PTL DEF DeskSpec

\* However the requests of the two desks overlap, the deletion of any voucher of an entry
\* leaves the entry unposted and none of its vouchers posted.
THEOREM DeletionTakesAll == DeskSpec => DeletionIsComplete
<1> DEFINE Whole ==
      \A v \in DOMAIN vouchers : Stored(v) /\ vouchers'[v].status = "deleted" =>
          /\ entries'[vouchers[v].ref].status # "posted"
          /\ \A i \in VouchersOf(vouchers[v].ref) : vouchers'[i].status # "posted"
<1>1. DeskInv /\ [DeskNext]_allVars => DeskInv' /\ Whole
  BY DeskStep
<1> HIDE DEF Whole
<1>2. DeskSpec => [][Whole]_allVars
  BY <1>1, DeskInitial, PTL DEF DeskSpec
<1> QED
  BY <1>2 DEF DeletionIsComplete, Whole

\* A deletion at the voucher desk raises no amount paid and changes no total, whatever an
\* open transaction of the payment desk has read.
LEMMA DeskPaidStep ==
    ASSUME DeskInv, PaidInv, [DeskNext]_allVars
    PROVE  PaidInv'
<1>1. CASE [Next]_vars
  BY <1>1, PaidStep DEF DeskInv
<1>2. CASE UNCHANGED <<docs, reqs>>
  BY <1>2 DEF PaidInv, PaidWithinTotal, Bounded
<1>3. CASE DeskRemove
  <2>1. PICK reversed \in SUBSET Entries : reversed = ReversedBy(desk.v)
    BY DEF ReversedBy
  <2>2. PICK applied : applied = [d \in Docs |-> SumFunction([e \in reversed |-> entries[e].alloc[d]])]
    OBVIOUS
  <2>3. applied \in [Docs -> Nat]
    BY <2>2, AppliedTyped DEF DeskInv
  <2>4. docs' = Released(docs, applied) /\ UNCHANGED reqs
    BY <1>3, <2>1, <2>2 DEF DeskRemove
  <2>5. docs \in [Docs -> Doc]
    BY DEF DeskInv, TypeInv, TypeOK, BooksTypeOK
  <2>6. \A d \in Docs : /\ docs'[d].grand = docs[d].grand
                        /\ docs'[d].paid = docs[d].paid \/ docs'[d].paid <= docs[d].paid
                        /\ docs'[d] \in Doc
    BY <2>3, <2>4, <2>5, ReleasedTyped
  <2>7. \A d \in Docs : docs[d].paid \in Nat /\ docs[d].grand \in Nat
                        /\ docs'[d].paid \in Nat
    BY <2>5, <2>6 DEF Doc
  <2>8. \A d \in Docs : docs'[d].paid <= docs'[d].grand
    BY <2>6, <2>7 DEF PaidInv, PaidWithinTotal
  <2> QED BY <2>4, <2>6, <2>8 DEF PaidInv, PaidWithinTotal, Bounded
<1> QED
  BY <1>1, <1>2, <1>3 DEF DeskNext, DeskRead, DeskStatus, DeskFail, allVars, vars

\* With both desks at work, no document is paid beyond its total.
THEOREM NeitherDeskOverCollects == DeskSpec => []PaidWithinTotal
<1> DEFINE IInv == DeskInv /\ PaidInv
<1>1. DeskInit => IInv
  BY DeskInitial, PaidInit DEF DeskInit
<1>2. IInv /\ [DeskNext]_allVars => IInv'
  BY DeskStep, DeskPaidStep
<1>3. IInv => PaidWithinTotal
  BY DEF PaidInv
<1> HIDE DEF IInv
<1> QED
  BY <1>1, <1>2, <1>3, PTL DEF DeskSpec

-------------------------------------------------------------------------------
(* The reports tell a customer one balance.                                 *)

\* What the vouchers of a row leave on the account of customer or supplier a.
Owes(row, a) ==
    IF row.status = "posted" /\ row.cheque # "BOUNCED" /\ row.party = a
    THEN IF IsReceipt(row) THEN 0 - row.amount ELSE row.amount
    ELSE 0

\* The money of an entry is booked on an account of the house, it is allocated to
\* documents of its own party, and its vouchers say what it owes.
OwnRow(row) ==
    /\ row.main \in Holdings
    /\ \A d \in Docs : row.alloc[d] > 0 => DocParty[d] = row.party

Owing(row, e, vs) == OwnRow(row) /\ \A a \in Parties : Trace(vs, e, a) = Owes(row, a)

AllOwing == \A e \in Entries : Owing(entries[e], e, vouchers)

\* A document is flagged as paid when nothing is left to collect.
FlagOK(doc) == doc.flag = "paid" => doc.paid >= doc.grand - doc.returned

FlagsHold == \A d \in Docs : FlagOK(docs[d])

\* Requests are of the operations that clients ask for; an edit names an account of the
\* house and leaves an allocated entry with its party; the documents a transaction has read
\* had the same total and no more returns than now.
InOrder(req) ==
    /\ req.stage \in {"checked", "tx"} =>
          /\ req.op \in Ops \cup {"post"}
          /\ req.op = "edit" => /\ req.arg.main \in Holdings
                                /\ req.arg.party # req.row.party => Allocated(req.row) = {}
    /\ req.stage = "tx" =>
          \A d \in Docs : /\ req.seen[d].grand = docs[d].grand
                          /\ req.seen[d].returned <= docs[d].returned

AllInOrder == \A p \in Procs : InOrder(reqs[p])

\* Documents are stored with the flag their amounts call for; nobody is named as an account
\* of the house, and no cheque is endorsed (an endorsement books the party once more).
PlainDesk ==
    /\ \A doc \in InitialDocs : doc.paid = 0 /\ FlagOK(doc)
    /\ Parties \cap Holdings = {}
    /\ "endorse" \notin Ops

LEMMA OwesTyped == \A row \in Entry : \A a : Owes(row, a) \in Int
<1> SUFFICES ASSUME NEW row \in Entry, NEW a PROVE Owes(row, a) \in Int
    OBVIOUS
<1>1. row.amount \in Nat
  BY Amounts1 DEF Entry
<1> QED BY <1>1 DEF Owes

\* The step books voucher v for entry e, which is posted before or after it.
LEMMA OwingBook ==
    ASSUME TypeInv, AllOwing, NEW e \in Entries, NEW new, OwnRow(new),
           entries' = [entries EXCEPT ![e] = new], NEW v \in Voucher, v.ref = e,
           v.status = "posted", vouchers' = Append(vouchers, v),
           \A a \in Parties : Owes(new, a) = Owes(entries[e], a) + Moved(v, a)
    PROVE  AllOwing'
<1> SUFFICES ASSUME NEW f \in Entries PROVE Owing(entries'[f], f, vouchers')
    BY DEF AllOwing
<1>1. vouchers \in Seq(Voucher) /\ entries \in [Entries -> Entry]
  BY DEF TypeInv, TypeOK, BooksTypeOK
<1>2. Owing(entries[f], f, vouchers) /\ Owing(entries[e], e, vouchers)
  BY DEF AllOwing
<1>3. CASE f = e
  <2>1. \A a \in Parties : Trace(Append(vouchers, v), e, a) = Trace(vouchers, e, a) + Moved(v, a)
    BY HeldAppend
  <2>2. \A a \in Parties : Trace(Append(vouchers, v), e, a) = Owes(new, a)
    BY <1>2, <2>1 DEF Owing
  <2> QED BY <1>1, <1>3, <2>2 DEF Owing
<1>4. CASE f # e
  <2>1. ASSUME NEW a PROVE Trace(Append(vouchers, v), f, a) = Trace(vouchers, f, a)
    <3>1. Trace(vouchers, f, a) \in Int
      BY <1>1, TraceTyped
    <3>2. Trace(Append(vouchers, v), f, a) = Trace(vouchers, f, a) + 0
      BY <1>1, <1>4, TraceAppend
    <3> QED BY <3>1, <3>2
  <2> QED BY <1>1, <1>2, <1>4, <2>1 DEF Owing
<1> QED
  BY <1>3, <1>4

\* The step writes entry e, which is not posted afterwards; the others keep their traces.
LEMMA OwingWrite ==
    ASSUME TypeInv, AllConsistent', AllOwing, NEW e \in Entries, NEW new, OwnRow(new),
           entries' = [entries EXCEPT ![e] = new], new.status # "posted",
           \A f \in Entries \ {e} : \A a : Trace(vouchers', f, a) = Trace(vouchers, f, a)
    PROVE  AllOwing'
<1> SUFFICES ASSUME NEW f \in Entries PROVE Owing(entries'[f], f, vouchers')
    BY DEF AllOwing
<1>1. entries \in [Entries -> Entry]
  BY DEF TypeInv, TypeOK, BooksTypeOK
<1>2. CASE f = e
  <2>1. entries'[f] = new /\ Consistent(entries'[f], f, vouchers')
    BY <1>1, <1>2 DEF AllConsistent
  <2>2. \A a : Trace(vouchers', f, a) = 0
    BY <2>1 DEF Consistent
  <2> QED BY <2>1, <2>2 DEF Owing, Owes
<1>3. CASE f # e
  <2>1. entries'[f] = entries[f] /\ Owing(entries[f], f, vouchers)
    BY <1>1, <1>3 DEF AllOwing
  <2> QED BY <1>3, <2>1 DEF Owing
<1> QED
  BY <1>2, <1>3

LEMMA OwingPost ==
    ASSUME PlainDesk, TypeInv, AllCurrent, AllConsistent, AllOwing, NEW p \in Procs,
           PostCommit(p)
    PROVE  AllOwing'
<1>1. PICK e \in Entries : e = reqs[p].e
  BY Committed DEF PostCommit
<1>2. PICK row \in Entry : row = entries[e]
  BY DEF TypeInv, TypeOK, BooksTypeOK
<1>3. reqs[p].row = row /\ row.status = "pending"
  BY <1>1, <1>2, Committed DEF PostCommit, Guarded
<1>4. OwnRow(row) /\ row.cheque \in {"none", "PENDING"}
  BY <1>2, <1>3 DEF AllOwing, Owing, AllConsistent, Consistent
<1>5. PICK account \in Holdings : account = PostAccount(row)
  BY <1>4 DEF OwnRow, PostAccount, Holdings
<1>6. PICK dr, cr : /\ vouchers' = Booked(e, "post", dr, cr, row.amount)
                    /\ IsReceipt(row) => dr = account /\ cr = row.party
                    /\ ~IsReceipt(row) => dr = row.party /\ cr = account
  <2>1. CASE IsReceipt(row)
    BY <1>1, <1>3, <1>5, <2>1 DEF PostCommit
  <2>2. CASE ~IsReceipt(row)
    BY <1>1, <1>3, <1>5, <2>2 DEF PostCommit
  <2> QED BY <2>1, <2>2
<1>7. PICK v \in Voucher : /\ vouchers' = Append(vouchers, v) /\ v.ref = e
                           /\ v.dr = dr /\ v.cr = cr
                           /\ v.amount = row.amount /\ v.status = "posted"
  <2>1. row.amount \in Amounts /\ row.party \in Accounts /\ account \in Accounts
    BY DEF Entry, Accounts
  <2> QED BY <1>6, <2>1, BookedVoucher
<1>8. PICK main, cheque :
         /\ main = (IF IsPdc(row) THEN account ELSE row.main)
         /\ cheque = IF IsPdc(row) THEN "IN_HAND"
                     ELSE IF row.method = "CHEQUE" THEN "CLEARED" ELSE row.cheque
  OBVIOUS
<1>9. PICK new : new = PostedRow(row, Len(vouchers) + 1, main, cheque)
  OBVIOUS
<1>10. entries' = [entries EXCEPT ![e] = new]
  BY <1>1, <1>2, <1>3, <1>5, <1>8, <1>9 DEF PostCommit, PostedRow, TypeInv, TypeOK, BooksTypeOK
<1>11. /\ new.status = "posted" /\ new.amount = row.amount /\ new.party = row.party
       /\ new.main = main /\ new.cheque = cheque /\ new.alloc = row.alloc
       /\ IsReceipt(new) = IsReceipt(row)
  BY <1>9 DEF PostedRow, Entry, IsReceipt
<1>12. OwnRow(new)
  BY <1>4, <1>8, <1>11 DEF OwnRow
<1>13. cheque # "BOUNCED"
  BY <1>4, <1>8
<1>14. row.amount \in Nat /\ \A a \in Parties : a # account
  BY Amounts1 DEF Entry, PlainDesk
<1>15. ASSUME NEW a \in Parties PROVE Owes(new, a) = Owes(row, a) + Moved(v, a)
  <2>1. Owes(row, a) = 0
    BY <1>3 DEF Owes
  <2>2. Moved(v, a) = Owes(new, a) /\ Moved(v, a) \in Int
    <3>1. CASE IsReceipt(row)
      BY <1>6, <1>7, <1>11, <1>13, <1>14, <3>1 DEF Moved, Owes
    <3>2. CASE ~IsReceipt(row)
      BY <1>6, <1>7, <1>11, <1>13, <1>14, <3>2 DEF Moved, Owes
    <3> QED BY <3>1, <3>2
  <2> QED BY <2>1, <2>2
<1> QED
  BY <1>2, <1>7, <1>10, <1>12, <1>15, OwingBook

\* Clearing moves the money between accounts of the house.
LEMMA OwingDeposit ==
    ASSUME PlainDesk, TypeInv, AllCurrent, AllOwing, NEW p \in Procs, DepositCommit(p)
    PROVE  AllOwing'
<1>1. PICK e \in Entries : e = reqs[p].e
  BY Committed DEF DepositCommit
<1>2. PICK row \in Entry : row = entries[e]
  BY DEF TypeInv, TypeOK, BooksTypeOK
<1>3. reqs[p].row = row /\ row.status = "posted" /\ row.cheque # "BOUNCED"
  BY <1>1, <1>2, Committed DEF DepositCommit, Guarded, Depositable
<1>4. OwnRow(row)
  BY <1>2 DEF AllOwing, Owing
<1>5. PICK dr \in Holdings, cr \in Holdings : vouchers' = Booked(e, "clear", dr, cr, row.amount)
  <2>1. CASE IsReceipt(row)
    BY <1>1, <1>3, <2>1 DEF DepositCommit, Holdings
  <2>2. CASE ~IsReceipt(row)
    <3>1. row.main \in Holdings /\ "bank" \in Holdings
      BY <1>4 DEF OwnRow, Holdings
    <3> QED BY <1>1, <1>3, <2>2, <3>1 DEF DepositCommit
  <2> QED BY <2>1, <2>2
<1>6. PICK v \in Voucher : /\ vouchers' = Append(vouchers, v) /\ v.ref = e
                           /\ v.dr = dr /\ v.cr = cr /\ v.status = "posted"
  <2>1. row.amount \in Amounts /\ dr \in Accounts /\ cr \in Accounts
    BY DEF Entry, Accounts
  <2> QED BY <1>5, <2>1, BookedVoucher
<1>7. PICK cheque : cheque = IF IsReceipt(row) THEN "DEPOSITED" ELSE "CLEARED"
  OBVIOUS
<1>8. PICK new : new = [row EXCEPT !.cheque = cheque]
  OBVIOUS
<1>9. entries' = [entries EXCEPT ![e] = new]
  BY <1>1, <1>2, <1>3, <1>7, <1>8 DEF DepositCommit, TypeInv, TypeOK, BooksTypeOK
<1>10. /\ new.status = "posted" /\ new.amount = row.amount /\ new.party = row.party
       /\ new.main = row.main /\ new.cheque # "BOUNCED" /\ new.alloc = row.alloc
       /\ IsReceipt(new) = IsReceipt(row)
  BY <1>3, <1>7, <1>8 DEF Entry, IsReceipt
<1>11. OwnRow(new)
  BY <1>4, <1>10 DEF OwnRow
<1>12. ASSUME NEW a \in Parties PROVE Owes(new, a) = Owes(row, a) + Moved(v, a)
  <2>1. Moved(v, a) = 0
    <3>1. a # dr /\ a # cr
      BY DEF PlainDesk
    <3> QED BY <1>6, <3>1 DEF Moved
  <2>2. Owes(new, a) = Owes(row, a)
    BY <1>3, <1>10 DEF Owes
  <2>3. Owes(row, a) \in Int
    BY OwesTyped
  <2> QED BY <2>1, <2>2, <2>3
<1> QED
  BY <1>2, <1>6, <1>9, <1>11, <1>12, OwingBook

\* A bounced cheque gives the party back what it was credited or debited.
LEMMA OwingBounce ==
    ASSUME PlainDesk, TypeInv, AllCurrent, AllConsistent, AllOwing, NEW p \in Procs,
           BounceCommit(p)
    PROVE  AllOwing'
<1>1. PICK e \in Entries : e = reqs[p].e
  BY Committed DEF BounceCommit
<1>2. PICK row \in Entry : row = entries[e]
  BY DEF TypeInv, TypeOK, BooksTypeOK
<1>3. reqs[p].row = row /\ row.cheque = "IN_HAND"
  BY <1>1, <1>2, Committed DEF BounceCommit, Guarded, Bounceable
<1>4. row.status = "posted" /\ OwnRow(row)
  BY <1>2, <1>3 DEF AllConsistent, Consistent, AllOwing, Owing
<1>5. PICK new : new = [row EXCEPT !.cheque = "BOUNCED", !.alloc = NoAllocation]
  OBVIOUS
<1>6. entries' = [entries EXCEPT ![e] = new]
  BY <1>1, <1>2, <1>5 DEF BounceCommit
<1>7. PICK house, dr, cr :
         /\ house \in Holdings
         /\ vouchers' = Booked(e, "bounce", dr, cr, row.amount)
         /\ IsReceipt(row) => dr = row.party /\ cr = house
         /\ ~IsReceipt(row) => dr = house /\ cr = row.party
  <2>1. CASE IsReceipt(row)
    <3>1. "pdc" \in Holdings
      BY DEF Holdings
    <3> QED BY <1>1, <1>3, <2>1, <3>1 DEF BounceCommit
  <2>2. CASE ~IsReceipt(row)
    <3>1. row.main \in Holdings
      BY <1>4 DEF OwnRow
    <3> QED BY <1>1, <1>3, <2>2, <3>1 DEF BounceCommit
  <2> QED BY <2>1, <2>2
<1>8. PICK v \in Voucher : /\ vouchers' = Append(vouchers, v) /\ v.ref = e
                           /\ v.dr = dr /\ v.cr = cr
                           /\ v.amount = row.amount /\ v.status = "posted"
  <2>1. row.amount \in Amounts /\ dr \in Accounts /\ cr \in Accounts
    BY <1>7 DEF Entry, Accounts
  <2> QED BY <1>7, <2>1, BookedVoucher
<1>9. /\ new.cheque = "BOUNCED" /\ new.party = row.party /\ new.main = row.main
      /\ new.alloc = NoAllocation
  BY <1>5 DEF Entry
<1>10. OwnRow(new)
  BY <1>4, <1>9 DEF OwnRow, NoAllocation
<1>11. row.amount \in Nat /\ \A a \in Parties : a # house
  BY <1>7, Amounts1 DEF Entry, PlainDesk
<1>12. ASSUME NEW a \in Parties PROVE Owes(new, a) = Owes(row, a) + Moved(v, a)
  <2>1. Owes(new, a) = 0
    BY <1>9 DEF Owes
  <2>2. Owes(row, a) + Moved(v, a) = 0
    <3>1. CASE IsReceipt(row)
      BY <1>3, <1>4, <1>7, <1>8, <1>11, <3>1 DEF Moved, Owes
    <3>2. CASE ~IsReceipt(row)
      BY <1>3, <1>4, <1>7, <1>8, <1>11, <3>2 DEF Moved, Owes
    <3> QED BY <3>1, <3>2
  <2> QED BY <2>1, <2>2
<1> QED
  BY <1>2, <1>6, <1>8, <1>10, <1>12, OwingBook

LEMMA OwingRemove ==
    ASSUME TypeInv, AllCurrent, AllConsistent, AllConsistent', AllOwing, NEW p \in Procs,
           RemoveCommit(p)
    PROVE  AllOwing'
<1>1. PICK e \in Entries : e = reqs[p].e
  BY Committed DEF RemoveCommit
<1>2. PICK row \in Entry : row = entries[e]
  BY DEF TypeInv, TypeOK, BooksTypeOK
<1>3. reqs[p].row = row /\ vouchers \in Seq(Voucher)
  BY <1>1, <1>2, Committed DEF RemoveCommit, TypeInv, TypeOK, BooksTypeOK
<1>4. PICK new : new = [Blank EXCEPT !.status = "deleted"]
  OBVIOUS
<1>5. entries' = [entries EXCEPT ![e] = new] /\ new.status # "posted" /\ OwnRow(new)
  BY <1>1, <1>4 DEF RemoveCommit, Blank, OwnRow, NoAllocation, Holdings
<1>6. ASSUME NEW f \in Entries \ {e}, NEW a PROVE Trace(vouchers', f, a) = Trace(vouchers, f, a)
  <2>1. CASE row.status = "posted"
    <3>1. row.voucher \in VouchersOf(e)
      BY <1>2, <2>1 DEF AllConsistent, Consistent, Points, RefsTo, VouchersOf
    <3>2. VouchersOf(e) \cup {row.voucher} = VouchersOf(e)
      BY <3>1
    <3>3. vouchers' = Cancelled(VouchersOf(e))
      BY <1>1, <1>3, <2>1, <3>2 DEF RemoveCommit
    <3> QED BY <1>3, <3>3, TraceCancelled
  <2>2. CASE row.status # "posted"
    BY <1>3, <2>2 DEF RemoveCommit
  <2> QED BY <2>1, <2>2
<1> QED
  BY <1>5, <1>6, OwingWrite

\* What an edit writes stays on an account of the house and with the documents' party.
LEMMA OwnEdited ==
    ASSUME TypeInv, NEW e \in Entries, OwnRow(entries[e]), NEW arg \in Edit,
           arg.main \in Holdings,
           arg.party # entries[e].party => Allocated(entries[e]) = {},
           NEW new, new.main = arg.main, new.party = arg.party,
           new.alloc = entries[e].alloc
    PROVE  OwnRow(new)
BY DEF OwnRow, Allocated

LEMMA OwingReverse ==
    ASSUME TypeInv, AllCurrent, AllConsistent, AllConsistent', AllOwing, AllInOrder,
           NEW p \in Procs, ReverseCommit(p)
    PROVE  AllOwing'
<1>1. PICK e \in Entries : e = reqs[p].e
  BY Committed DEF ReverseCommit
<1>2. PICK row \in Entry : row = entries[e]
  BY DEF TypeInv, TypeOK, BooksTypeOK
<1>3. /\ reqs[p].row = row /\ Editable(row)
      /\ ReqOK(reqs[p], Len(vouchers)) /\ reqs[p].stage = "tx" /\ reqs[p].op = "edit"
      /\ row.status \in {"pending", "posted", "cancelled"}
  BY <1>1, <1>2, Committed DEF ReverseCommit, Guarded, Committing
<1>4. PICK arg \in Edit : arg = reqs[p].arg
  BY <1>3 DEF ReqOK
<1>5. arg.main \in Holdings /\ (arg.party # row.party => Allocated(row) = {})
  BY <1>3, <1>4 DEF AllInOrder, InOrder
<1>6. row.status = "posted"
  BY <1>3 DEF ReqOK, SingleWrite, Editable
<1>7. vouchers \in Seq(Voucher) /\ Consistent(row, e, vouchers)
  BY <1>2 DEF AllConsistent, TypeInv, TypeOK, BooksTypeOK
<1>8. PICK original \in Voucher : original = vouchers[row.voucher]
  BY <1>6, <1>7, Appended DEF Consistent, Points, RefsTo
<1>9. PICK v \in Voucher : vouchers' = Append(vouchers, v) /\ v.ref = e
  <2>1. vouchers' = Booked(e, "reversal", original.cr, original.dr, original.amount)
    BY <1>1, <1>3, <1>8 DEF ReverseCommit
  <2>2. original.cr \in Accounts /\ original.dr \in Accounts /\ original.amount \in Amounts
    BY DEF Voucher
  <2> QED BY <2>1, <2>2, BookedVoucher
<1>10. PICK new : new = [Overwritten(e, arg) EXCEPT !.status = "pending", !.voucher = 0,
                                                    !.cheque = "none"]
  OBVIOUS
<1>11. entries' = [entries EXCEPT ![e] = new]
  BY <1>1, <1>4, <1>10 DEF ReverseCommit
<1>12. /\ new.status = "pending" /\ new.main = arg.main /\ new.party = arg.party
       /\ new.alloc = row.alloc
  BY <1>2, <1>10 DEF Overwritten, Entry
<1>13. OwnRow(row)
  BY <1>2 DEF AllOwing, Owing
<1>14. OwnRow(new)
  BY <1>2, <1>5, <1>12, <1>13, OwnEdited
<1>15. ASSUME NEW f \in Entries \ {e}, NEW a PROVE Trace(vouchers', f, a) = Trace(vouchers, f, a)
  <2>1. Trace(vouchers, f, a) \in Int
    BY <1>7, TraceTyped
  <2>2. Trace(Append(vouchers, v), f, a) = Trace(vouchers, f, a) + 0
    BY <1>7, <1>9, TraceAppend
  <2> QED BY <1>9, <2>1, <2>2
<1> QED
  BY <1>11, <1>12, <1>14, <1>15, OwingWrite

LEMMA OwingSingle ==
    ASSUME TypeInv, AllCurrent, AllConsistent', AllOwing, AllInOrder, NEW p \in Procs,
           EditCommit(p) \/ CancelCommit(p)
    PROVE  AllOwing'
<1>1. Current(reqs[p]) /\ reqs[p].stage = "checked"
  BY DEF AllCurrent, EditCommit, CancelCommit
<1>2. PICK e \in Entries : e = reqs[p].e
  BY <1>1, Requests DEF TypeInv, TypeOK, Checked
<1>3. PICK row \in Entry : row = entries[e]
  BY DEF TypeInv, TypeOK, BooksTypeOK
<1>4. reqs[p].row = row /\ row.status = "pending" /\ UNCHANGED vouchers
  BY <1>1, <1>2, <1>3 DEF Current, Guarded, EditCommit, CancelCommit, SingleWrite
<1>5. OwnRow(row)
  BY <1>3 DEF AllOwing, Owing
<1>6. PICK new : entries' = [entries EXCEPT ![e] = new] /\ new.status # "posted" /\ OwnRow(new)
  <2>1. CASE EditCommit(p)
    <3>1. PICK arg \in Edit : arg = reqs[p].arg
      BY <1>1, <2>1 DEF EditCommit, TypeInv, ReqOK
    <3>2. arg.main \in Holdings /\ (arg.party # row.party => Allocated(row) = {})
      BY <1>1, <1>4, <2>1, <3>1 DEF AllInOrder, InOrder, EditCommit
    <3>3. PICK new : new = Overwritten(e, arg)
      OBVIOUS
    <3>4. /\ new.status = "pending" /\ new.main = arg.main /\ new.party = arg.party
          /\ new.alloc = row.alloc
      BY <1>3, <1>4, <3>3 DEF Overwritten, Entry
    <3>5. OwnRow(new)
      BY <1>3, <1>5, <3>2, <3>4, OwnEdited
    <3>6. entries' = [entries EXCEPT ![e] = new]
      BY <1>2, <2>1, <3>1, <3>3 DEF EditCommit
    <3> QED BY <3>4, <3>5, <3>6
  <2>2. CASE CancelCommit(p)
    <3>1. PICK new : new = [row EXCEPT !.status = "cancelled"]
      OBVIOUS
    <3>2. /\ new.status = "cancelled" /\ new.main = row.main /\ new.party = row.party
          /\ new.alloc = row.alloc
      BY <3>1 DEF Entry
    <3>3. OwnRow(new)
      BY <1>5, <3>2 DEF OwnRow
    <3>4. entries' = [entries EXCEPT ![e] = new]
      BY <1>2, <1>3, <2>2, <3>1 DEF CancelCommit
    <3> QED BY <3>2, <3>3, <3>4
  <2> QED BY <2>1, <2>2
<1> QED
  BY <1>4, <1>6, OwingWrite

LEMMA OwingCreate ==
    ASSUME TypeInv, AllConsistent', AllOwing, NEW e \in Entries, NEW kind \in Kinds,
           NEW party \in Parties, NEW amount \in Amounts,
           NEW alloc \in [Docs -> 0 .. MaxAmount], Create(e, kind, party, amount, alloc)
    PROVE  AllOwing'
<1>1. PICK isPdc : isPdc = (kind.method = "CHEQUE" /\ kind.pdc)
  OBVIOUS
<1>2. PICK new :
         new = [status |-> "pending", type |-> kind.type, method |-> kind.method,
                pdc |-> kind.pdc, cheque |-> IF isPdc THEN "PENDING" ELSE "none",
                party |-> party,
                main |-> IF ~isPdc THEN "cash"
                         ELSE IF kind.type = "RECEIPT" THEN "pdc" ELSE "issued",
                amount |-> amount, alloc |-> alloc, voucher |-> 0]
  OBVIOUS
<1>3. entries' = [entries EXCEPT ![e] = new] /\ UNCHANGED vouchers
  BY <1>1, <1>2 DEF Create
<1>4. \A d \in Docs : alloc[d] > 0 => DocParty[d] = party
  BY DEF Create
<1>5. new.status = "pending" /\ new.party = party /\ new.alloc = alloc /\ new.main \in Holdings
  BY <1>2 DEF Holdings
<1>6. OwnRow(new)
  BY <1>4, <1>5 DEF OwnRow
<1> QED
  BY <1>3, <1>5, <1>6, OwingWrite

LEMMA OwingStep ==
    ASSUME PlainDesk, TypeInv, AllCurrent, AllConsistent, AllConsistent', AllInOrder,
           AllOwing, [Next]_vars
    PROVE  AllOwing'
<1>1. ASSUME UNCHANGED <<entries, vouchers>> PROVE AllOwing'
  BY <1>1 DEF AllOwing
<1>2. ASSUME NEW p \in Procs, NEW e \in Entries,
             \/ PostRead(p, e) \/ DepositRead(p, e) \/ BounceRead(p, e)
             \/ \E payee \in Parties : EndorseRead(p, e, payee)
             \/ CancelRead(p, e) \/ RemoveRead(p, e) \/ EditRead(p, e)
      PROVE  AllOwing'
  BY <1>1, <1>2 DEF PostRead, DepositRead, BounceRead, EndorseRead, CancelRead,
                    RemoveRead, EditRead, Checks, books
<1>3. ASSUME NEW p \in Procs, Begin(p) \/ RepostRead(p) \/ Fail(p) PROVE AllOwing'
  BY <1>1, <1>3 DEF Begin, RepostRead, Fail, books
<1>4. ASSUME NEW p \in Procs PROVE ~EndorseCommit(p)
  BY DEF EndorseCommit, Committing, AllInOrder, InOrder, PlainDesk
<1>5. ASSUME NEW p \in Procs,
             \/ PostCommit(p) \/ DepositCommit(p) \/ BounceCommit(p)
             \/ EndorseCommit(p) \/ RemoveCommit(p) \/ CancelCommit(p)
             \/ EditCommit(p) \/ ReverseCommit(p)
      PROVE  AllOwing'
  BY <1>4, <1>5, OwingPost, OwingDeposit, OwingBounce, OwingRemove, OwingReverse, OwingSingle
<1>6. ASSUME NEW e \in Entries, NEW kind \in Kinds, NEW party \in Parties,
             NEW amount \in Amounts, NEW alloc \in [Docs -> 0 .. MaxAmount],
             Create(e, kind, party, amount, alloc)
      PROVE  AllOwing'
  BY <1>6, OwingCreate
<1>7. CASE (\E d \in Docs, amount \in Amounts : PostReturn(d, amount)) \/ SetLock
           \/ UNCHANGED vars
  BY <1>1, <1>7 DEF PostReturn, SetLock, vars
<1> QED
  BY <1>2, <1>3, <1>5, <1>6, <1>7 DEF Next

\* The desk changes neither the total nor the returns of a document; returns grow.
LEMMA DocsGrow ==
    ASSUME TypeInv, TypeInv', AllCurrent, AllConsistent, Accounted, AllFresh, [Next]_vars,
           NEW d \in Docs
    PROVE  docs'[d].grand = docs[d].grand /\ docs[d].returned <= docs'[d].returned
<1>1. docs \in [Docs -> Doc]
  BY DEF TypeInv, TypeOK, BooksTypeOK
<1>2. docs[d].returned \in Nat
  BY <1>1 DEF Doc
<1> DEFINE Goal == docs'[d].grand = docs[d].grand /\ docs[d].returned <= docs'[d].returned
<1>3. ASSUME UNCHANGED docs PROVE Goal
  BY <1>2, <1>3
<1>4. ASSUME NEW p \in Procs, NEW e \in Entries,
             \/ PostRead(p, e) \/ DepositRead(p, e) \/ BounceRead(p, e)
             \/ \E payee \in Parties : EndorseRead(p, e, payee)
             \/ CancelRead(p, e) \/ RemoveRead(p, e) \/ EditRead(p, e)
      PROVE  Goal
  BY <1>3, <1>4 DEF PostRead, DepositRead, BounceRead, EndorseRead, CancelRead,
              RemoveRead, EditRead, Checks, books
<1>5. ASSUME NEW p \in Procs, Begin(p) \/ RepostRead(p) \/ Fail(p) PROVE Goal
  BY <1>3, <1>5 DEF Begin, RepostRead, Fail, books
<1>6. ASSUME NEW p \in Procs,
             \/ PostCommit(p) \/ DepositCommit(p) \/ BounceCommit(p)
             \/ EndorseCommit(p) \/ RemoveCommit(p) \/ CancelCommit(p)
             \/ EditCommit(p) \/ ReverseCommit(p)
      PROVE  Goal
  <2>1. Resettling(p)
    BY <1>6, CommitSettles
  <2> QED BY <1>2, <2>1 DEF Resettling, Resettles
<1>7. ASSUME NEW x \in Docs, NEW amount \in Amounts, PostReturn(x, amount) PROVE Goal
  <2>1. amount \in Nat /\ docs[x].returned \in Nat
    BY <1>1, Amounts1 DEF Doc
  <2>2. PICK new : new = [docs[x] EXCEPT !.returned = @ + amount]
    OBVIOUS
  <2>3. new.grand = docs[x].grand /\ new.returned = docs[x].returned + amount
    BY <1>1, <2>2 DEF Doc
  <2>4. docs' = [docs EXCEPT ![x] = new]
    BY <1>7, <2>2 DEF PostReturn
  <2>5. docs'[d] = IF d = x THEN new ELSE docs[d]
    BY <1>1, <2>4
  <2>6. CASE d = x
    BY <2>1, <2>3, <2>5, <2>6
  <2>7. CASE d # x
    BY <1>2, <2>5, <2>7
  <2> QED BY <2>6, <2>7
<1>8. ASSUME \/ (\E e \in Entries, kind \in Kinds, party \in Parties, amount \in Amounts,
                   alloc \in [Docs -> 0 .. MaxAmount] : Create(e, kind, party, amount, alloc))
             \/ SetLock \/ UNCHANGED vars
      PROVE  Goal
  BY <1>3, <1>8 DEF Create, SetLock, vars
<1> HIDE DEF Goal
<1>9. ASSUME Next PROVE Goal
  BY <1>4, <1>5, <1>6, <1>7, <1>8, <1>9 DEF Next
<1>10. Goal
  BY <1>8, <1>9
<1> QED BY <1>10 DEF Goal

\* A request that does not move stays in order while returns are posted.
LEMMA InOrderStays ==
    ASSUME TypeInv, TypeInv', AllInOrder, NEW q \in Procs, reqs'[q] = reqs[q],
           \A d \in Docs : /\ docs'[d].grand = docs[d].grand
                           /\ docs[d].returned <= docs'[d].returned
    PROVE  InOrder(reqs[q])'
<1>1. PICK r : r = reqs[q] /\ InOrder(r)
  BY DEF AllInOrder
<1>2. r.stage = "tx" => r.seen \in [Docs -> Doc]
  BY <1>1, Requests DEF TypeInv, TypeOK, InTx
<1>3. \A d \in Docs : docs[d].returned \in Nat /\ docs'[d].returned \in Nat
  BY DEF TypeInv, TypeOK, BooksTypeOK, Doc
<1>4. ASSUME r.stage = "tx", NEW d \in Docs
      PROVE  r.seen[d].grand = docs'[d].grand /\ r.seen[d].returned <= docs'[d].returned
  <2>1. r.seen[d].returned \in Nat
    BY <1>2, <1>4 DEF Doc
  <2>2. r.seen[d].grand = docs[d].grand /\ r.seen[d].returned <= docs[d].returned
    BY <1>1, <1>4 DEF InOrder
  <2> QED BY <1>3, <2>1, <2>2
<1>5. InOrder(r)'
  BY <1>1, <1>4 DEF InOrder
<1> QED BY <1>1, <1>5

LEMMA InOrderNext ==
    ASSUME TypeInv, TypeInv', AllInOrder, NEW p \in Procs, NEW req, InOrder(req)',
           reqs' = [reqs EXCEPT ![p] = req],
           \A d \in Docs : /\ docs'[d].grand = docs[d].grand
                           /\ docs[d].returned <= docs'[d].returned
    PROVE  AllInOrder'
<1> SUFFICES ASSUME NEW q \in Procs PROVE InOrder(reqs[q])'
    BY DEF AllInOrder
<1>1. reqs'[q] = IF q = p THEN req ELSE reqs[q]
  BY DEF TypeInv, TypeOK
<1>2. CASE q = p
  BY <1>1, <1>2 DEF InOrder
<1>3. CASE q # p
  BY <1>1, <1>3, InOrderStays
<1> QED BY <1>2, <1>3

LEMMA InOrderStep ==
    ASSUME TypeInv, TypeInv', AllCurrent, AllConsistent, Accounted, AllFresh, AllOwing,
           AllInOrder,
           [Next]_vars
    PROVE  AllInOrder'
<1>12. \A d \in Docs : docs'[d].grand = docs[d].grand /\ docs[d].returned <= docs'[d].returned
  BY DocsGrow
<1>1. ASSUME UNCHANGED reqs PROVE AllInOrder'
  BY <1>12, <1>1, InOrderStays DEF AllInOrder
<1>2. ASSUME NEW p \in Procs, Finish(p) PROVE AllInOrder'
  <2>1. InOrder(Idle)'
    BY DEF InOrder, Idle
  <2> QED BY <1>12, <1>2, <2>1, InOrderNext DEF Finish
<1>3. ASSUME NEW p \in Procs, NEW op, NEW e \in Entries, NEW arg, Checks(p, op, e, arg),
             op = "edit" => /\ arg.main \in Holdings
                            /\ arg.party # entries[e].party => Allocated(entries[e]) = {}
      PROVE  AllInOrder'
  <2>1. PICK req : req = [stage |-> "checked", op |-> op, e |-> e, row |-> entries[e],
                          arg |-> arg]
    OBVIOUS
  <2>2. reqs' = [reqs EXCEPT ![p] = req] /\ op \in Ops
    BY <1>3, <2>1 DEF Checks
  <2>3. InOrder(req)'
    BY <1>3, <2>1, <2>2 DEF InOrder
  <2> QED BY <1>12, <2>2, <2>3, InOrderNext
<1>4. ASSUME NEW p \in Procs, NEW e \in Entries, EditRead(p, e) PROVE AllInOrder'
  <2>1. PICK row \in Entry : row = entries[e]
    BY DEF TypeInv, TypeOK, BooksTypeOK
  <2>2. PICK amount, party, pdc, main :
           /\ main \in {row.main, "cash"}
           /\ party # row.party => Allocated(row) = {}
           /\ Checks(p, "edit", e, Edited(row, amount, party, pdc, main))
    BY <1>4, <2>1 DEF EditRead
  <2>3. PICK arg : arg = Edited(row, amount, party, pdc, main)
    OBVIOUS
  <2>4. row.main \in Holdings
    BY <2>1 DEF AllOwing, Owing, OwnRow
  <2>5. arg.party = party /\ arg.main \in Holdings
    BY <2>2, <2>3, <2>4 DEF Edited, Holdings
  <2> QED BY <1>3, <2>1, <2>2, <2>3, <2>5
<1>5. ASSUME NEW p \in Procs, NEW e \in Entries,
             \/ PostRead(p, e) \/ DepositRead(p, e) \/ BounceRead(p, e)
             \/ \E payee \in Parties : EndorseRead(p, e, payee)
             \/ CancelRead(p, e) \/ RemoveRead(p, e) \/ EditRead(p, e)
      PROVE  AllInOrder'
  <2>1. CASE PostRead(p, e) \/ DepositRead(p, e) \/ BounceRead(p, e)
    BY <1>3, <2>1 DEF PostRead, DepositRead, BounceRead
  <2>2. CASE \E payee \in Parties : EndorseRead(p, e, payee)
    BY <1>3, <2>2 DEF EndorseRead
  <2>3. CASE CancelRead(p, e) \/ RemoveRead(p, e)
    BY <1>3, <2>3 DEF CancelRead, RemoveRead
  <2> QED BY <1>4, <1>5, <2>1, <2>2, <2>3
<1>6. ASSUME NEW p \in Procs, Begin(p) PROVE AllInOrder'
  <2>1. PICK req : req = [stage |-> "tx", op |-> reqs[p].op, e |-> reqs[p].e,
                          row |-> reqs[p].row, arg |-> reqs[p].arg, seen |-> docs]
    OBVIOUS
  <2>2. reqs' = [reqs EXCEPT ![p] = req] /\ reqs[p].stage = "checked" /\ UNCHANGED docs
    BY <1>6, <2>1 DEF Begin, books
  <2>3. \A d \in Docs : docs[d].returned \in Nat
    BY DEF TypeInv, TypeOK, BooksTypeOK, Doc
  <2>4. InOrder(req)'
    BY <2>1, <2>2, <2>3 DEF AllInOrder, InOrder
  <2> QED BY <1>12, <2>2, <2>4, InOrderNext
<1>7. ASSUME NEW p \in Procs, RepostRead(p) PROVE AllInOrder'
  <2>1. PICK req : req = [stage |-> "checked", op |-> "post", e |-> reqs[p].e,
                          row |-> entries[reqs[p].e], arg |-> NoArg]
    OBVIOUS
  <2>2. reqs' = [reqs EXCEPT ![p] = req]
    BY <1>7, <2>1 DEF RepostRead
  <2>3. InOrder(req)'
    BY <2>1 DEF InOrder
  <2> QED BY <1>12, <2>2, <2>3, InOrderNext
<1>8. ASSUME NEW p \in Procs, ReverseCommit(p) PROVE AllInOrder'
  <2>1. PICK req : req = [stage |-> "repost", e |-> reqs[p].e]
    OBVIOUS
  <2>2. reqs' = [reqs EXCEPT ![p] = req] /\ InOrder(req)'
    BY <1>8, <2>1 DEF ReverseCommit, InOrder
  <2> QED BY <1>12, <2>2, InOrderNext
<1>9. ASSUME NEW p \in Procs,
             \/ PostCommit(p) \/ DepositCommit(p) \/ BounceCommit(p)
             \/ EndorseCommit(p) \/ RemoveCommit(p) \/ CancelCommit(p)
             \/ EditCommit(p) \/ Fail(p)
      PROVE  AllInOrder'
  BY <1>2, <1>9 DEF PostCommit, DepositCommit, BounceCommit, EndorseCommit, RemoveCommit,
                    CancelCommit, EditCommit, Fail
<1>10. CASE (\E e \in Entries, kind \in Kinds, party \in Parties, amount \in Amounts,
                alloc \in [Docs -> 0 .. MaxAmount] : Create(e, kind, party, amount, alloc))
            \/ (\E d \in Docs, amount \in Amounts : PostReturn(d, amount)) \/ SetLock
            \/ UNCHANGED vars
  BY <1>1, <1>10 DEF Create, PostReturn, SetLock, vars
<1> QED
  BY <1>5, <1>6, <1>7, <1>8, <1>9, <1>10 DEF Next

\* What a transaction writes on a document flags it by what is left to collect.
LEMMA FlagWritten ==
    ASSUME docs \in [Docs -> Doc], NEW d \in Docs, NEW seen \in Doc,
           seen.grand = docs[d].grand, seen.returned <= docs[d].returned, NEW paid \in Nat
    PROVE  FlagOK(WithPaid(d, seen, paid))
<1>1. PICK new : new = WithPaid(d, seen, paid)
  OBVIOUS
<1>2. /\ new.paid = paid /\ new.grand = docs[d].grand /\ new.returned = docs[d].returned
      /\ new.flag = PaymentStatus(seen, paid)
  BY <1>1 DEF WithPaid, Doc
<1>3. /\ seen.grand \in Nat /\ seen.returned \in Nat
      /\ docs[d].grand \in Nat /\ docs[d].returned \in Nat
  BY DEF Doc
<1>4. PaymentStatus(seen, paid) = "paid" => paid >= seen.grand - seen.returned
  BY <1>3 DEF PaymentStatus
<1>5. new.flag = "paid" => new.paid >= new.grand - new.returned
  BY <1>2, <1>3, <1>4
<1> QED BY <1>1, <1>5 DEF FlagOK

LEMMA FlagsStep ==
    ASSUME TypeInv, TypeInv', AllInOrder, FlagsHold, [Next]_vars
    PROVE  FlagsHold'
<1>1. docs \in [Docs -> Doc]
  BY DEF TypeInv, TypeOK, BooksTypeOK
<1>2. ASSUME UNCHANGED docs PROVE FlagsHold'
  BY <1>2 DEF FlagsHold
<1>3. ASSUME NEW p \in Procs, NEW op, Committing(p, op)
      PROVE  \A d \in Docs : /\ reqs[p].seen[d] \in Doc
                             /\ reqs[p].seen[d].grand = docs[d].grand
                             /\ reqs[p].seen[d].returned <= docs[d].returned
  BY <1>3, AtCommit DEF AllInOrder, InOrder, Committing
<1>4. ASSUME NEW p \in Procs, PostCommit(p) PROVE FlagsHold'
  <2> SUFFICES ASSUME NEW d \in Docs PROVE FlagOK(docs'[d])
      BY DEF FlagsHold
  <2>1. PICK seen \in Doc : /\ seen = reqs[p].seen[d] /\ seen.grand = docs[d].grand
                            /\ seen.returned <= docs[d].returned
    BY <1>3, <1>4 DEF PostCommit
  <2>2. PICK row \in Entry : row = reqs[p].row
    BY <1>4, AtCommit DEF PostCommit
  <2>3. docs'[d] = IF d \in Allocated(row) THEN WithPaid(d, seen, seen.paid + row.alloc[d])
                   ELSE docs[d]
    BY <1>4, <2>1, <2>2 DEF PostCommit
  <2>4. seen.paid + row.alloc[d] \in Nat
    BY DEF Doc, Entry
  <2>5. FlagOK(WithPaid(d, seen, seen.paid + row.alloc[d]))
    BY <1>1, <2>1, <2>4, FlagWritten
  <2> QED BY <2>3, <2>5 DEF FlagsHold
<1>5. ASSUME NEW p \in Procs, NEW op, Committing(p, op), NEW alloc \in [Docs -> Nat],
             docs' = Released(reqs[p].seen, alloc)
      PROVE  FlagsHold'
  <2> SUFFICES ASSUME NEW d \in Docs PROVE FlagOK(docs'[d])
      BY DEF FlagsHold
  <2>1. PICK seen \in Doc : /\ seen = reqs[p].seen[d] /\ seen.grand = docs[d].grand
                            /\ seen.returned <= docs[d].returned
    BY <1>3, <1>5
  <2>2. PICK paid : paid = IF seen.paid > alloc[d] THEN seen.paid - alloc[d] ELSE 0
    OBVIOUS
  <2>3. paid \in Nat
    <3>1. seen.paid \in Nat /\ alloc[d] \in Nat
      BY DEF Doc
    <3> QED BY <2>2, <3>1
  <2>4. docs'[d] = IF alloc[d] = 0 THEN docs[d] ELSE WithPaid(d, seen, paid)
    BY <1>5, <2>1, <2>2 DEF Released
  <2>5. FlagOK(WithPaid(d, seen, paid))
    BY <1>1, <2>1, <2>3, FlagWritten
  <2> QED BY <2>4, <2>5 DEF FlagsHold
<1>6. ASSUME NEW p \in Procs, BounceCommit(p) \/ RemoveCommit(p) \/ ReverseCommit(p)
      PROVE  FlagsHold'
  <2>1. PICK op : Committing(p, op)
    BY <1>6 DEF BounceCommit, RemoveCommit, ReverseCommit
  <2>2. PICK alloc \in [Docs -> Nat] : alloc = reqs[p].row.alloc
    BY <2>1, AtCommit DEF Entry
  <2>3. docs' = Released(reqs[p].seen, alloc) \/ UNCHANGED docs
    BY <1>6, <2>2 DEF BounceCommit, RemoveCommit, ReverseCommit
  <2> QED BY <1>2, <1>5, <2>1, <2>3
<1>7. ASSUME NEW p \in Procs, NEW e \in Entries,
             \/ PostRead(p, e) \/ DepositRead(p, e) \/ BounceRead(p, e)
             \/ \E payee \in Parties : EndorseRead(p, e, payee)
             \/ CancelRead(p, e) \/ RemoveRead(p, e) \/ EditRead(p, e)
      PROVE  FlagsHold'
  BY <1>2, <1>7 DEF PostRead, DepositRead, BounceRead, EndorseRead, CancelRead,
                    RemoveRead, EditRead, Checks, books
<1>8. ASSUME NEW p \in Procs,
             \/ Begin(p) \/ RepostRead(p) \/ Fail(p) \/ DepositCommit(p) \/ EndorseCommit(p)
             \/ CancelCommit(p) \/ EditCommit(p)
      PROVE  FlagsHold'
  BY <1>2, <1>8 DEF Begin, RepostRead, Fail, DepositCommit, EndorseCommit, CancelCommit,
                    EditCommit, books
<1>9. ASSUME NEW x \in Docs, NEW amount \in Amounts, PostReturn(x, amount) PROVE FlagsHold'
  <2> SUFFICES ASSUME NEW d \in Docs PROVE FlagOK(docs'[d])
      BY DEF FlagsHold
  <2>1. amount \in Nat /\ docs[x] \in Doc
    BY <1>1, Amounts1
  <2>2. PICK new : new = [docs[x] EXCEPT !.returned = @ + amount]
    OBVIOUS
  <2>3. /\ new.grand = docs[x].grand /\ new.returned = docs[x].returned + amount
        /\ new.flag = docs[x].flag /\ new.paid = docs[x].paid
    BY <2>1, <2>2 DEF Doc
  <2>4. docs'[d] = IF d = x THEN new ELSE docs[d]
    BY <1>1, <1>9, <2>2 DEF PostReturn
  <2>5. FlagOK(docs[x]) /\ FlagOK(docs[d])
    BY DEF FlagsHold
  <2>6. docs[x].grand \in Nat /\ docs[x].returned \in Nat /\ docs[x].paid \in Nat
    BY <2>1 DEF Doc
  <2>7. FlagOK(new)
    BY <2>1, <2>3, <2>5, <2>6 DEF FlagOK
  <2> QED BY <2>4, <2>5, <2>7
<1>10. CASE (\E e \in Entries, kind \in Kinds, party \in Parties, amount \in Amounts,
                alloc \in [Docs -> 0 .. MaxAmount] : Create(e, kind, party, amount, alloc))
            \/ SetLock \/ UNCHANGED vars
  BY <1>2, <1>10 DEF Create, SetLock, vars
<1> QED
  BY <1>4, <1>6, <1>7, <1>8, <1>9, <1>10 DEF Next

-------------------------------------------------------------------------------
(* What the reports add up.                                                 *)

LEMMA DocsFinite == IsFiniteSet(Docs)
BY BooksAssumption DEF BooksAssumption

\* What was collected on the documents of a plain customer is what the receipts brought.
LEMMA CollectedIsReceived ==
    ASSUME TypeInv, Accounted, AllOwing, NEW party \in Parties, Plain(party)
    PROVE  Collected(party) = SumFunction([e \in Settling(party) |-> entries[e].amount])
<1>1. PICK D, S : D = DocsOf(party) /\ S = Settling(party)
  OBVIOUS
<1>2. D \subseteq Docs /\ S \subseteq Entries /\ IsFiniteSet(D) /\ IsFiniteSet(S)
  BY <1>1, DocsFinite, EntriesFinite, FS_Subset DEF DocsOf, Settling, EntriesOf
<1>3. PICK F : F = [e \in Entries |-> [d \in D |-> Settles(entries[e])[d]]]
  OBVIOUS
<1>4. \A e \in Entries : entries[e] \in Entry /\ Settles(entries[e]) \in [Docs -> Nat]
  BY SettlesTyped DEF TypeInv, TypeOK, BooksTypeOK
<1>5. \A e \in Entries : \A d \in D : F[e][d] = Settles(entries[e])[d] /\ F[e][d] \in Nat
  BY <1>2, <1>3, <1>4
<1>6. SumFunctionOnSet([e \in Entries |-> SumFunctionOnSet(F[e], D)], Entries)
        = SumFunctionOnSet([d \in D |-> SumFunctionOnSet([e \in Entries |-> F[e][d]], Entries)], D)
  <2>1. \A e \in Entries, d \in D : F[e][d] \in Int
    BY <1>5
  <2> QED BY <1>2, <2>1, EntriesFinite, SumSwap
<1>7. Collected(party)
        = SumFunctionOnSet([d \in D |-> SumFunctionOnSet([e \in Entries |-> F[e][d]], Entries)], D)
  <2>1. ASSUME NEW d \in D
        PROVE  docs[d].paid = SumFunctionOnSet([e \in Entries |-> F[e][d]], Entries)
    <3>1. [e \in Entries |-> F[e][d]] = [e \in Entries |-> Settles(entries[e])[d]]
      BY <1>5
    <3> QED BY <1>2, <3>1 DEF Accounted, AllocatedOn
  <2>2. [d \in D |-> docs[d].paid]
          = [d \in D |-> SumFunctionOnSet([e \in Entries |-> F[e][d]], Entries)]
    BY <2>1
  <2>3. Collected(party) = SumFunctionOnSet([d \in D |-> docs[d].paid], D)
    BY <1>1 DEF Collected, SumFunction
  <2> QED BY <2>2, <2>3
<1>8. ASSUME NEW e \in Entries
      PROVE  SumFunctionOnSet(F[e], D) = IF e \in S THEN entries[e].amount ELSE 0
  <2>1. PICK row \in Entry : row = entries[e] /\ OwnRow(row)
    BY <1>4 DEF AllOwing, Owing
  <2>2. \A d \in Docs : row.alloc[d] \in Nat
    BY DEF Entry
  <2>3. CASE e \in S
    <3>1. row.party = party /\ row.status = "posted" /\ AllocatedTotal(row.alloc) = row.amount
      BY <1>1, <2>1, <2>3 DEF Settling, EntriesOf, Plain
    <3>2. \A d \in Docs \ D : row.alloc[d] = 0
      BY <1>1, <2>1, <2>2, <3>1 DEF OwnRow, DocsOf
    <3>3. SumFunctionOnSet(row.alloc, Docs) = SumFunctionOnSet(row.alloc, D)
      BY <1>2, <2>2, <3>2, DocsFinite, SumSubset
    <3>4. \A d \in D : F[e][d] = row.alloc[d]
      BY <1>5, <2>1, <3>1 DEF Settles
    <3>5. SumFunctionOnSet(F[e], D) = SumFunctionOnSet(row.alloc, D)
      BY <1>2, <3>4, SumEqual
    <3> QED BY <2>1, <2>3, <3>1, <3>3, <3>5 DEF AllocatedTotal
  <2>4. CASE e \notin S
    <3>1. ASSUME NEW d \in D PROVE F[e][d] = 0
      <4>1. F[e][d] = IF row.status = "posted" THEN row.alloc[d] ELSE 0
        BY <1>2, <1>5, <2>1 DEF Settles, NoAllocation
      <4>2. row.status = "posted" => row.party # party
        BY <1>1, <2>1, <2>4 DEF Settling, EntriesOf
      <4>3. DocParty[d] = party /\ d \in Docs
        BY <1>1 DEF DocsOf
      <4>4. row.party # party => ~(row.alloc[d] > 0)
        BY <2>1, <4>3 DEF OwnRow
      <4> QED BY <2>2, <4>1, <4>2, <4>3, <4>4
    <3>2. SumFunctionOnSet(F[e], D) = 0
      BY <1>2, <3>1, SumZero
    <3> QED BY <2>4, <3>2
  <2> QED BY <2>3, <2>4
<1>9. PICK f : f = [e \in S |-> entries[e].amount]
  OBVIOUS
<1>10. [e \in Entries |-> SumFunctionOnSet(F[e], D)]
         = [e \in Entries |-> IF e \in S THEN f[e] ELSE 0]
  BY <1>8, <1>9
<1>11. SumFunctionOnSet(f, S) = SumFunctionOnSet([e \in Entries |-> IF e \in S THEN f[e] ELSE 0], Entries)
  <2>1. \A e \in Entries : entries[e].amount \in Nat
    BY Amounts1 DEF TypeInv, TypeOK, BooksTypeOK, Entry
  <2>2. \A e \in S : f[e] \in Int
    BY <1>2, <1>9, <2>1
  <2> QED BY <1>2, <2>2, EntriesFinite, SumWhere
<1>12. SumFunction([e \in Settling(party) |-> entries[e].amount]) = SumFunctionOnSet(f, S)
  BY <1>1, <1>9 DEF SumFunction
<1> QED
  BY <1>6, <1>7, <1>10, <1>11, <1>12

\* The ledger has credited a plain customer what the receipts brought.
LEMMA BalanceIsReceived ==
    ASSUME TypeInv, AllOwing, NEW party \in Parties, Plain(party)
    PROVE  Balance(party) = 0 - SumFunction([e \in Settling(party) |-> entries[e].amount])
<1>1. PICK S, f : S = Settling(party) /\ f = [e \in S |-> entries[e].amount]
  OBVIOUS
<1>2. S \subseteq Entries /\ IsFiniteSet(S)
  BY <1>1, EntriesFinite, FS_Subset DEF Settling, EntriesOf
<1>3. \A e \in Entries : entries[e].amount \in Nat
  BY Amounts1 DEF TypeInv, TypeOK, BooksTypeOK, Entry
<1>4. \A e \in S : f[e] = entries[e].amount /\ f[e] \in Int
  BY <1>1, <1>2, <1>3
<1>5. PICK g, h : /\ g = [e \in Entries |-> IF e \in S THEN f[e] ELSE 0]
                  /\ h = [e \in Entries |-> Trace(vouchers, e, party)]
  OBVIOUS
<1>6. ASSUME NEW e \in Entries PROVE g[e] \in Int /\ h[e] = 0 - g[e]
  <2>1. h[e] = Owes(entries[e], party)
    BY <1>5 DEF AllOwing, Owing
  <2>2. CASE e \in S
    <3>1. /\ entries[e].status = "posted" /\ entries[e].party = party
          /\ IsReceipt(entries[e]) /\ entries[e].cheque # "BOUNCED"
      BY <1>1, <2>2 DEF Settling, EntriesOf, Plain
    <3> QED BY <1>4, <1>5, <2>1, <2>2, <3>1 DEF Owes
  <2>3. CASE e \notin S
    <3>1. ~(entries[e].status = "posted" /\ entries[e].party = party)
      BY <1>1, <2>3 DEF Settling, EntriesOf
    <3> QED BY <1>5, <2>1, <2>3, <3>1 DEF Owes
  <2> QED BY <2>2, <2>3
<1>7. SumFunctionOnSet(h, Entries) = 0 - SumFunctionOnSet(g, Entries)
  BY <1>6, EntriesFinite, SumNegative
<1>8. SumFunctionOnSet(f, S) = SumFunctionOnSet(g, Entries)
  BY <1>2, <1>4, <1>5, EntriesFinite, SumWhere
<1>9. SumFunction([e \in Settling(party) |-> entries[e].amount]) = SumFunctionOnSet(f, S)
  BY <1>1 DEF SumFunction
<1>10. Balance(party) = SumFunctionOnSet(h, Entries)
  BY <1>5, BalanceOfTraces
<1> QED
  BY <1>7, <1>8, <1>9, <1>10

\* The columns of the documents of a customer, and the sums of what was left to collect.
LEMMA DocumentSums ==
    ASSUME TypeInv, NEW party \in Parties
    PROVE  /\ Gross(party) \in Int /\ Returned(party) \in Int /\ Collected(party) \in Int
           /\ SumFunction([d \in DocsOf(party) |-> docs[d].grand - docs[d].paid])
                = Gross(party) - Collected(party)
           /\ OpenInvoices(party) >= NotBelowZero(Summary(party))
<1>1. PICK D : D = DocsOf(party) /\ D \subseteq Docs /\ IsFiniteSet(D)
  BY DocsFinite, FS_Subset DEF DocsOf
<1>2. PICK g, r, c, n, m :
         /\ g = [d \in D |-> docs[d].grand] /\ r = [d \in D |-> docs[d].returned]
         /\ c = [d \in D |-> docs[d].paid] /\ n = [d \in D |-> docs[d].grand - docs[d].paid]
         /\ m = [d \in D |-> Outstanding(docs[d])]
  OBVIOUS
<1>3. \A d \in D : docs[d].grand \in Nat /\ docs[d].returned \in Nat /\ docs[d].paid \in Nat
  BY <1>1 DEF TypeInv, TypeOK, BooksTypeOK, Doc
<1>4. /\ Gross(party) = SumFunctionOnSet(g, D) /\ Returned(party) = SumFunctionOnSet(r, D)
      /\ Collected(party) = SumFunctionOnSet(c, D)
      /\ OpenInvoices(party) = SumFunctionOnSet(m, D)
      /\ SumFunction([d \in DocsOf(party) |-> docs[d].grand - docs[d].paid])
           = SumFunctionOnSet(n, D)
  BY <1>1, <1>2 DEF Gross, Returned, Collected, OpenInvoices, SumFunction
<1>5. \A d \in D : /\ g[d] = docs[d].grand /\ r[d] = docs[d].returned /\ c[d] = docs[d].paid
                   /\ n[d] = docs[d].grand - docs[d].paid /\ m[d] = Outstanding(docs[d])
  BY <1>2
<1>6. \A d \in D : /\ g[d] \in Int /\ r[d] \in Int /\ c[d] \in Int /\ n[d] \in Int
                   /\ m[d] \in Nat /\ g[d] = n[d] + c[d]
  <2> SUFFICES ASSUME NEW d \in D
               PROVE  /\ g[d] \in Int /\ r[d] \in Int /\ c[d] \in Int /\ n[d] \in Int
                      /\ m[d] \in Nat /\ g[d] = n[d] + c[d]
      OBVIOUS
  <2> QED BY <1>3, <1>5 DEF Outstanding
<1>7. /\ SumFunctionOnSet(g, D) \in Int /\ SumFunctionOnSet(r, D) \in Int
      /\ SumFunctionOnSet(c, D) \in Int /\ SumFunctionOnSet(n, D) \in Int
  BY <1>1, <1>6, SumType
<1>8. SumFunctionOnSet(g, D) = SumFunctionOnSet(n, D) + SumFunctionOnSet(c, D)
  BY <1>1, <1>6, SumPlus
<1>9. SumFunctionOnSet(m, D) \in Nat
  BY <1>1, <1>6, SumNotNegative
<1>10. PICK k, l : /\ k = [d \in D |-> m[d] + r[d] - n[d]]
                   /\ l = [d \in D |-> m[d] + r[d]]
  OBVIOUS
<1>11. \A d \in D : k[d] \in Nat /\ l[d] \in Int /\ l[d] = k[d] + n[d] /\ l[d] = m[d] + r[d]
  <2> SUFFICES ASSUME NEW d \in D
               PROVE  k[d] \in Nat /\ l[d] \in Int /\ l[d] = k[d] + n[d] /\ l[d] = m[d] + r[d]
      OBVIOUS
  <2> QED BY <1>3, <1>5, <1>10 DEF Outstanding
<1>12. SumFunctionOnSet(k, D) \in Nat
  BY <1>1, <1>11, SumNotNegative
<1>13. SumFunctionOnSet(l, D) = SumFunctionOnSet(k, D) + SumFunctionOnSet(n, D)
  <2>1. \A d \in D : k[d] \in Int
    BY <1>11
  <2> QED BY <1>1, <1>6, <1>11, <2>1, SumPlus
<1>14. SumFunctionOnSet(l, D) = SumFunctionOnSet(m, D) + SumFunctionOnSet(r, D)
  <2>1. \A d \in D : m[d] \in Int
    BY <1>6
  <2> QED BY <1>1, <1>6, <1>11, <2>1, SumPlus
<1>15. SumFunctionOnSet(m, D) >= SumFunctionOnSet(g, D) - SumFunctionOnSet(r, D) - SumFunctionOnSet(c, D)
  BY <1>7, <1>8, <1>9, <1>12, <1>13, <1>14
<1>16. OpenInvoices(party) >= NotBelowZero(Summary(party))
  BY <1>4, <1>7, <1>9, <1>15 DEF NotBelowZero, Summary
<1> QED
  BY <1>4, <1>7, <1>8, <1>16

\* The ageing of a customer none of whose documents hides a return.
LEMMA AgeingIsSummary ==
    ASSUME TypeInv, FlagsHold, NEW party \in Parties, NoneHidden(party)
    PROVE  Ageing(party) = NotBelowZero(Summary(party))
<1>1. /\ Gross(party) \in Int /\ Returned(party) \in Int /\ Collected(party) \in Int
      /\ SumFunction([d \in DocsOf(party) |-> docs[d].grand - docs[d].paid])
           = Gross(party) - Collected(party)
  BY DocumentSums
<1>2. CASE DocsOf(party) = OpenDocuments(party)
  <2>1. Ageing(party) = NotBelowZero(Gross(party) - Collected(party) - Returned(party))
    BY <1>1, <1>2 DEF Ageing
  <2>2. Gross(party) - Collected(party) - Returned(party) = Summary(party)
    BY <1>1 DEF Summary
  <2> QED BY <2>1, <2>2
<1>3. CASE DocsOf(party) # OpenDocuments(party)
  <2>1. Cardinality(DocsOf(party)) = 1 /\ IsFiniteSet(DocsOf(party))
    BY <1>3, DocsFinite, FS_Subset DEF NoneHidden, DocsOf
  <2>2. PICK d : DocsOf(party) = {d}
    BY <2>1, FS_Singleton
  <2>3. OpenDocuments(party) = {} /\ docs[d].flag = "paid" /\ d \in Docs
    BY <1>3, <2>2 DEF OpenDocuments, DocsOf
  <2>4. docs[d].grand \in Nat /\ docs[d].returned \in Nat /\ docs[d].paid \in Nat
    BY <2>3 DEF TypeInv, TypeOK, BooksTypeOK, Doc
  <2>5. docs[d].paid >= docs[d].grand - docs[d].returned
    BY <2>3 DEF FlagsHold, FlagOK
  <2>6. /\ Gross(party) = docs[d].grand /\ Returned(party) = docs[d].returned
        /\ Collected(party) = docs[d].paid
    <3>1. PICK g, r, c : /\ g = [x \in {d} |-> docs[x].grand]
                         /\ r = [x \in {d} |-> docs[x].returned]
                         /\ c = [x \in {d} |-> docs[x].paid]
      OBVIOUS
    <3>2. /\ Gross(party) = SumFunctionOnSet(g, {d}) /\ Returned(party) = SumFunctionOnSet(r, {d})
          /\ Collected(party) = SumFunctionOnSet(c, {d})
      BY <2>2, <3>1 DEF Gross, Returned, Collected, SumFunction
    <3>3. g[d] = docs[d].grand /\ r[d] = docs[d].returned /\ c[d] = docs[d].paid
      BY <3>1
    <3>4. g[d] \in Int /\ r[d] \in Int /\ c[d] \in Int
      BY <2>4, <3>3
    <3>5. /\ SumFunctionOnSet(g, {d}) = g[d] /\ SumFunctionOnSet(r, {d}) = r[d]
          /\ SumFunctionOnSet(c, {d}) = c[d]
      BY <3>4, SumOfOne
    <3> QED BY <3>2, <3>3, <3>5
  <2>7. Ageing(party) = NotBelowZero(0 - Returned(party))
    <3>1. SumFunction([x \in OpenDocuments(party) |-> docs[x].grand - docs[x].paid]) = 0
      BY <2>3, SumEmpty DEF SumFunction
    <3> QED BY <3>1 DEF Ageing
  <2>8. Summary(party) = docs[d].grand - docs[d].returned - docs[d].paid
    BY <2>6 DEF Summary
  <2> QED BY <2>4, <2>5, <2>6, <2>7, <2>8 DEF NotBelowZero
<1> QED BY <1>2, <1>3

LEMMA ReportsMean ==
    ASSUME TypeInv, Accounted, AllOwing, FlagsHold
    PROVE  ReportsAgree
<1> SUFFICES ASSUME NEW party \in Parties, Plain(party)
             PROVE  /\ Statement(party) = Summary(party)
                    /\ LedgerBalance(party) = Summary(party)
                    /\ NoneHidden(party) => /\ Ageing(party) = NotBelowZero(Summary(party))
                                            /\ OpenInvoices(party) >= Ageing(party)
    BY DEF ReportsAgree
<1>1. /\ Gross(party) \in Int /\ Returned(party) \in Int /\ Collected(party) \in Int
      /\ OpenInvoices(party) >= NotBelowZero(Summary(party))
  BY DocumentSums
<1>2. Statement(party) = Summary(party)
  BY <1>1, CollectedIsReceived DEF Statement, Summary
<1>3. LedgerBalance(party) = Summary(party)
  <2>1. Balance(party) = 0 - Collected(party)
    BY CollectedIsReceived, BalanceIsReceived
  <2> QED BY <1>1, <2>1 DEF LedgerBalance, Summary
<1> QED
  BY <1>1, <1>2, <1>3, AgeingIsSummary

\* Whatever was bounced, cancelled, corrected half way or deleted before, the statement, the
\* ledger, the summary and the ageing tell a customer who only paid one balance, and the
\* open invoices are enough to allocate it: while requests that overlap are about different
\* entries, and none takes an allocation back from a document that another is paying.
THEOREM ReportsTellOneBalance ==
    PlainDesk => (Spec /\ [](RowsApart /\ ReleasesApart) => []ReportsAgree)
<1> SUFFICES ASSUME PlainDesk
             PROVE  Spec /\ [](RowsApart /\ ReleasesApart) => []ReportsAgree
    OBVIOUS
<1> DEFINE IInv == /\ TypeInv /\ AllCurrent /\ AllConsistent /\ Accounted /\ AllFresh
                   /\ AllInOrder /\ AllOwing /\ FlagsHold
<1>1. Init => IInv
  <2> SUFFICES ASSUME Init PROVE IInv
      OBVIOUS
  <2>1. FreshDocs
    BY DEF PlainDesk, FreshDocs
  <2>2. TypeInv /\ AllCurrent /\ AllConsistent /\ Accounted /\ AllFresh
    BY <2>1, TypeInit, CurrentInit, ConsistentInit, AccountedInit, FreshInit
  <2>3. AllInOrder
    BY DEF Init, Idle, AllInOrder, InOrder
  <2>4. FlagsHold
    BY DEF Init, PlainDesk, FlagsHold
  <2>5. ASSUME NEW e \in Entries PROVE Owing(entries[e], e, vouchers)
    <3>1. entries[e] = Blank /\ Consistent(entries[e], e, vouchers)
      BY <2>2 DEF Init, AllConsistent
    <3>2. OwnRow(entries[e])
      BY <3>1 DEF Blank, OwnRow, NoAllocation, Holdings
    <3>3. entries[e].status # "posted"
      BY <3>1 DEF Blank
    <3> QED BY <3>1, <3>2, <3>3 DEF Consistent, Owing, Owes
  <2> QED BY <2>2, <2>3, <2>4, <2>5 DEF AllOwing
<1>2. IInv /\ RowsApart /\ ReleasesApart /\ [Next]_vars => IInv'
  <2> SUFFICES ASSUME IInv, RowsApart, ReleasesApart, [Next]_vars PROVE IInv'
      OBVIOUS
  <2>1. TypeInv'
    BY TypeStep
  <2>2. AllCurrent' /\ AllConsistent' /\ AllFresh'
    BY CurrentStep, ConsistentStep, FreshStep
  <2>3. Accounted'
    BY <2>1, AccountedStep
  <2>4. AllInOrder' /\ FlagsHold'
    BY <2>1, InOrderStep, FlagsStep
  <2>5. AllOwing'
    BY <2>2, OwingStep
  <2> QED BY <2>1, <2>2, <2>3, <2>4, <2>5
<1>3. IInv => ReportsAgree
  BY ReportsMean
<1> HIDE DEF IInv
<1> QED
  BY <1>1, <1>2, <1>3, PTL DEF Spec
=============================================================================
