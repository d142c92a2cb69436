------------------------------- MODULE Vouchers -------------------------------
(***************************************************************************)
(* The voucher desk: VouchersService with its handlers create, post,       *)
(* unpost, submit, reject, cancel, update and remove for vouchers that     *)
(* clerks write by hand.  Vouchers that receipts and payments book are in  *)
(* BackOffice.                                                             *)
(*                                                                         *)
(* A handler reads the voucher, checks it, and writes later: unpost,       *)
(* submit and reject with one UPDATE, post and cancel with an UPDATE in    *)
(* the transaction that read the voucher, update with a transaction that   *)
(* first deletes the lines it finds and then writes the header and the new *)
(* lines.  Nothing is read again before the write (READ COMMITTED), so     *)
(* requests of different clerks interleave between these points.           *)
(*                                                                         *)
(* Clients send amounts with any number of decimals.  The columns have     *)
(* two: an amount is counted in halves of the last decimal on the way in   *)
(* and in units of it in the database.                                     *)
(***************************************************************************)
EXTENDS Integers, Sequences, FiniteSets, FiniteSetsExt, SequencesExt

CONSTANTS
    Ids,            \* ids of the vouchers
    Clerks,         \* requests that may be in progress at the same time
    Forms,          \* the lists of lines that clients send, in half units
    Ops,            \* the operations clients ask for
    MaxEdits        \* bound: no edit starts on a voucher that was written so often

AllOps == {"post", "unpost", "submit", "reject", "cancel", "update", "remove"}

ASSUME VouchersAssumption ==
    /\ Ops \subseteq AllOps
    /\ \A form \in Forms : form \in Seq([dr : Nat, cr : Nat])
    /\ MaxEdits \in Nat

VARIABLES
    rows,           \* table Voucher: status and the totals of the header
    lines,          \* table VoucherEntry: the lists of lines stored for each
                    \* voucher; n tells lists apart that were stored by different writes
    locked,         \* whether fiscal.locked_until covers the date of the vouchers
    reqs

vars == <<rows, lines, locked, reqs>>

Idle   == [stage |-> "idle"]
NoForm == <<>>
Row    == [status : {"absent", "draft", "pending", "posted", "cancelled", "deleted"},
           dr : Nat, cr : Nat, writes : Nat]
Lists  == [n : Nat, list : Seq([dr : Nat, cr : Nat])]

TypeOK ==
    /\ DOMAIN rows = Ids /\ \A v \in Ids : rows[v] \in Row
    /\ \A v \in Ids : \A l \in lines[v] : l \in Lists
    /\ locked \in BOOLEAN
    /\ \A c \in Clerks : reqs[c] # Idle =>
          /\ reqs[c].stage \in {"checked", "emptied"}
          /\ reqs[c].op \in AllOps
          /\ reqs[c].v \in Ids
          /\ reqs[c].row \in Row
          /\ \A l \in reqs[c].seen : l \in Lists

Init ==
    /\ rows = [v \in Ids |-> [status |-> "absent", dr |-> 0, cr |-> 0, writes |-> 0]]
    /\ lines = [v \in Ids |-> {}]
    /\ locked = FALSE
    /\ reqs = [c \in Clerks |-> Idle]

-------------------------------------------------------------------------------
(* Amounts.                                                                 *)

\* round2, and what the database does to a Decimal(18, 2): half up.
Rounded(halves) == (halves + 1) \div 2

\* Each line rounded on its own.
Normalized(form) == [i \in DOMAIN form |-> [dr |-> Rounded(form[i].dr),
                                            cr |-> Rounded(form[i].cr)]]

Debit(list)  == FoldLeft(LAMBDA sum, line : sum + line.dr, 0, list)
Credit(list) == FoldLeft(LAMBDA sum, line : sum + line.cr, 0, list)

\* assertBalanced: as many debits as credits, and no empty line.
Balanced(list) == /\ list # <<>>
                  /\ Debit(list) = Credit(list)
                  /\ \A i \in DOMAIN list : list[i].dr # 0 \/ list[i].cr # 0

\* The same check on amounts that were not rounded yet: it rounds the totals.
BalancedForm(form) == /\ form # <<>>
                      /\ Rounded(Debit(form)) = Rounded(Credit(form))
                      /\ \A i \in DOMAIN form : form[i].dr # 0 \/ form[i].cr # 0

Acceptable(form) == /\ \E i \in DOMAIN form : form[i].dr > 0
                    /\ \E i \in DOMAIN form : form[i].cr > 0
                    /\ BalancedForm(form)

\* What is stored for voucher v, whichever lists it is made of.
StoredDebit(lists)  == MapThenSumSet(LAMBDA l : Debit(l.list), lists)
StoredCredit(lists) == MapThenSumSet(LAMBDA l : Credit(l.list), lists)
Lines(lists)        == UNION {Range(l.list) : l \in lists}

-------------------------------------------------------------------------------
(* create and the reads.                                                    *)

\* AccountingService.createVoucher checks the rounded lines again.
Create(v, form) ==
    /\ rows[v].status = "absent"
    /\ ~locked
    /\ Acceptable(form)
    /\ Balanced(Normalized(form))
    /\ rows' = [rows EXCEPT ![v] = [status |-> "draft",
                                    dr |-> Debit(Normalized(form)),
                                    cr |-> Credit(Normalized(form)), writes |-> 1]]
    /\ lines' = [lines EXCEPT ![v] = {[n |-> 1, list |-> Normalized(form)]}]
    /\ UNCHANGED <<locked, reqs>>

Exists(v) == rows[v].status \notin {"absent", "deleted"}

\* submit and reject do not look at the fiscal period.
Read(c, op, v, form) ==
    /\ op \in Ops
    /\ reqs[c] = Idle
    /\ Exists(v)
    /\ op \in {"submit", "reject"} \/ ~locked
    /\ reqs' = [reqs EXCEPT ![c] = [stage |-> "checked", op |-> op, v |-> v,
                                    row |-> rows[v], seen |-> lines[v], form |-> form]]
    /\ UNCHANGED <<rows, lines, locked>>

\* Mutant: lines that do not balance are posted.
MutantPostable(row, lists) == row.status \in {"draft", "pending"}

\* postVoucher reads the voucher with its lines in its transaction.
Postable(row, lists) ==
    /\ row.status \in {"draft", "pending"}
    /\ lists # {}
    /\ StoredDebit(lists) = StoredCredit(lists)
    /\ \A line \in Lines(lists) : line.dr # 0 \/ line.cr # 0

PostRead(c, v) == Postable(rows[v], lines[v]) /\ Read(c, "post", v, NoForm)

UnpostRead(c, v) == rows[v].status = "posted" /\ Read(c, "unpost", v, NoForm)

\* A pending voucher is returned as it is.
SubmitRead(c, v) == rows[v].status = "draft" /\ Read(c, "submit", v, NoForm)

RejectRead(c, v) == rows[v].status = "pending" /\ Read(c, "reject", v, NoForm)

CancelRead(c, v) == rows[v].status # "cancelled" /\ Read(c, "cancel", v, NoForm)

\* Mutant: posted vouchers can be edited.
MutantEditable(row) == row.status # "cancelled"

Editable(row) == row.status \notin {"posted", "cancelled"}

UpdateRead(c, v, form) ==
    /\ Editable(rows[v])
    /\ lines[v] # {}
    /\ rows[v].writes < MaxEdits
    /\ Acceptable(form)
    /\ Read(c, "update", v, form)

RemoveRead(c, v) == Read(c, "remove", v, NoForm)

-------------------------------------------------------------------------------
(* The writes.                                                              *)

Serving(c, op) ==
    /\ reqs[c] # Idle
    /\ reqs[c].op = op
    /\ Exists(reqs[c].v)

Finish(c) == reqs' = [reqs EXCEPT ![c] = Idle]

\* An UPDATE of the status alone.
Write(c, op, status) ==
    /\ Serving(c, op)
    /\ rows' = [rows EXCEPT ![reqs[c].v].status = status]
    /\ Finish(c)
    /\ UNCHANGED <<lines, locked>>

PostCommit(c)   == Write(c, "post", "posted")
UnpostCommit(c) == Write(c, "unpost", "draft")
SubmitCommit(c) == Write(c, "submit", "pending")
RejectCommit(c) == Write(c, "reject", "draft")
CancelCommit(c) == Write(c, "cancel", "cancelled")

\* update deletes the lines it sees ...
UpdateEmpty(c) ==
    /\ Serving(c, "update")
    /\ reqs[c].stage = "checked"
    /\ reqs' = [reqs EXCEPT ![c].stage = "emptied", ![c].seen = lines[reqs[c].v]]
    /\ UNCHANGED <<rows, lines, locked>>

StatusAfter(row, status) == IF row.status = "pending" THEN "draft" ELSE status

\* Lists stored since the deletion are not seen by it, and stay.
Remaining(v, seen) == lines[v] \ seen

\* ... and stores the header and the new lines, rounded by the database one by one,
\* the totals rounded as sums.
UpdateCommit(c) ==
    LET req == reqs[c]
        n   == rows[req.v].writes + 1
    IN  /\ Serving(c, "update")
        /\ req.stage = "emptied"
        /\ rows' = [rows EXCEPT ![req.v] =
                      [status |-> StatusAfter(req.row, @.status),
                       dr     |-> Rounded(Debit(req.form)),
                       cr     |-> Rounded(Credit(req.form)),
                       writes |-> n]]
        /\ lines' = [lines EXCEPT ![req.v] =
                       Remaining(req.v, req.seen) \cup
                         {[n |-> n, list |-> Normalized(req.form)]}]
        /\ Finish(c)
        /\ UNCHANGED locked

RemoveCommit(c) ==
    /\ Serving(c, "remove")
    /\ rows' = [rows EXCEPT ![reqs[c].v].status = "deleted"]
    /\ lines' = [lines EXCEPT ![reqs[c].v] = {}]
    /\ Finish(c)
    /\ UNCHANGED locked

\* A request fails, or its voucher is gone, or the server stops.
Fail(c) ==
    /\ reqs[c] # Idle
    /\ Finish(c)
    /\ UNCHANGED <<rows, lines, locked>>

SetLock ==
    /\ locked' = ~locked
    /\ UNCHANGED <<rows, lines, reqs>>

Next ==
    \/ \E v \in Ids, form \in Forms : Create(v, form)
    \/ \E c \in Clerks, v \in Ids :
          \/ PostRead(c, v) \/ UnpostRead(c, v) \/ SubmitRead(c, v) \/ RejectRead(c, v)
          \/ CancelRead(c, v) \/ RemoveRead(c, v)
          \/ \E form \in Forms : UpdateRead(c, v, form)
    \/ \E c \in Clerks :
          \/ PostCommit(c) \/ UnpostCommit(c) \/ SubmitCommit(c) \/ RejectCommit(c)
          \/ CancelCommit(c) \/ RemoveCommit(c)
          \/ UpdateEmpty(c) \/ UpdateCommit(c)
          \/ Fail(c)
    \/ SetLock

Spec == Init /\ [][Next]_vars

-------------------------------------------------------------------------------
(* Correctness.                                                             *)

\* Whatever is posted balances: rounding on the way into the database and edits by
\* several clerks never put an unbalanced voucher into the ledger.
PostedBalanced ==
    \A v \in Ids : rows[v].status = "posted" =>
        StoredDebit(lines[v]) = StoredCredit(lines[v])

\* The totals printed in the header are the sums of the stored lines ("the trial
\* balance and the voucher itself disagreed by a paisa", createVoucher).  The code does
\* not have it: an edit stores lines that were not rounded first.
HeaderMatchesLines ==
    \A v \in Ids : Exists(v) =>
        rows[v].dr = StoredDebit(lines[v]) /\ rows[v].cr = StoredCredit(lines[v])

\* What a status promises holds until the status is left, in whatever order the clerk
\* works.  "Only draft or pending vouchers can be edited": a posted voucher keeps its
\* lines.  What is approved is what was submitted: a voucher whose lines change does
\* not stay pending ("Editing a pending voucher drops it back to draft").  And "a
\* cancelled voucher cannot be posted", nor become a draft again.
StatusIsBinding ==
    [][\A v \in Ids :
          /\ rows[v].status \in {"posted", "pending"} /\ rows'[v].status = rows[v].status
                => lines'[v] = lines[v]
          /\ rows[v].status = "cancelled" => rows'[v].status \in {"cancelled", "deleted"}]_vars
=============================================================================
