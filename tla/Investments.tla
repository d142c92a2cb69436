------------------------------ MODULE Investments ------------------------------
(***************************************************************************)
(* InvestmentsService: the principal of an investment comes in, returns go *)
(* out, and the principal goes back, each as a voucher.  A handler reads   *)
(* the investment with its installments, checks them and the balance of    *)
(* the account that pays (row, schedule), and then writes what it decided. *)
(*                                                                         *)
(* The schedule is one installment per month for the returns and one for   *)
(* the principal; an edit replaces all of them.                            *)
(***************************************************************************)
EXTENDS Integers, FiniteSets, Functions

CONSTANTS
    Ids,            \* ids of investments
    Capitals,       \* the accounts that hold what investors are owed
    Configured,     \* the one for an investment that names none
    None,           \* the capital account of an investment that names none
    Forms,          \* arrangements: [principal, monthly, fixed, term, capital]
    Payouts,        \* amounts that clients pay, other than the one on the schedule
    Revised,        \* amounts that an installment is rescheduled to
    Opening,        \* what the account that pays holds at the start
    Amounts,        \* what other vouchers pay into it (> 0) or out of it (< 0)
    EditsReceived,  \* whether clients edit an investment whose money came in
    Locking,        \* whether the administrator closes and reopens the period
    Procs,          \* requests that may be in progress at the same time
    MaxEdits        \* bound: no edit of an investment starts after so many

Form == [principal : Nat \ {0}, monthly : Nat, fixed : BOOLEAN, term : Nat \ {0},
         capital : Capitals \cup {None}]

ASSUME InvestmentsAssumption ==
    /\ Configured \in Capitals /\ None \notin Capitals
    /\ Forms \subseteq Form
    /\ Payouts \subseteq Nat \ {0} /\ Revised \subseteq Nat
    /\ Opening \in Nat /\ Amounts \subseteq Int
    /\ EditsReceived \in BOOLEAN /\ Locking \in BOOLEAN
    /\ MaxEdits \in Nat
    /\ IsFiniteSet(Capitals)

VARIABLES
    investments,  \* table Investment
    schedules,    \* table InvestmentInstallment: the returns and the principal of each
    books,        \* the entries of the vouchers that refer to an investment
    held,         \* what other vouchers left on the account that pays
    locked,       \* whether fiscal.locked_until covers the dates
    reqs

rows == <<investments, schedules, books>>
vars == <<rows, held, locked, reqs>>

Statuses    == {"absent", "planned", "active", "closed", "cancelled", "deleted"}
Investment  == [status : Statuses, received : BOOLEAN, principal : Nat, capital : Capitals \cup {None}]
Installment == [status : {"pending", "paid", "skipped"}, amount : Nat]
Books       == [cash : Int, expense : Int, capital : [Capitals -> Int]]
Idle        == [stage |-> "idle"]

\* The rows of a schedule: months, and "principal".
IsSchedule(s) ==
    /\ s.version \in Nat
    /\ s.months \subseteq Nat
    /\ s.row \in [s.months \cup {0} -> Installment]

PrincipalRow == 0

Blank   == [status |-> "absent", received |-> FALSE, principal |-> 0, capital |-> None]
NoRow   == [status |-> "pending", amount |-> 0]
NoBooks == [cash |-> 0, expense |-> 0, capital |-> [c \in Capitals |-> 0]]

TypeOK ==
    /\ investments \in [Ids -> Investment]
    /\ DOMAIN schedules = Ids /\ \A i \in Ids : IsSchedule(schedules[i])
    /\ books \in [Ids -> Books]
    /\ held \in Int /\ locked \in BOOLEAN
    /\ DOMAIN reqs = Procs
    /\ \A p \in Procs : reqs[p] = Idle \/ (reqs[p].stage = "checked" /\ reqs[p].id \in Ids)

Init ==
    /\ investments = [i \in Ids |-> Blank]
    /\ schedules = [i \in Ids |-> [version |-> 0, months |-> {},
                                   row |-> [k \in {PrincipalRow} |-> NoRow]]]
    /\ books = [i \in Ids |-> NoBooks]
    /\ held = Opening
    /\ locked = FALSE
    /\ reqs = [p \in Procs |-> Idle]

-------------------------------------------------------------------------------
Exists(i)   == investments[i].status \notin {"absent", "deleted"}
Ended(inv)  == inv.status \in {"closed", "cancelled"}
Rows(s)     == s.months \cup {PrincipalRow}
AnyPaid(s)  == \E k \in Rows(s) : s.row[k].status = "paid"

\* A profit share waits for its amount to be entered at payout time.
BuildSchedule(form, version) ==
    [version |-> version,
     months  |-> 1..form.term,
     row     |-> [k \in 0..form.term |->
                    [status |-> "pending",
                     amount |-> IF k = PrincipalRow THEN form.principal
                                ELSE IF form.fixed THEN form.monthly ELSE 0]]]

\* withTotals.
PrincipalOutstanding(inv, s) ==
    inv.principal - IF s.row[PrincipalRow].status = "paid" THEN s.row[PrincipalRow].amount ELSE 0

CapitalOf(inv) == IF inv.capital = None THEN Configured ELSE inv.capital

Balance == held + SumFunction([i \in Ids |-> books[i].cash])

\* assertBalance, before the transaction.
Affordable(amount) == amount <= Balance

\* A voucher that moves the amount between the account that pays and a capital account.
Posting(b, account, amount) ==
    [cash    |-> b.cash + amount,
     expense |-> b.expense,
     capital |-> [b.capital EXCEPT ![account] = @ + amount]]

Booked(i, account, amount) == [books EXCEPT ![i] = Posting(books[i], account, amount)]

Expensed(b, amount) ==
    [cash |-> b.cash - amount, expense |-> b.expense + amount, capital |-> b.capital]

Charged(i, amount) == [books EXCEPT ![i] = Expensed(books[i], amount)]

WithRow(s, k, row) ==
    [version |-> s.version, months |-> s.months, row |-> [s.row EXCEPT ![k] = row]]

-------------------------------------------------------------------------------
(* Requests.                                                                *)

Create(i, form) ==
    /\ investments[i].status = "absent"
    /\ ~locked
    /\ form.fixed => form.monthly > 0
    /\ investments' = [investments EXCEPT ![i] =
                         [status |-> "planned", received |-> FALSE,
                          principal |-> form.principal, capital |-> form.capital]]
    /\ schedules' = [schedules EXCEPT ![i] = BuildSchedule(form, 0)]
    /\ UNCHANGED <<books, held, locked, reqs>>

Start(p, op, i, row, amount) ==
    /\ reqs[p] = Idle
    /\ Exists(i)
    /\ reqs' = [reqs EXCEPT ![p] =
                  [stage |-> "checked", op |-> op, id |-> i, row |-> row, amount |-> amount,
                   investment |-> investments[i], schedule |-> schedules[i]]]
    /\ UNCHANGED <<rows, held, locked>>

UpdateRead(p, i) ==
    /\ ~Ended(investments[i])
    /\ ~AnyPaid(schedules[i])
    /\ EditsReceived \/ ~investments[i].received
    /\ schedules[i].version < MaxEdits
    /\ Start(p, "update", i, PrincipalRow, 0)

ReceiveRead(p, i) ==
    /\ ~investments[i].received /\ ~Ended(investments[i])
    /\ ~locked
    /\ Start(p, "receive", i, PrincipalRow, investments[i].principal)

\* A skipped installment may be paid.
Payable(inv, row) == inv.received /\ ~Ended(inv) /\ row.status # "paid"

\* The amount is what the client says, or the one on the schedule.
PayRead(p, i, k, amount) ==
    /\ k \in Rows(schedules[i])
    /\ Payable(investments[i], schedules[i].row[k])
    /\ amount \in Payouts \cup {schedules[i].row[k].amount}
    /\ amount > 0
    /\ ~locked
    /\ Affordable(amount)
    /\ Start(p, "pay", i, k, amount)

SkipRead(p, i, k) ==
    /\ k \in Rows(schedules[i])
    /\ schedules[i].row[k].status # "paid"
    /\ Start(p, "skip", i, k, 0)

RescheduleRead(p, i, k) ==
    /\ ~Ended(investments[i])
    /\ k \in Rows(schedules[i])
    /\ schedules[i].row[k].status # "paid"
    /\ Start(p, "reschedule", i, k, 0)

\* Mutant: the principal goes back whatever was returned before.
MutantReturned(inv, s) == inv.principal

\* "Only what is still owed goes back."
Returned(inv, s) == PrincipalOutstanding(inv, s)

CloseRead(p, i) ==
    LET outstanding == Returned(investments[i], schedules[i])
    IN  /\ ~Ended(investments[i])
        /\ investments[i].received
        /\ outstanding > 0
        /\ ~locked
        /\ Affordable(outstanding)
        /\ Start(p, "close", i, PrincipalRow, outstanding)

\* One that received money is closed instead.
Cancellable(inv) == inv.status # "cancelled" /\ ~inv.received

CancelRead(p, i) ==
    Cancellable(investments[i]) /\ Start(p, "cancel", i, PrincipalRow, 0)

RemoveRead(p, i) ==
    /\ ~investments[i].received /\ ~AnyPaid(schedules[i])
    /\ Start(p, "remove", i, PrincipalRow, 0)

Finish(p) == reqs' = [reqs EXCEPT ![p] = Idle] /\ UNCHANGED <<held, locked>>

\* A request writes: the investment must still be there, and the row if it names one.
Writing(p, op) == reqs[p] # Idle /\ reqs[p].op = op /\ Exists(reqs[p].id)
RowThere(req)  == schedules[req.id].version = req.schedule.version

Rebuilt(i, form) == [schedules EXCEPT ![i] = BuildSchedule(form, schedules[i].version + 1)]

Edited(inv, form) ==
    [status    |-> inv.status,
     received  |-> inv.received,
     principal |-> form.principal,
     capital   |-> IF form.capital = None THEN inv.capital ELSE form.capital]

UpdateCommit(p, form) ==
    LET i == reqs[p].id
    IN  /\ Writing(p, "update")
        /\ schedules' = Rebuilt(i, form)
        /\ investments' = [investments EXCEPT ![i] = Edited(investments[i], form)]
        /\ UNCHANGED books /\ Finish(p)

\* The account that is credited becomes the investment's own.
ReceiveCommit(p) ==
    LET req == reqs[p]
        account == CapitalOf(req.investment)
    IN  /\ Writing(p, "receive")
        /\ books' = Booked(req.id, account, req.amount)
        /\ investments' = [investments EXCEPT ![req.id] =
                             [status |-> "active", received |-> TRUE,
                              principal |-> @.principal, capital |-> account]]
        /\ UNCHANGED schedules /\ Finish(p)

\* Mutant: the row keeps the amount on the schedule.
MutantPaid(s, k, amount) == WithRow(s, k, [status |-> "paid", amount |-> s.row[k].amount])

Paid(s, k, amount) == WithRow(s, k, [status |-> "paid", amount |-> amount])

\* A return is an expense of the business; the principal going back is the capital
\* account being relieved.
PayCommit(p) ==
    LET req == reqs[p]
    IN  /\ Writing(p, "pay") /\ RowThere(req)
        /\ books' = IF req.row = PrincipalRow
                    THEN Booked(req.id, CapitalOf(req.investment), 0 - req.amount)
                    ELSE Charged(req.id, req.amount)
        /\ schedules' = [schedules EXCEPT ![req.id] = Paid(@, req.row, req.amount)]
        /\ UNCHANGED investments /\ Finish(p)

Skipped(s, k) == WithRow(s, k, [status |-> "skipped", amount |-> s.row[k].amount])

SkipCommit(p) ==
    LET req == reqs[p]
    IN  /\ Writing(p, "skip") /\ RowThere(req)
        /\ schedules' = [schedules EXCEPT ![req.id] = Skipped(@, req.row)]
        /\ UNCHANGED <<investments, books>> /\ Finish(p)

\* Moving a row that was skipped when it was read puts it back on the schedule.
Rescheduled(s, k, amount, back) ==
    WithRow(s, k, [status |-> IF back THEN "pending" ELSE s.row[k].status, amount |-> amount])

RescheduleCommit(p, amount, moved) ==
    LET req == reqs[p]
        was == req.schedule.row[req.row].status
    IN  /\ Writing(p, "reschedule") /\ RowThere(req)
        /\ schedules' = [schedules EXCEPT ![req.id] =
                           Rescheduled(@, req.row, amount, was = "skipped" /\ moved)]
        /\ UNCHANGED <<investments, books>> /\ Finish(p)

\* The principal's row is settled by the closing voucher, and the returns that never
\* came due are struck off.
SettledRow(k, row, amount) ==
    IF k = PrincipalRow /\ row.status # "paid" THEN [status |-> "paid", amount |-> amount]
    ELSE [status |-> IF row.status = "pending" THEN "skipped" ELSE row.status,
          amount |-> row.amount]

Settled(s, amount) ==
    [version |-> s.version, months |-> s.months,
     row     |-> [k \in DOMAIN s.row |-> SettledRow(k, s.row[k], amount)]]

CloseCommit(p) ==
    LET req == reqs[p]
    IN  /\ Writing(p, "close")
        /\ books' = Booked(req.id, CapitalOf(req.investment), 0 - req.amount)
        /\ schedules' = [schedules EXCEPT ![req.id] = Settled(@, req.amount)]
        /\ investments' = [investments EXCEPT ![req.id].status = "closed"]
        /\ Finish(p)

CancelCommit(p) ==
    LET i == reqs[p].id
    IN  /\ Writing(p, "cancel")
        /\ investments' = [investments EXCEPT ![i].status = "cancelled"]
        /\ UNCHANGED <<schedules, books>> /\ Finish(p)

RemoveCommit(p) ==
    LET i == reqs[p].id
    IN  /\ Writing(p, "remove")
        /\ investments' = [investments EXCEPT ![i].status = "deleted"]
        /\ UNCHANGED <<schedules, books>> /\ Finish(p)

Fail(p) == reqs[p] # Idle /\ Finish(p) /\ UNCHANGED rows

\* Other vouchers, between the requests; they do not overdraw the account.
OtherVoucher(amount) ==
    /\ \A p \in Procs : reqs[p] = Idle
    /\ Balance + amount >= 0
    /\ held + amount \in 0..Opening
    /\ held' = held + amount
    /\ UNCHANGED <<rows, locked, reqs>>

SetLock == Locking /\ locked' = ~locked /\ UNCHANGED <<rows, held, reqs>>

Next ==
    \/ \E i \in Ids, form \in Forms : Create(i, form)
    \/ \E p \in Procs, i \in Ids :
          \/ UpdateRead(p, i) \/ ReceiveRead(p, i) \/ CloseRead(p, i)
          \/ CancelRead(p, i) \/ RemoveRead(p, i)
          \/ \E k \in Rows(schedules[i]) :
                \/ \E amount \in Payouts \cup {schedules[i].row[k].amount} : PayRead(p, i, k, amount)
                \/ SkipRead(p, i, k) \/ RescheduleRead(p, i, k)
    \/ \E p \in Procs :
          \/ \E form \in Forms : UpdateCommit(p, form)
          \/ ReceiveCommit(p) \/ PayCommit(p) \/ SkipCommit(p)
          \/ \E amount \in Revised, moved \in BOOLEAN : RescheduleCommit(p, amount, moved)
          \/ CloseCommit(p) \/ CancelCommit(p) \/ RemoveCommit(p) \/ Fail(p)
    \/ \E amount \in Amounts : OtherVoucher(amount)
    \/ SetLock

Spec == Init /\ [][Next]_vars

-------------------------------------------------------------------------------
(* Correctness.                                                             *)

\* What the investor is owed by the rows of an investment.
Owed(inv, s) ==
    IF inv.received /\ inv.status = "active" THEN PrincipalOutstanding(inv, s) ELSE 0

\* That amount on the investment's capital account, and nothing elsewhere.
OnCapital(inv, amount) == [c \in Capitals |-> IF c = CapitalOf(inv) THEN amount ELSE 0]

\* "The amount owed to that investor is a real account balance": over any order of
\* edits, payouts, reschedulings and closing, the vouchers of an investment leave what
\* its rows say is outstanding on its capital account, and nothing elsewhere.
OwedIsOutstanding ==
    \A i \in Ids :
        books[i].capital = OnCapital(investments[i], Owed(investments[i], schedules[i]))

\* The expense that was charged for an investment is the sum of the returns that its
\* schedule shows as paid: none was paid twice or under another amount.
ReturnsAreVouched ==
    \A i \in Ids :
        LET s    == schedules[i]
            paid == {k \in s.months : s.row[k].status = "paid"}
        IN  books[i].expense = SumFunction([k \in paid |-> s.row[k].amount])

\* An investment that was cancelled or deleted never touched the ledger, and nothing
\* of one whose money did not come in was paid out.
GoneWithoutTrace ==
    \A i \in Ids :
        investments[i].status \in {"absent", "planned", "cancelled", "deleted"} =>
            books[i] = NoBooks /\ ~AnyPaid(schedules[i])

\* Payouts never overdraw the account they are paid from.
NeverOverdrawn == Balance >= 0

\* What was paid stays on the schedule as it was paid.
PaidIsFrozen ==
    [][\A i \in Ids : \A k \in Rows(schedules[i]) :
          schedules[i].row[k].status = "paid" =>
              /\ k \in Rows(schedules'[i])
              /\ schedules'[i].row[k] = schedules[i].row[k]]_vars
=============================================================================
