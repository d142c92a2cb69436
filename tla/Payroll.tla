-------------------------------- MODULE Payroll --------------------------------
(***************************************************************************)
(* PayrollService on top of the attendance sheet: runs are generated from  *)
(* the salaries, the attendance and the loans of a period, edited and      *)
(* recalculated as drafts, posted (the accrual), paid (the disbursement)   *)
(* and cancelled or deleted.  A handler reads the run with its items and   *)
(* checks it and the balance of the account that pays, and writes in a     *)
(* transaction with what it read (row).                                    *)
(*                                                                         *)
(* An account's entry is positive for a debit.  Employees with an account  *)
(* of their own (linked) are credited there, the others in Salaries        *)
(* Payable.                                                                *)
(***************************************************************************)
EXTENDS Attendance, Functions

CONSTANTS
    Runs,            \* ids of payroll runs
    Periods,         \* months, in order
    PeriodOf,        \* the month of a day
    MonthDays,       \* the days of a month
    Fund, Bank,      \* the account runs are funded from and another one
    Expense, Payable, Deductions,   \* the accounts of Settings > Accounting
    Staff,           \* <<employee, record>>: the records that HR keeps
    Allowance, Earning, Deducted,   \* per employee: the components of the salary
    Installment,     \* employee -> the installment of the loan they may take
    Changes,         \* <<overtime hours, other deduction, tax>>: edits of a line
    Opening,         \* what Fund and Bank hold at the start
    Amounts,         \* <<account, amount>>: what other vouchers pay in (> 0) or out (< 0)
    Procs,           \* requests that may be in progress at the same time
    Asked            \* <<operation, run>>: what clients ask for

People   == Employees \cup {Payable}
Money    == {Fund, Bank}
Accounts == People \cup Money \cup {Expense, Deductions}
Modes    == {"draft", "post", "post_and_pay"}

Employee  == [active : BOOLEAN, linked : BOOLEAN, basic : Nat]

ASSUME PayrollAssumption ==
    /\ Periods \subseteq Nat
    /\ PeriodOf \in [Days -> Periods]
    /\ MonthDays \in Nat \ {0}
    /\ {Allowance, Earning, Deducted, Installment} \subseteq [Employees -> Nat]
    /\ Changes \subseteq Nat \X Nat \X Nat
    /\ Opening \in Nat /\ Amounts \subseteq Money \X Int
    /\ Staff \subseteq Employees \X Employee
    /\ IsFiniteSet(Employees) /\ IsFiniteSet(Days) /\ IsFiniteSet(Runs)
    /\ Payable \notin Employees /\ Fund # Bank /\ Expense # Deductions
    /\ Money \cap People = {} /\ {Expense, Deductions} \cap (Money \cup People) = {}

VARIABLES
    employees,   \* Employee: active, linked (mainAccountId) and basicSalary
    loans,       \* employee -> the month their active loan starts, None without one
    runs,        \* PayrollRun: status, period, paid (paidAt) and the header's totals
    items,       \* PayrollItem: run -> employee -> line
    books,       \* run -> the entries of its live vouchers: the accrual and the disbursement that
                 \* it points to, and those it points to no longer (stray)
    held,        \* what other vouchers left on Fund and Bank
    reqs

ledgerVars  == <<runs, items, books>>
payrollVars == <<employees, loans, runs, items, books, held, reqs>>
vars        == <<payrollVars, attendanceVars>>

Totals  == [gross : Int, deduction : Int, net : Int]
Line    == [basic : Nat, earnings : Nat, overtime : Nat, absence : Nat, other : Nat, tax : Nat,
            gross : Int, deduction : Int, net : Int]
Entries == [Accounts -> Int]
Idle    == [stage |-> "idle"]

TypeOK ==
    /\ AttendanceTypeOK
    /\ \A e \in Employees : <<e, employees[e]>> \in Staff
    /\ loans \in [Employees -> Periods \cup {None}]
    /\ \A r \in Runs :
          /\ runs[r].status \in {"absent", "draft", "posted", "cancelled", "deleted"}
          /\ runs[r].status \in {"draft", "posted", "cancelled"} =>
                runs[r].period \in Periods /\ runs[r].paid \in BOOLEAN /\ runs[r].total \in Totals
          /\ \A e \in DOMAIN items[r] : e \in Employees /\ items[r][e] \in Line
          /\ books[r] \in [accrual : Entries, disbursement : Entries, stray : Entries]
    /\ held \in [Money -> Int]
    /\ \A p \in Procs : reqs[p] = Idle \/ (reqs[p].stage = "checked" /\ reqs[p].id \in Runs)

Nothing == [a \in Accounts |-> 0]
NoBooks == [accrual |-> Nothing, disbursement |-> Nothing, stray |-> Nothing]

Init ==
    /\ AttendanceInit
    /\ employees \in [Employees -> {x[2] : x \in Staff}]
    /\ \A e \in Employees : <<e, employees[e]>> \in Staff /\ employees[e].active
    /\ loans = [e \in Employees |-> None]
    /\ runs = [r \in Runs |-> [status |-> "absent"]]
    /\ items = [r \in Runs |-> <<>>]
    /\ books = [r \in Runs |-> NoBooks]
    /\ held = [a \in Money |-> Opening]
    /\ reqs = [p \in Procs |-> Idle]

-------------------------------------------------------------------------------
(* payroll-calc.ts.                                                         *)

\* n / d rounded to the nearest amount.
Rounded(n, d) == (2 * n + d) \div (2 * d)

OvertimeAmount(basic, hours) == Rounded(basic * hours, MonthDays * 8)

\* Halves of days: an absence counts two, half a day one, paid leave nothing.
AbsentHalves(e, period) ==
    LET days(mark) == Cardinality({d \in Days : PeriodOf[d] = period
                                                /\ attendance[<<e, d>>] = mark})
    IN  2 * days("absent") + days("half_day")

\* A line is complete when its pay is derived from its parts.
Derived(line, gross) ==
    LET deduction == line.absence + line.other + line.tax
    IN  [line EXCEPT !.gross = gross, !.deduction = deduction, !.net = gross - deduction]

\* computePayrollLine with the rows of computeLines.  A loan is deducted in every month
\* from its first on.
Computed(e, period, tax) ==
    LET basic == employees[e].basic
        loan  == IF loans[e] # None /\ loans[e] <= period THEN Installment[e] ELSE 0
    IN  Derived([basic |-> basic, earnings |-> Earning[e], overtime |-> 0,
                 absence |-> Rounded(basic * AbsentHalves(e, period), MonthDays * 2),
                 other |-> Deducted[e] + loan, tax |-> tax,
                 gross |-> 0, deduction |-> 0, net |-> 0],
                basic + Allowance[e] + Earning[e])

Active == {e \in Employees : employees[e].active}

TotalsOf(lines) ==
    [gross     |-> SumFunction([e \in DOMAIN lines |-> lines[e].gross]),
     deduction |-> SumFunction([e \in DOMAIN lines |-> lines[e].deduction]),
     net       |-> SumFunction([e \in DOMAIN lines |-> lines[e].net])]

-------------------------------------------------------------------------------
(* The ledger.                                                              *)

Booked(r, account) ==
    books[r].accrual[account] + books[r].disbursement[account] + books[r].stray[account]
Balance(account) ==
    SumFunction([r \in Runs |-> Booked(r, account)])
      + IF account \in Money THEN held[account] ELSE 0

Balanced(entries) == SumFunctionOnSet(entries, Accounts) = 0

\* What the people of a run get, by account; an amount in Salaries Payable is left out
\* unless it is positive.
Shares(lines) ==
    LET others   == {e \in DOMAIN lines : ~employees[e].linked}
        unlinked == SumFunction([e \in others |-> lines[e].net])
    IN  [a \in People |->
            IF a = Payable THEN (IF unlinked > 0 THEN unlinked ELSE 0)
            ELSE IF a \in DOMAIN lines /\ employees[a].linked THEN lines[a].net ELSE 0]

AccrualEntries(lines) ==
    LET total == TotalsOf(lines)
    IN  [a \in Accounts |->
            IF a = Expense THEN total.gross
            ELSE IF a \in People THEN 0 - Shares(lines)[a]
            ELSE IF a = Deductions /\ total.deduction > 0 THEN 0 - total.deduction ELSE 0]

SettlementEntries(lines, account) ==
    [a \in Accounts |->
        IF a \in People THEN Shares(lines)[a]
        ELSE IF a = account THEN 0 - TotalsOf(lines).net ELSE 0]

\* assertFundingBalance, before the transaction.
Covers(account, lines) == TotalsOf(lines).net <= Balance(account)

\* Mutant: the run is settled without its accrual.
MutantBookRun(r, run, lines, post, settle, account) ==
    /\ runs' = [runs EXCEPT ![r] = [run EXCEPT !.total = TotalsOf(lines),
                                               !.status = IF post THEN "posted" ELSE @,
                                               !.paid = settle]]
    /\ books' = [books EXCEPT
                   ![r].disbursement = IF settle THEN SettlementEntries(lines, account) ELSE @]

Plus(x, y) == [a \in Accounts |-> x[a] + y[a]]

\* The entries of a run that is booked; it points to its last accrual and its last
\* disbursement.
Rebooked(entries, lines, post, settle, account) ==
    [accrual      |-> IF post THEN AccrualEntries(lines) ELSE entries.accrual,
     disbursement |-> IF settle THEN SettlementEntries(lines, account) ELSE entries.disbursement,
     stray        |-> Plus(entries.stray, Plus(IF post THEN entries.accrual ELSE Nothing,
                                               IF settle THEN entries.disbursement ELSE Nothing))]

\* The header is repaired to match the items that were booked.
Header(run, lines, post, settle) ==
    [run EXCEPT !.total = TotalsOf(lines), !.status = IF post THEN "posted" ELSE @,
                !.paid = @ \/ settle]

\* Accrual and disbursement are vouchers: they balance or the transaction fails.
BookRun(r, run, lines, post, settle, account) ==
    /\ post => Balanced(AccrualEntries(lines))
    /\ settle => Balanced(SettlementEntries(lines, account))
    /\ runs' = [runs EXCEPT ![r] = Header(run, lines, post, settle)]
    /\ books' = [books EXCEPT ![r] = Rebooked(@, lines, post, settle, account)]

-------------------------------------------------------------------------------
(* Requests.                                                                *)

Exists(r) == runs[r].status \in {"draft", "posted", "cancelled"}

\* The request goes on with the run as it is read and with what it asks for (form).
Start(p, op, r, form) ==
    /\ <<op, r>> \in Asked
    /\ reqs[p] = Idle
    /\ reqs' = [reqs EXCEPT ![p] = [stage |-> "checked", op |-> op, id |-> r,
                                    run |-> runs[r], lines |-> items[r], form |-> form]]
    /\ UNCHANGED <<employees, loans, held, ledgerVars, attendanceVars>>

\* The lines are computed before the transaction, from what the sheet says then.
GenerateRead(p, r, period, mode, account) ==
    LET lines == [e \in Active |-> Computed(e, period, 0)]
    IN  /\ runs[r].status = "absent"
        /\ \A other \in Runs : runs[other].status \in {"draft", "posted"}
                                  => runs[other].period # period
        /\ Active # {}
        /\ Covers(Fund, lines)
        /\ IF mode = "post_and_pay" THEN Covers(account, lines) ELSE account = Fund
        /\ Start(p, "generate", r, [new |-> lines, period |-> period, mode |-> mode,
                                    account |-> account])

UpdateRead(p, r) == runs[r].status = "draft" /\ Start(p, "update", r, <<>>)

RefreshRead(p, r) ==
    LET tax(e) == IF e \in DOMAIN items[r] THEN items[r][e].tax ELSE 0
    IN  /\ runs[r].status = "draft"
        /\ Active # {}
        /\ Start(p, "refresh", r,
                 [new |-> [e \in Active |-> Computed(e, runs[r].period, tax(e))]])

PostRead(p, r) ==
    runs[r].status = "draft" /\ Covers(Fund, items[r]) /\ Start(p, "post", r, <<>>)

\* Mutant: a run that was paid is paid again.
MutantDisbursable(run) == run.status = "posted"

Disbursable(run) == run.status = "posted" /\ ~run.paid

DisburseRead(p, r, account) ==
    /\ Disbursable(runs[r])
    /\ Covers(account, items[r])
    /\ Start(p, "disburse", r, [account |-> account])

CancelRead(p, r) == runs[r].status = "posted" /\ Start(p, "cancel", r, <<>>)
RemoveRead(p, r) == Exists(r) /\ Start(p, "remove", r, <<>>)

Finish(p) == /\ reqs' = [reqs EXCEPT ![p] = Idle]
             /\ UNCHANGED <<employees, loans, held, attendanceVars>>
Committing(p, op) == reqs[p] # Idle /\ reqs[p].op = op

\* "Generating, posting and paying happen in this one transaction."
GenerateCommit(p) ==
    LET req == reqs[p]
        run == [status |-> "draft", period |-> req.form.period, paid |-> FALSE,
                total |-> TotalsOf(req.form.new)]
    IN  /\ Committing(p, "generate")
        /\ items' = [items EXCEPT ![req.id] = req.form.new]
        /\ IF req.form.mode = "draft"
           THEN runs' = [runs EXCEPT ![req.id] = run] /\ UNCHANGED books
           ELSE BookRun(req.id, run, req.form.new,
                        TRUE, req.form.mode = "post_and_pay", req.form.account)
        /\ Finish(p)

\* The header's totals are summed over all lines of the run, not the changed ones.
Saved(r, lines) ==
    /\ items' = [items EXCEPT ![r] = lines]
    /\ runs' = [runs EXCEPT ![r].total = TotalsOf(lines)]
    /\ UNCHANGED books

\* The gross is built again from basic, allowance, overtime and the line's earnings.
Edited(line, allowance, change) ==
    Derived([line EXCEPT !.overtime = change[1], !.other = change[2], !.tax = change[3]],
            line.basic + allowance + OvertimeAmount(line.basic, change[1]) + line.earnings)

\* One line is edited.  It is derived from the line that was read; the rest of the run
\* is as it is now.
UpdateCommit(p, e, change) ==
    LET req == reqs[p]
    IN  /\ Committing(p, "update") /\ Exists(req.id)
        /\ e \in DOMAIN req.lines
        /\ Saved(req.id,
                 [items[req.id] EXCEPT ![e] = Edited(req.lines[e], Allowance[e], change)])
        /\ Finish(p)

Merged(new, lines) ==
    [e \in DOMAIN new \cup DOMAIN lines |-> IF e \in DOMAIN new THEN new[e] ELSE lines[e]]

\* Lines of employees who left stay as they are; those who joined get one.
RefreshCommit(p) ==
    LET req == reqs[p]
    IN  /\ Committing(p, "refresh") /\ Exists(req.id)
        /\ Saved(req.id, Merged(req.form.new, items[req.id]))
        /\ Finish(p)

PostCommit(p) ==
    LET req == reqs[p]
    IN  /\ Committing(p, "post") /\ Exists(req.id)
        /\ BookRun(req.id, req.run, req.lines, TRUE, FALSE, Fund)
        /\ UNCHANGED items /\ Finish(p)

DisburseCommit(p) ==
    LET req == reqs[p]
    IN  /\ Committing(p, "disburse") /\ Exists(req.id)
        /\ BookRun(req.id, req.run, req.lines, FALSE, TRUE, req.form.account)
        /\ UNCHANGED items /\ Finish(p)

\* The disbursement that the run was read with is cancelled, then the accrual.
Reversed(r, run) ==
    [books EXCEPT ![r].accrual = Nothing,
                  ![r].disbursement = IF run.paid THEN Nothing ELSE @]

CancelCommit(p) ==
    LET req == reqs[p]
    IN  /\ Committing(p, "cancel") /\ Exists(req.id)
        /\ books' = Reversed(req.id, req.run)
        /\ runs' = [runs EXCEPT ![req.id].status = "cancelled"]
        /\ UNCHANGED items /\ Finish(p)

\* The run is deleted with its lines; a posted one is reversed first.
RemoveCommit(p) ==
    LET req == reqs[p]
    IN  /\ Committing(p, "remove") /\ Exists(req.id)
        /\ books' = IF req.run.status = "posted" THEN Reversed(req.id, req.run) ELSE books
        /\ runs' = [runs EXCEPT ![req.id] = [status |-> "deleted"]]
        /\ items' = [items EXCEPT ![req.id] = <<>>]
        /\ Finish(p)

Fail(p) == reqs[p] # Idle /\ Finish(p) /\ UNCHANGED ledgerVars

-------------------------------------------------------------------------------
(* What else happens, between the requests.                                 *)

Between == \A p \in Procs : reqs[p] = Idle

SetEmployee(e, record) ==
    /\ Between
    /\ employees' = [employees EXCEPT ![e] = record]
    /\ UNCHANGED <<loans, runs, items, books, held, reqs, attendanceVars>>

\* A loan is granted, or closed; payroll never closes one.
SetLoan(e, start) ==
    /\ Installment[e] > 0 /\ Between
    /\ loans' = [loans EXCEPT ![e] = start]
    /\ UNCHANGED <<employees, runs, items, books, held, reqs, attendanceVars>>

OtherVoucher(account, amount) ==
    /\ Between
    /\ Balance(account) + amount >= 0
    /\ held' = [held EXCEPT ![account] = @ + amount]
    /\ held'[account] <= Opening
    /\ UNCHANGED <<employees, loans, runs, items, books, reqs, attendanceVars>>

Sheet == Between /\ AttendanceNext /\ UNCHANGED payrollVars

Next ==
    \/ \E p \in Procs, r \in Runs :
          \/ \E period \in Periods, mode \in Modes, account \in Money :
                GenerateRead(p, r, period, mode, account)
          \/ UpdateRead(p, r) \/ RefreshRead(p, r) \/ PostRead(p, r)
          \/ \E account \in Money : DisburseRead(p, r, account)
          \/ CancelRead(p, r) \/ RemoveRead(p, r)
    \/ \E p \in Procs :
          \/ GenerateCommit(p) \/ RefreshCommit(p) \/ PostCommit(p) \/ DisburseCommit(p)
          \/ \E e \in Employees, change \in Changes : UpdateCommit(p, e, change)
          \/ CancelCommit(p) \/ RemoveCommit(p) \/ Fail(p)
    \/ \E x \in Staff : SetEmployee(x[1], x[2])
    \/ \E e \in Employees, start \in Periods \cup {None} : SetLoan(e, start)
    \/ \E x \in Amounts : OtherVoucher(x[1], x[2])
    \/ Sheet

Spec == Init /\ [][Next]_vars

-------------------------------------------------------------------------------
(* Correctness.                                                             *)

Posted == {r \in Runs : runs[r].status = "posted"}
Unpaid == {r \in Posted : ~runs[r].paid}

\* The header's totals cover every employee on the run, and every line is gross minus
\* deductions with all its earnings, over any sequence of edits and recalculations.
TotalsMatchLines ==
    \A r \in Runs : Exists(r) =>
        /\ runs[r].total = TotalsOf(items[r])
        /\ \A e \in DOMAIN items[r] :
              LET line == items[r][e]
              IN  line.net = line.basic + Allowance[e] + line.earnings
                               + OvertimeAmount(line.basic, line.overtime)
                               - line.absence - line.other - line.tax

\* The ledger owes people exactly the net pay of the runs that are posted and not
\* paid, and has charged the gross of the posted ones.
OwedIsPosted ==
    /\ SumFunction([a \in People |-> Balance(a)])
         = 0 - SumFunction([r \in Unpaid |-> TotalsOf(items[r]).net])
    /\ Balance(Expense) = SumFunction([r \in Posted |-> TotalsOf(items[r]).gross])

\* The money that left is the net pay of the paid runs, once each.
PaidOnce ==
    SumFunction([a \in Money |-> Balance(a)])
      = SumFunction(held) - SumFunction([r \in Posted \ Unpaid |-> TotalsOf(items[r]).net])

\* "Distribute only as much salary as the account holds": no order of edits, postings
\* and payments overdraws an account.
NeverOverdrawn == \A account \in Money : Balance(account) >= 0

\* "The employee accounts credited at posting are cleared": nobody is owed anything by
\* a run that was paid.  The code has it while nobody is given or loses an account between
\* the posting and the payment.
SettledByAccount ==
    \A r \in Posted \ Unpaid : \A a \in People : Booked(r, a) = 0

\* The loan of an employee is deducted once per installment that is due: "loan
\* installments falling due that month".  (The loan is one installment.)  The code has it for
\* one month: what was deducted is not recorded on the loan.
LoanWithinAmount ==
    \A e \in Employees :
        Cardinality({r \in Posted : e \in DOMAIN items[r] /\ items[r][e].other > Deducted[e]}) <= 1
=============================================================================
