-------------------------------- MODULE Reports --------------------------------
(***************************************************************************)
(* The figures that the accounting reports, the day report and the guards  *)
(* of the payment, payroll and investment services read from one ledger.   *)
(* Each has a filter of its own for the vouchers it counts.  Openings are  *)
(* dated before the first of the Days.                                     *)
(***************************************************************************)
EXTENDS Chart

CONSTANT Days  \* the days of the vouchers, in order

ASSUME ReportsAssumption ==
    /\ Days \subseteq Nat /\ IsFiniteSet(Days)
    /\ \A j \in Postings : j.amount \in Nat /\ j.day \in Days

\* What an entry adds to the debit side of an account.
Effect(j, a) == (IF j.debit = a THEN j.amount ELSE 0) - (IF j.credit = a THEN j.amount ELSE 0)

\* findOrphanVoucherReferences: the document of the voucher was deleted.
Orphan(j) == j.doc \in Parties /\ links[j.doc] = Gone

Moved(a, counted) == SumFunction([i \in counted |-> Effect(journals[i], a)])

\* postedVoucherFilter: vouchers without a reference stay in.
PostedIn(from, to) ==
    {i \in DOMAIN journals : ~Orphan(journals[i]) /\ journals[i].day \in from..to}

OpeningEffect(v, a) ==
    (IF v.account = a THEN v.amount ELSE 0) - (IF v.against = a THEN v.amount ELSE 0)

\* What the posted opening vouchers put on an account, on either side.
OnOpeningVouchers(a) ==
    SumFunction([v \in {v \in openings : v.posted} |-> OpeningEffect(v, a)])

\* Mutant: the stored balance is added to the vouchers.
MutantAccountOpening(a) == OnOpeningVouchers(a) + accounts[a].opening

\* accountOpening: the vouchers, or the stored balance when they come to nothing.
AccountOpening(a) == IF OnOpeningVouchers(a) # 0 THEN OnOpeningVouchers(a) ELSE accounts[a].opening

-------------------------------------------------------------------------------

\* accountBalance: NOT (reference LIKE 'OB:%') is not true of a missing reference.
AccountBalance(a) == AccountOpening(a) + Moved(a, {i \in DOMAIN journals : journals[i].doc # Bare})

TrialRow(a, asOf) == AccountOpening(a) + Moved(a, PostedIn(0, asOf))

Active == {a \in Accounts : accounts[a].status = "active"}

ActiveOf(types) == {a \in Active : Type(a) \in types}

TrialTotal(asOf) == SumFunction([a \in Active |-> TrialRow(a, asOf)])

\* generalLedger and cashBook: the opening of a period, and its rows.
LedgerOpening(a, from) == AccountOpening(a) + Moved(a, PostedIn(0, from - 1))
LedgerClosing(a, from, to) == LedgerOpening(a, from) + Moved(a, PostedIn(from, to))

\* daySummary: the cash at the close of a day.
ClosingCash(a, day) == AccountOpening(a) + Moved(a, PostedIn(0, day))

\* profitAndLoss: revenue less expenses of the period.
NetProfit(from, to) ==
    SumFunction([a \in ActiveOf({"REVENUE", "EXPENSE"}) |-> 0 - Moved(a, PostedIn(from, to))])

\* balanceSheet counts the opening vouchers among the movements, and again as
\* the opening of the account.
SheetBalance(a, asOf) == TrialRow(a, asOf) + OnOpeningVouchers(a)

Unclosed(asOf) ==
    SumFunction([a \in ActiveOf({"REVENUE", "EXPENSE"}) |-> 0 - SheetBalance(a, asOf)])

SheetSide(types, asOf) ==
    SumFunction([a \in ActiveOf(types) |-> SheetBalance(a, asOf)])

\* expenseReport: the entries with a debit only.
ExpenseTotal(from, to) ==
    SumFunction([a \in ActiveOf({"EXPENSE"}) |->
                   Moved(a, {i \in PostedIn(from, to) : journals[i].debit = a})])

-------------------------------------------------------------------------------
LastDay == Max(Days)

\* Every account is active, and none shows the balance that is stored on it:
\* the opening vouchers were booked, and come to something.
Complete ==
    \A a \in Accounts : Live(a) =>
      /\ accounts[a].status = "active"
      /\ accounts[a].opening # 0 => OnOpeningVouchers(a) # 0

\* The statements agree, through cancelled and replaced opening vouchers, moved
\* accounts and documents deleted by force. Once every opening is booked, the
\* trial balance of any day balances, and so does the balance sheet with the
\* profit that was not closed as equity. A period starts where the one before it
\* ended, the ledger ends where the trial balance and the close of the day are,
\* and the results of the periods add up to what the sheet shows over what was
\* there at the start. While every voucher names a document that exists, the
\* balance that the guards of payments, payroll and investments read is the one of
\* the trial balance.
StatementsAgree ==
    /\ Complete => \A d \in Days :
         /\ TrialTotal(d) = 0
         /\ SheetSide({"ASSET"}, d) = Unclosed(d) - SheetSide({"LIABILITY", "EQUITY"}, d)
    /\ \A from, to \in Days : from <= to =>
         /\ \A a \in Accounts : Live(a) =>
              /\ LedgerClosing(a, from, to) = TrialRow(a, to)
              /\ LedgerClosing(a, from, to) = ClosingCash(a, to)
              /\ LedgerOpening(a, to + 1) = LedgerClosing(a, from, to)
         /\ NetProfit(from, to) = Unclosed(to) - Unclosed(from - 1)
    /\ (\A i \in DOMAIN journals : journals[i].doc # Bare /\ ~Orphan(journals[i])) =>
         \A a \in Accounts : Live(a) => AccountBalance(a) = TrialRow(a, LastDay)

\* The comment of expenseReport: "so it always reconciles with the P&L even when
\* an expense was booked by hand through a journal voucher".  The code does not have
\* it: it leaves out the credits.
ExpensesReconcile ==
    \A from, to \in Days :
      ExpenseTotal(from, to) =
        SumFunction([a \in ActiveOf({"EXPENSE"}) |-> Moved(a, PostedIn(from, to))])

\* The sheet shows what the trial balance shows: "Every posted voucher (opening
\* balances included) contributes to the position".  The code does not have it: it counts
\* the opening vouchers twice.
SheetFollowsTrial ==
    \A a \in Accounts : Live(a) => SheetBalance(a, LastDay) = TrialRow(a, LastDay)
=============================================================================
