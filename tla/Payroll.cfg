SPECIFICATION Spec
CONSTANTS
  e1 = e1
  e2 = e2
  r1 = r1
  r2 = r2
  q1 = q1
  q2 = q2
  c1 = c1
  p1 = p1
  d1 = d1
  d2 = d2
  None = None
  Fund = Fund
  Bank = Bank
  Expense = Expense
  Payable = Payable
  Deductions = Deductions
  Employees = {e1, e2}
  Days = {d1}
  Marks = {"absent"}
  Requests = {q1}
  Leave <- Requested
  Clerks = {c1}
  Runs = {r1, r2}
  Periods = {1}
  PeriodOf <- FirstMonth
  MonthDays = 2
  Staff <- Roster
  Opening = 90
  Allowance <- Allowances
  Earning <- Earnings
  Deducted <- Deductions1
  Installment <- Installments
  Changes <- Edits
  Amounts <- Payments
  Procs = {p1}
  Asked <- Requested1
  Rows <- SheetRows
INVARIANTS OwedIsPosted PaidOnce
PROPERTIES RecordedSurvives
CHECK_DEADLOCK FALSE
