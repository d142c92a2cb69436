----------------------------- MODULE Payroll_proofs -----------------------------
(***************************************************************************)
(* Staff record attendance while leaves are decided and payroll is run,    *)
(* for any sheet, requests, clerks and runs: no decision on a leave loses  *)
(* what was recorded, however old what it read is.                         *)
(*                                                                         *)
(* As long as requests that overlap concern different runs, the ledger     *)
(* owes what the posted and unpaid runs say, and paid runs have been paid  *)
(* once, for any number of requests.  The inductive invariant (RunsBooked) *)
(* says for every run what its vouchers move, and of a request that the    *)
(* run is as it read it; the sums over runs and accounts follow from it.   *)
(***************************************************************************)
EXTENDS Payroll, Sums, TLAPS

\* What RecordedSurvives says of a step.
Survives ==
    leaves' # leaves =>
        \A x \in Employees \X Days :
            attendance[x] \in Marks \ {"leave"} => attendance'[x] = attendance[x]

\* No recorded mark is the missing row.
LEMMA MarksAreRows == None \notin Marks
BY AttendanceAssumption

\* A decision fills the rows that are missing.
LEMMA DecisionSurvives ==
    ASSUME NEW c \in Clerks, NEW decision, DecideCommit(c, decision)
    PROVE  Survives
<1> DEFINE q == handling[c].request
<1>1. CASE attendance' = attendance
  BY <1>1 DEF Survives
<1>2. CASE attendance' = Marked(q)
  <2> SUFFICES ASSUME NEW x \in Employees \X Days, attendance[x] \in Marks \ {"leave"}
               PROVE  attendance'[x] = attendance[x]
    BY DEF Survives
  <2>1. attendance[x] # None
    BY MarksAreRows
  <2> QED
    BY <1>2, <2>1 DEF Marked
<1> QED
  BY <1>1, <1>2 DEF DecideCommit

\* Deleting a request takes away the rows that say leave.
LEMMA RemovalSurvives ==
    ASSUME NEW c \in Clerks, RemoveRequestCommit(c)
    PROVE  Survives
<1> DEFINE q == handling[c].request
<1>1. CASE attendance' = attendance
  BY <1>1 DEF Survives
<1>2. CASE attendance' = Unmarked(q)
  BY <1>2 DEF Survives, Unmarked
<1> QED
  BY <1>1, <1>2 DEF RemoveRequestCommit

\* Every step on the sheet: those of the staff leave the requests alone.
LEMMA SheetSurvives == AttendanceNext => Survives
<1> SUFFICES ASSUME AttendanceNext PROVE Survives
  OBVIOUS
<1>1. ASSUME NEW e, NEW d, NEW mark, Record(e, d, mark) PROVE Survives
  BY <1>1 DEF Record, Survives
<1>2. ASSUME NEW d, ClearDay(d) PROVE Survives
  BY <1>2 DEF ClearDay, Survives
<1>3. ASSUME NEW q \in Requests, CreateRequest(q) PROVE Survives
  BY <1>3 DEF CreateRequest, Survives
<1>4. ASSUME NEW c \in Clerks,
             CallFails(c) \/ \E q \in Requests : DecideRead(c, q) \/ RemoveRequestRead(c, q)
      PROVE  Survives
  BY <1>4 DEF CallFails, DecideRead, RemoveRequestRead, Take, Survives
<1> QED
  BY <1>1, <1>2, <1>3, <1>4, DecisionSurvives, RemovalSurvives DEF AttendanceNext, ClearRow

\* Payroll reads the sheet and writes nothing on it.
LEMMA PayrollSurvives == [Next]_vars => [Survives]_attendanceVars
<1> SUFFICES ASSUME [Next]_vars PROVE Survives \/ UNCHANGED attendanceVars
  OBVIOUS
<1>1. ASSUME NEW p, NEW op, NEW r, NEW more, Start(p, op, r, more) PROVE UNCHANGED attendanceVars
  BY <1>1 DEF Start
<1>2. ASSUME NEW p, Finish(p) PROVE UNCHANGED attendanceVars
  BY <1>2 DEF Finish
<1>3. ASSUME NEW p \in Procs, NEW r \in Runs,
             \/ \E period \in Periods, mode \in Modes, account \in Money :
                   GenerateRead(p, r, period, mode, account)
             \/ UpdateRead(p, r) \/ RefreshRead(p, r) \/ PostRead(p, r)
             \/ \E account \in Money : DisburseRead(p, r, account)
             \/ CancelRead(p, r) \/ RemoveRead(p, r)
      PROVE  UNCHANGED attendanceVars
  BY <1>1, <1>3, Zenon
     DEF GenerateRead, UpdateRead, RefreshRead, PostRead, DisburseRead, CancelRead, RemoveRead
<1>4. ASSUME NEW p \in Procs,
             \/ GenerateCommit(p) \/ RefreshCommit(p) \/ PostCommit(p) \/ DisburseCommit(p)
             \/ \E e \in Employees, change \in Changes : UpdateCommit(p, e, change)
             \/ CancelCommit(p) \/ RemoveCommit(p) \/ Fail(p)
      PROVE  UNCHANGED attendanceVars
  BY <1>2, <1>4, Zenon
     DEF GenerateCommit, UpdateCommit, RefreshCommit, PostCommit, DisburseCommit, CancelCommit,
         RemoveCommit, Fail
<1>5. CASE \/ \E x \in Staff : SetEmployee(x[1], x[2])
           \/ \E e \in Employees, start \in Periods \cup {None} : SetLoan(e, start)
           \/ \E x \in Amounts : OtherVoucher(x[1], x[2])
  BY <1>5, Zenon DEF SetEmployee, SetLoan, OtherVoucher, attendanceVars
<1>6. CASE Sheet
  BY <1>6, SheetSurvives DEF Sheet
<1>7. CASE UNCHANGED vars
  BY <1>7 DEF vars
<1> QED
  BY <1>3, <1>4, <1>5, <1>6, <1>7, Zenon DEF Next

-------------------------------------------------------------------------------
\* Approving, rejecting and deleting leaves never overwrites or removes what staff
\* recorded, with payroll at work on the same sheet.
THEOREM RecordsSurvive == Spec => RecordedSurvives
<1>1. [Survives]_attendanceVars =>
        [leaves' # leaves =>
          \A x \in Employees \X Days :
              attendance[x] \in Marks \ {"leave"} => attendance'[x] = attendance[x]]_attendanceVars
  BY DEF Survives
<1> QED
  BY <1>1, PayrollSurvives, PTL DEF Spec, RecordedSurvives

\* Requests that are in progress together are about different runs.
RunsApart ==
    \A q1, q2 \in Procs : q1 # q2 /\ reqs[q1] # Idle /\ reqs[q2] # Idle
                         => reqs[q1].id # reqs[q2].id

-------------------------------------------------------------------------------
(* What the vouchers of a run move.                                         *)

\* Lines as computeLines and the edits leave them.
Paysheet(lines) ==
    /\ DOMAIN lines \subseteq Employees
    /\ \A e \in DOMAIN lines :
          /\ lines[e] \in Line
          /\ lines[e].net = lines[e].gross - lines[e].deduction
          /\ lines[e].deduction >= 0

PeopleGet(entries) == SumFunctionOnSet(entries, People)

\* The accrual charges the gross and owes people the net.
Charges(entries, lines) ==
    /\ PeopleGet(entries) = 0 - TotalsOf(lines).net
    /\ entries[Expense] = TotalsOf(lines).gross
    /\ entries[Fund] + entries[Bank] = 0

\* The disbursement clears what people are owed, with money.
Settles(entries, lines) ==
    /\ PeopleGet(entries) = TotalsOf(lines).net
    /\ entries[Expense] = 0
    /\ entries[Fund] + entries[Bank] = 0 - TotalsOf(lines).net

Run == [status : {"draft", "posted", "cancelled"}, period : Periods, paid : BOOLEAN, total : Totals]

\* A run's vouchers are those its status calls for, and none is astray.
RunBooked(r) ==
    /\ runs[r] \in Run \/ runs[r].status \in {"absent", "deleted"}
    /\ Paysheet(items[r])
    /\ books[r] \in [accrual : Entries, disbursement : Entries, stray : Entries]
    /\ runs[r].status = "draft" => ~runs[r].paid
    /\ runs[r].status # "posted" => books[r] = NoBooks
    /\ runs[r].status = "posted" =>
          /\ Charges(books[r].accrual, items[r])
          /\ IF runs[r].paid THEN Settles(books[r].disbursement, items[r])
                             ELSE books[r].disbursement = Nothing
          /\ books[r].stray = Nothing

\* A request has read what is there, and what it decided on still holds.
Current(p) ==
    LET q == reqs[p]
    IN  \/ q = Idle
        \/ /\ q # Idle /\ q.id \in Runs
           /\ q.run = runs[q.id] /\ q.lines = items[q.id]
           /\ q.op \in {"generate", "update", "refresh", "post", "disburse", "cancel", "remove"}
           /\ q.op = "generate" => /\ runs[q.id].status = "absent" /\ Paysheet(q.form.new)
                                   /\ q.form.period \in Periods /\ q.form.account \in Money
           /\ q.op = "refresh" => Paysheet(q.form.new)
           /\ q.op \in {"update", "refresh", "post"} => runs[q.id].status = "draft"
           /\ q.op = "disburse" => Disbursable(runs[q.id]) /\ q.form.account \in Money
           /\ q.op = "cancel" => runs[q.id].status = "posted"

RunsBooked ==
    /\ reqs = [p \in Procs |-> reqs[p]]
    /\ runs = [r \in Runs |-> runs[r]]
    /\ items = [r \in Runs |-> items[r]]
    /\ books = [r \in Runs |-> books[r]]
    /\ attendance \in [Employees \X Days -> Marks \cup {"leave", None}]
    /\ employees \in [Employees -> Employee]
    /\ held \in [Money -> Int]
    /\ \A r \in Runs : RunBooked(r)
    /\ \A p \in Procs : Current(p)

-------------------------------------------------------------------------------
(* Lines and totals.                                                        *)

LEMMA SheetIsFinite ==
    ASSUME NEW lines, Paysheet(lines)
    PROVE  IsFiniteSet(DOMAIN lines)
BY PayrollAssumption, FS_Subset DEF Paysheet

\* The totals of a sheet are those of its lines: net is gross minus deductions.
LEMMA TotalsAdd ==
    ASSUME NEW lines, Paysheet(lines)
    PROVE  /\ TotalsOf(lines) \in Totals
           /\ TotalsOf(lines).net = TotalsOf(lines).gross - TotalsOf(lines).deduction
           /\ TotalsOf(lines).deduction >= 0
<1> DEFINE D == DOMAIN lines
           gross == [e \in D |-> lines[e].gross]
           deduction == [e \in D |-> lines[e].deduction]
           net == [e \in D |-> lines[e].net]
<1>1. IsFiniteSet(D)
  BY SheetIsFinite
<1>2. \A e \in D : gross[e] \in Int /\ deduction[e] \in Nat /\ net[e] \in Int
                     /\ gross[e] = net[e] + deduction[e]
  BY DEF Paysheet, Line
<1>3. TotalsOf(lines) = [gross |-> SumFunctionOnSet(gross, D),
                         deduction |-> SumFunctionOnSet(deduction, D),
                         net |-> SumFunctionOnSet(net, D)]
  BY DEF TotalsOf, SumFunction
<1> HIDE DEF D, gross, deduction, net
<1>4. /\ SumFunctionOnSet(gross, D) \in Int
      /\ SumFunctionOnSet(deduction, D) \in Nat
      /\ SumFunctionOnSet(net, D) \in Int
  BY <1>1, <1>2, SumType, SumNotNegative
<1>5. SumFunctionOnSet(gross, D) = SumFunctionOnSet(net, D) + SumFunctionOnSet(deduction, D)
  BY <1>1, <1>2, SumPlus
<1> QED
  BY <1>3, <1>4, <1>5 DEF Totals

LEMMA AccountsDiffer ==
    /\ Expense \notin People /\ Fund \notin People /\ Bank \notin People /\ Deductions \notin People
    /\ Expense \notin Money /\ Deductions \notin Money /\ Expense # Deductions /\ Fund # Bank
    /\ IsFiniteSet(People) /\ IsFiniteSet(Money) /\ IsFiniteSet({Expense, Deductions})
    /\ Accounts = People \cup (Money \cup {Expense, Deductions})
<1>1. IsFiniteSet(People)
  BY PayrollAssumption, FS_AddElement DEF People
<1>2. IsFiniteSet(Money) /\ IsFiniteSet({Expense, Deductions})
  BY PairIsFinite DEF Money
<1> QED
  BY <1>1, <1>2, PayrollAssumption DEF Money, Accounts

\* An entry per account: people, the two money accounts, expense and deductions.
LEMMA EntriesAddUp ==
    ASSUME NEW x \in Entries
    PROVE  /\ PeopleGet(x) \in Int
           /\ SumFunctionOnSet(x, Accounts)
                = PeopleGet(x) + x[Fund] + x[Bank] + x[Expense] + x[Deductions]
<1> DEFINE rest == {Expense, Deductions}
<1>1. \A a \in Accounts : x[a] \in Int
  BY DEF Entries
<1>2. IsFiniteSet(Money \cup rest) /\ People \cap (Money \cup rest) = {} /\ Money \cap rest = {}
  BY AccountsDiffer, FS_Union, PayrollAssumption
<1>3. PeopleGet(x) \in Int
  BY <1>1, AccountsDiffer, SumType DEF PeopleGet, Accounts
<1>4. SumFunctionOnSet(x, Accounts) = PeopleGet(x) + SumFunctionOnSet(x, Money \cup rest)
  <2>1. Accounts = People \cup (Money \cup rest) /\ IsFiniteSet(People)
    BY AccountsDiffer
  <2> QED
    BY <1>1, <1>2, <2>1, SumUnion DEF PeopleGet
<1>5. SumFunctionOnSet(x, Money \cup rest) = SumFunctionOnSet(x, Money) + SumFunctionOnSet(x, rest)
  <2>1. \A a \in Money \cup rest : x[a] \in Int
    BY <1>1 DEF Accounts
  <2> QED
    BY <1>2, <2>1, AccountsDiffer, SumUnion
<1>6. x[Fund] \in Int /\ x[Bank] \in Int /\ x[Expense] \in Int /\ x[Deductions] \in Int
  BY <1>1 DEF Accounts, Money
<1>7. SumFunctionOnSet(x, Money) = x[Fund] + x[Bank]
  BY <1>6, AccountsDiffer, SumOfTwo DEF Money
<1>8. SumFunctionOnSet(x, rest) = x[Expense] + x[Deductions]
  BY <1>6, AccountsDiffer, SumOfTwo
<1> HIDE DEF rest
<1> QED
  BY <1>3, <1>4, <1>5, <1>6, <1>7, <1>8

\* What people get of a sheet is integral, whoever has an account.
LEMMA SharesType ==
    ASSUME NEW lines, Paysheet(lines)
    PROVE  Shares(lines) \in [People -> Int]
<1> DEFINE others == {e \in DOMAIN lines : ~employees[e].linked}
           net == [e \in others |-> lines[e].net]
<1>1. IsFiniteSet(others)
  BY SheetIsFinite, FS_Subset
<1>2. \A e \in DOMAIN lines : lines[e].net \in Int
  BY DEF Paysheet, Line
<1>3. SumFunction(net) \in Int
  <2>1. \A e \in others : net[e] \in Int
    BY <1>2
  <2>2. DOMAIN net = others
    OBVIOUS
  <2> HIDE DEF net, others
  <2> QED
    BY <1>1, <2>1, <2>2, SumType DEF SumFunction
<1> QED
  BY <1>2, <1>3 DEF Shares

\* A balanced accrual owes people the net pay of the sheet.
LEMMA AccrualCharges ==
    ASSUME NEW lines, Paysheet(lines), Balanced(AccrualEntries(lines))
    PROVE  AccrualEntries(lines) \in Entries /\ Charges(AccrualEntries(lines), lines)
<1> DEFINE x == AccrualEntries(lines)
           total == TotalsOf(lines)
<1>1. total.gross \in Int /\ total.deduction \in Int /\ total.net \in Int
      /\ total.net = total.gross - total.deduction /\ total.deduction >= 0
  BY TotalsAdd DEF Totals
<1>2. x \in Entries
  <2> HIDE DEF total
  <2> SUFFICES ASSUME NEW a \in Accounts PROVE x[a] \in Int
    BY DEF AccrualEntries, Entries
  <2> QED
    BY <1>1, SharesType DEF AccrualEntries, total
<1>3. /\ x[Expense] = total.gross /\ x[Fund] = 0 /\ x[Bank] = 0
      /\ x[Deductions] = 0 - total.deduction
  <2>1. {Expense, Fund, Bank, Deductions} \subseteq Accounts
    BY DEF Accounts, Money
  <2> QED
    BY <1>1, <2>1, AccountsDiffer DEF AccrualEntries, Money
<1> HIDE DEF x, total
<1>4. SumFunctionOnSet(x, Accounts) = 0
  BY DEF Balanced, x
<1> QED
  BY <1>1, <1>2, <1>3, <1>4, EntriesAddUp DEF Charges, x, total

\* A balanced disbursement pays people the net pay of the sheet from one account.
LEMMA SettlementSettles ==
    ASSUME NEW lines, Paysheet(lines), NEW account \in Money,
           Balanced(SettlementEntries(lines, account))
    PROVE  /\ SettlementEntries(lines, account) \in Entries
           /\ Settles(SettlementEntries(lines, account), lines)
<1> DEFINE x == SettlementEntries(lines, account)
           total == TotalsOf(lines)
<1>1. total.net \in Int
  BY TotalsAdd DEF Totals
<1>2. x \in Entries
  <2> HIDE DEF total
  <2> SUFFICES ASSUME NEW a \in Accounts PROVE x[a] \in Int
    BY DEF SettlementEntries, Entries
  <2> QED
    BY <1>1, SharesType DEF SettlementEntries, total
<1>3. x[Expense] = 0 /\ x[Deductions] = 0 /\ x[Fund] + x[Bank] = 0 - total.net
  <2>1. {Expense, Fund, Bank, Deductions} \subseteq Accounts
    BY DEF Accounts, Money
  <2> QED
    BY <1>1, <2>1, AccountsDiffer DEF SettlementEntries, Money
<1> HIDE DEF x, total
<1>4. SumFunctionOnSet(x, Accounts) = 0
  BY DEF Balanced, x
<1>5. x[Fund] \in Int /\ x[Bank] \in Int
  BY <1>2 DEF Entries, Accounts, Money
<1> QED
  BY <1>1, <1>2, <1>3, <1>4, <1>5, EntriesAddUp DEF Settles, x, total

LEMMA NothingMoves ==
    /\ Nothing \in Entries /\ PeopleGet(Nothing) = 0
    /\ Nothing[Expense] = 0 /\ Nothing[Fund] = 0 /\ Nothing[Bank] = 0
<1>1. Nothing \in Entries
  BY DEF Nothing, Entries
<1>2. \A a \in Accounts : Nothing[a] = 0
  BY DEF Nothing
<1>3. PeopleGet(Nothing) = SumFunctionOnSet(Nothing, {})
  <2>1. IsFiniteSet(People) /\ \A a \in People : Nothing[a] = 0
    BY <1>2, AccountsDiffer DEF Accounts
  <2> QED
    BY <2>1, SumSubset DEF PeopleGet
<1> QED
  BY <1>1, <1>2, <1>3, SumEmpty DEF Accounts, Money

-------------------------------------------------------------------------------
(* Steps.                                                                   *)

\* What a request has read.
LEMMA Started ==
    ASSUME RunsBooked, NEW p \in Procs, NEW op, NEW r \in Runs, NEW form, Start(p, op, r, form)
    PROVE  /\ reqs' = [q \in Procs |-> reqs'[q]]
           /\ \A q \in Procs : q # p => reqs'[q] = reqs[q]
           /\ reqs'[p] # Idle /\ reqs'[p].op = op /\ reqs'[p].id = r
           /\ reqs'[p].run = runs[r] /\ reqs'[p].lines = items[r] /\ reqs'[p].form = form
           /\ UNCHANGED <<employees, held, runs, items, books, attendance>>
<1> DEFINE new == [stage |-> "checked", op |-> op, id |-> r,
                   run |-> runs[r], lines |-> items[r], form |-> form]
<1>1. reqs' = [reqs EXCEPT ![p] = new] /\ reqs = [q \in Procs |-> reqs[q]]
  BY DEF Start, RunsBooked
<1>2. reqs'[p] = new /\ reqs' = [q \in Procs |-> reqs'[q]] /\ \A q \in Procs : q # p => reqs'[q] = reqs[q]
  <2> HIDE DEF new
  <2> QED
    BY <1>1
<1>3. new # Idle
  <2>1. new.stage = "checked" /\ Idle.stage = "idle"
    BY DEF Idle
  <2> QED
    BY <2>1
<1>4. UNCHANGED <<employees, held, runs, items, books, attendance>>
  BY DEF Start, ledgerVars, attendanceVars
<1> QED
  BY <1>2, <1>3, <1>4

\* A read leaves the runs alone; what is left to show is that it has read what is there.
LEMMA ReadKeeps ==
    ASSUME RunsBooked, NEW p \in Procs,
           reqs' = [q \in Procs |-> reqs'[q]],
           \A q \in Procs : q # p => reqs'[q] = reqs[q],
           UNCHANGED <<employees, held, runs, items, books, attendance>>,
           Current(p)'
    PROVE  RunsBooked'
<1>1. \A r \in Runs : RunBooked(r)'
  BY DEF RunsBooked, RunBooked
<1>2. ASSUME NEW q \in Procs, q # p PROVE Current(q)'
  BY <1>2 DEF RunsBooked, Current
<1> QED
  BY <1>1, <1>2 DEF RunsBooked

\* A commit changes its own run, and the requests on other runs find theirs as they read it.
LEMMA CommitKeeps ==
    ASSUME RunsBooked, RunsApart, NEW p \in Procs, Finish(p),
           reqs[p] # Idle, NEW r \in Runs, r = reqs[p].id,
           runs' = [x \in Runs |-> runs'[x]], \A x \in Runs : x # r => runs'[x] = runs[x],
           items' = [x \in Runs |-> items'[x]], \A x \in Runs : x # r => items'[x] = items[x],
           books' = [x \in Runs |-> books'[x]], \A x \in Runs : x # r => books'[x] = books[x],
           RunBooked(r)'
    PROVE  RunsBooked'
<1>1. ASSUME NEW x \in Runs, x # r PROVE RunBooked(x)'
  BY <1>1 DEF RunsBooked, RunBooked
<1>2. reqs' = [q \in Procs |-> reqs'[q]] /\ reqs'[p] = Idle
  BY DEF RunsBooked, Finish
<1>3. ASSUME NEW q \in Procs PROVE Current(q)'
  <2>1. CASE q = p
    BY <1>2, <2>1 DEF Current
  <2>2. CASE q # p /\ reqs[q] = Idle
    BY <2>2 DEF Finish, RunsBooked, Current
  <2>3. CASE q # p /\ reqs[q] # Idle
    <3>1. reqs[q].id # r /\ Current(q) /\ reqs'[q] = reqs[q]
      BY <2>3 DEF RunsApart, Finish, RunsBooked
    <3>2. reqs[q].id \in Runs
      BY <3>1, <2>3 DEF Current
    <3>3. runs'[reqs[q].id] = runs[reqs[q].id] /\ items'[reqs[q].id] = items[reqs[q].id]
      BY <3>1, <3>2
    <3> QED
      BY <3>1, <3>3 DEF Current
  <2> QED
    BY <2>1, <2>2, <2>3
<1>4. UNCHANGED <<employees, held, attendance>>
  BY DEF Finish, attendanceVars
<1> QED
  BY <1>1, <1>2, <1>3, <1>4 DEF RunsBooked

\* What happens between requests leaves the runs alone.
LEMMA BetweenKeeps ==
    ASSUME RunsBooked, UNCHANGED <<runs, items, books, reqs>>,
           employees' \in [Employees -> Employee], held' \in [Money -> Int],
           attendance' \in [Employees \X Days -> Marks \cup {"leave", None}]
    PROVE  RunsBooked'
<1>1. \A r \in Runs : RunBooked(r)'
  BY DEF RunsBooked, RunBooked
<1>2. \A p \in Procs : Current(p)'
  BY DEF RunsBooked, Current
<1> QED
  BY <1>1, <1>2 DEF RunsBooked

-------------------------------------------------------------------------------
(* Lines.                                                                   *)

LEMMA RoundedType == \A n \in Nat, d \in Nat \ {0} : Rounded(n, d) \in Nat
BY DEF Rounded

\* Products of amounts and hours.
LEMMA ProductType == \A n, m \in Nat : n * m \in Nat
OBVIOUS

LEMMA DerivedType ==
    ASSUME NEW line \in Line, NEW gross \in Int
    PROVE  LET new == Derived(line, gross)
           IN  new \in Line /\ new.net = new.gross - new.deduction /\ new.deduction >= 0
<1> DEFINE deduction == line.absence + line.other + line.tax
           l1 == [line EXCEPT !.gross = gross]
           l2 == [l1 EXCEPT !.deduction = deduction]
           l3 == [l2 EXCEPT !.net = gross - deduction]
<1>1. deduction \in Nat
  BY DEF Line
<1>2. Derived(line, gross) = l3
  BY DEF Derived
<1> HIDE DEF deduction
<1>3. l1 \in Line /\ l1.gross = gross
  BY DEF Line
<1> HIDE DEF l1
<1>4. l2 \in Line /\ l2.gross = gross /\ l2.deduction = deduction
  BY <1>1, <1>3 DEF Line
<1> HIDE DEF l2
<1>5. l3 \in Line /\ l3.gross = gross /\ l3.deduction = deduction /\ l3.net = gross - deduction
  BY <1>1, <1>4 DEF Line
<1> HIDE DEF l3
<1> QED
  BY <1>1, <1>2, <1>5

LEMMA ComputedType ==
    ASSUME RunsBooked, NEW e \in Employees, NEW period \in Periods, NEW tax \in Nat
    PROVE  LET line == Computed(e, period, tax)
           IN  line \in Line /\ line.net = line.gross - line.deduction /\ line.deduction >= 0
<1> DEFINE days(mark) == {d \in Days : PeriodOf[d] = period /\ attendance[<<e, d>>] = mark}
           halves == AbsentHalves(e, period)
           basic == employees[e].basic
           loan == IF loans[e] # None /\ loans[e] <= period THEN Installment[e] ELSE 0
           absence == Rounded(basic * halves, MonthDays * 2)
<1>1. Cardinality(days("absent")) \in Nat /\ Cardinality(days("half_day")) \in Nat
  <2>1. IsFiniteSet(days("absent")) /\ IsFiniteSet(days("half_day"))
    BY PayrollAssumption, FS_Subset
  <2> QED
    BY <2>1, FS_CardinalityType
<1>2. halves \in Nat
  BY <1>1 DEF AbsentHalves
<1>3. basic \in Nat
  BY DEF RunsBooked, Employee
<1>4. /\ loan \in Nat /\ Allowance[e] \in Nat /\ Earning[e] \in Nat /\ Deducted[e] \in Nat
      /\ MonthDays * 2 \in Nat \ {0}
  BY PayrollAssumption
<1>5. absence \in Nat
  <2> HIDE DEF basic, halves
  <2> QED
    BY <1>2, <1>3, <1>4, ProductType, RoundedType
<1> DEFINE base == [basic |-> basic, earnings |-> Earning[e], overtime |-> 0,
                    absence |-> absence, other |-> Deducted[e] + loan, tax |-> tax,
                    gross |-> 0, deduction |-> 0, net |-> 0]
<1>6. Computed(e, period, tax) = Derived(base, basic + Allowance[e] + Earning[e])
  BY DEF Computed
<1> HIDE DEF basic, loan, absence
<1>7. base \in Line
  BY <1>3, <1>4, <1>5 DEF Line
<1>8. basic + Allowance[e] + Earning[e] \in Int
  BY <1>3, <1>4
<1> HIDE DEF base
<1> QED
  BY <1>6, <1>7, <1>8, DerivedType

\* An edited line is derived from its parts again.
LEMMA EditedType ==
    ASSUME NEW line \in Line, NEW allowance \in Nat, NEW change \in Changes
    PROVE  LET new == Edited(line, allowance, change)
           IN  new \in Line /\ new.net = new.gross - new.deduction /\ new.deduction >= 0
<1>1. change[1] \in Nat /\ change[2] \in Nat /\ change[3] \in Nat
  BY PayrollAssumption
<1>2. OvertimeAmount(line.basic, change[1]) \in Nat
  <2>1. line.basic \in Nat /\ MonthDays * 8 \in Nat \ {0}
    BY PayrollAssumption DEF Line
  <2> QED
    BY <1>1, <2>1, ProductType, RoundedType DEF OvertimeAmount
<1> DEFINE base == [line EXCEPT !.overtime = change[1], !.other = change[2], !.tax = change[3]]
           gross == line.basic + allowance + OvertimeAmount(line.basic, change[1]) + line.earnings
<1>3. base \in Line
  BY <1>1 DEF Line
<1>4. gross \in Int
  BY <1>2 DEF Line
<1>5. Edited(line, allowance, change) = Derived(base, gross)
  BY DEF Edited
<1> HIDE DEF base, gross
<1> QED
  BY <1>3, <1>4, <1>5, DerivedType

-------------------------------------------------------------------------------
(* Booking a run.                                                           *)

\* A run that has nothing booked is posted, and paid with it or later.
LEMMA BookedWell ==
    ASSUME RunsBooked, NEW r \in Runs, NEW run \in Run, NEW lines, Paysheet(lines),
           NEW post \in BOOLEAN, NEW settle \in BOOLEAN, NEW account \in Money,
           BookRun(r, run, lines, post, settle, account),
           items'[r] = lines,
           \/ post /\ ~run.paid /\ books[r] = NoBooks
           \/ ~post /\ settle /\ run = runs[r] /\ Disbursable(run) /\ lines = items[r]
    PROVE  RunBooked(r)'
<1> DEFINE new == Header(run, lines, post, settle)
           booked == Rebooked(books[r], lines, post, settle, account)
<1>1. runs'[r] = new /\ books'[r] = booked
  BY DEF BookRun, RunsBooked
<1>2. new \in Run /\ new.status = "posted" /\ (new.paid <=> run.paid \/ settle)
  <2>1. TotalsOf(lines) \in Totals
    BY TotalsAdd
  <2>2. run.status = "posted" \/ post
    BY DEF Disbursable
  <2> QED
    BY <2>1, <2>2 DEF Run, Header
<1>3. /\ books[r].stray = Nothing /\ books[r].disbursement = Nothing
      /\ post => books[r].accrual = Nothing
      /\ ~post => books[r].accrual \in Entries /\ Charges(books[r].accrual, lines)
  BY DEF RunsBooked, RunBooked, NoBooks, Disbursable
<1>4. Plus(Nothing, Plus(Nothing, Nothing)) = Nothing
  BY DEF Plus, Nothing
<1>5. /\ booked.accrual = IF post THEN AccrualEntries(lines) ELSE books[r].accrual
      /\ booked.disbursement = IF settle THEN SettlementEntries(lines, account) ELSE Nothing
      /\ booked.stray = Nothing
      /\ booked = [accrual |-> booked.accrual, disbursement |-> booked.disbursement,
                   stray |-> booked.stray]
  BY <1>3, <1>4 DEF Rebooked
<1> HIDE DEF new, booked
<1>6. booked.accrual \in Entries /\ Charges(booked.accrual, lines)
  BY <1>3, <1>5, AccrualCharges DEF BookRun
<1>7. /\ booked.disbursement \in Entries
      /\ IF settle THEN Settles(booked.disbursement, lines) ELSE booked.disbursement = Nothing
  BY <1>5, NothingMoves, SettlementSettles DEF BookRun
<1>8. run.paid => settle /\ FALSE
  BY DEF Disbursable
<1>9. booked \in [accrual : Entries, disbursement : Entries, stray : Entries]
  BY <1>5, <1>6, <1>7, NothingMoves
<1> QED
  BY <1>1, <1>2, <1>5, <1>6, <1>7, <1>8, <1>9 DEF RunBooked, Charges, Settles

\* What BookRun writes is the run's.
LEMMA BookRunFrame ==
    ASSUME RunsBooked, NEW r \in Runs, NEW run, NEW lines, NEW post, NEW settle, NEW account,
           BookRun(r, run, lines, post, settle, account)
    PROVE  /\ runs' = [x \in Runs |-> runs'[x]] /\ \A x \in Runs : x # r => runs'[x] = runs[x]
           /\ books' = [x \in Runs |-> books'[x]] /\ \A x \in Runs : x # r => books'[x] = books[x]
<1>1. /\ runs' = [runs EXCEPT ![r] = Header(run, lines, post, settle)]
      /\ books' = [books EXCEPT ![r] = Rebooked(books[r], lines, post, settle, account)]
  BY DEF BookRun
<1>2. runs = [x \in Runs |-> runs[x]] /\ books = [x \in Runs |-> books[x]]
  BY DEF RunsBooked
<1> QED
  BY <1>1, <1>2

LEMMA GenerateKeeps ==
    ASSUME RunsBooked, RunsApart, NEW p \in Procs, GenerateCommit(p)
    PROVE  RunsBooked'
<1>1. PICK r \in Runs : r = reqs[p].id
  BY DEF GenerateCommit, Committing, RunsBooked, Current
<1>2. PICK form : form = reqs[p].form
  OBVIOUS
<1> DEFINE run == [status |-> "draft", period |-> form.period, paid |-> FALSE,
                   total |-> TotalsOf(form.new)]
<1>3. /\ Paysheet(form.new) /\ form.account \in Money
      /\ form.period \in Periods /\ runs[r].status = "absent" /\ Finish(p) /\ reqs[p] # Idle
  BY <1>1, <1>2 DEF GenerateCommit, Committing, RunsBooked, Current
<1>4. run \in Run /\ run.status = "draft" /\ ~run.paid
  BY <1>3, TotalsAdd DEF Run
<1>5. books[r] = NoBooks /\ books[r] \in [accrual : Entries, disbursement : Entries, stray : Entries]
  BY <1>3 DEF RunsBooked, RunBooked
<1>6. items' = [items EXCEPT ![r] = form.new]
  BY <1>1, <1>2 DEF GenerateCommit
<1>7. items' = [x \in Runs |-> items'[x]] /\ items'[r] = form.new
      /\ \A x \in Runs : x # r => items'[x] = items[x]
  BY <1>6 DEF RunsBooked
<1>8. IF form.mode = "draft"
      THEN runs' = [runs EXCEPT ![r] = run] /\ UNCHANGED books
      ELSE BookRun(r, run, form.new, TRUE, form.mode = "post_and_pay", form.account)
  BY <1>1, <1>2, Zenon DEF GenerateCommit
<1> HIDE DEF run
<1>9. CASE runs' = [runs EXCEPT ![r] = run] /\ UNCHANGED books
  <2>1. /\ runs' = [x \in Runs |-> runs'[x]] /\ runs'[r] = run
        /\ \A x \in Runs : x # r => runs'[x] = runs[x]
        /\ books' = [x \in Runs |-> books'[x]]
    BY <1>9 DEF RunsBooked
  <2>2. RunBooked(r)'
    BY <1>3, <1>4, <1>5, <1>7, <1>9, <2>1 DEF RunBooked
  <2> QED
    BY <1>1, <1>3, <1>7, <1>9, <2>1, <2>2, CommitKeeps
<1>10. CASE BookRun(r, run, form.new, TRUE, form.mode = "post_and_pay", form.account)
  <2>1. PICK settle \in BOOLEAN : BookRun(r, run, form.new, TRUE, settle, form.account)
    BY <1>10
  <2>2. RunBooked(r)'
    BY <1>3, <1>4, <1>5, <1>7, <2>1, BookedWell
  <2> QED
    BY <1>1, <1>3, <1>7, <2>1, <2>2, BookRunFrame, CommitKeeps
<1> QED
  BY <1>8, <1>9, <1>10

LEMMA PostKeeps ==
    ASSUME RunsBooked, RunsApart, NEW p \in Procs, PostCommit(p)
    PROVE  RunsBooked'
<1>1. PICK r \in Runs : r = reqs[p].id
  BY DEF PostCommit, Committing, RunsBooked, Current
<1>2. /\ runs[r].status = "draft" /\ Finish(p) /\ reqs[p] # Idle
      /\ BookRun(r, runs[r], items[r], TRUE, FALSE, Fund) /\ UNCHANGED items
  BY <1>1 DEF PostCommit, Committing, RunsBooked, Current
<1>3. runs[r] \in Run /\ ~runs[r].paid /\ Paysheet(items[r]) /\ books[r] = NoBooks
  BY <1>2 DEF RunsBooked, RunBooked
<1>4. RunBooked(r)'
  BY <1>2, <1>3, BookedWell DEF Money
<1>5. items' = [x \in Runs |-> items'[x]] /\ \A x \in Runs : x # r => items'[x] = items[x]
  BY <1>2 DEF RunsBooked
<1> QED
  BY <1>1, <1>2, <1>4, <1>5, BookRunFrame, CommitKeeps

LEMMA DisburseKeeps ==
    ASSUME RunsBooked, RunsApart, NEW p \in Procs, DisburseCommit(p)
    PROVE  RunsBooked'
<1>1. PICK r \in Runs, account \in Money : r = reqs[p].id /\ account = reqs[p].form.account
  BY DEF DisburseCommit, Committing, RunsBooked, Current
<1>2. /\ Disbursable(runs[r]) /\ Finish(p) /\ reqs[p] # Idle
      /\ BookRun(r, runs[r], items[r], FALSE, TRUE, account) /\ UNCHANGED items
  BY <1>1 DEF DisburseCommit, Committing, RunsBooked, Current
<1>3. runs[r] \in Run /\ Paysheet(items[r])
  BY <1>2 DEF RunsBooked, RunBooked, Disbursable
<1>4. RunBooked(r)'
  BY <1>2, <1>3, BookedWell
<1>5. items' = [x \in Runs |-> items'[x]] /\ \A x \in Runs : x # r => items'[x] = items[x]
  BY <1>2 DEF RunsBooked
<1> QED
  BY <1>1, <1>2, <1>4, <1>5, BookRunFrame, CommitKeeps

\* Saving the lines of a draft.
LEMMA SavedKeeps ==
    ASSUME RunsBooked, RunsApart, NEW p \in Procs, Finish(p), reqs[p] # Idle,
           NEW r \in Runs, r = reqs[p].id, runs[r].status = "draft", NEW lines, Paysheet(lines), Saved(r, lines)
    PROVE  RunsBooked'
<1>1. /\ items' = [x \in Runs |-> items'[x]] /\ items'[r] = lines
      /\ \A x \in Runs : x # r => items'[x] = items[x]
  BY DEF Saved, RunsBooked
<1>2. /\ runs' = [x \in Runs |-> runs'[x]] /\ runs'[r] = [runs[r] EXCEPT !.total = TotalsOf(lines)]
      /\ \A x \in Runs : x # r => runs'[x] = runs[x]
  BY DEF Saved, RunsBooked
<1>3. books' = books /\ books' = [x \in Runs |-> books'[x]]
  BY DEF Saved, RunsBooked
<1>4. runs[r] \in Run /\ ~runs[r].paid /\ books[r] = NoBooks
      /\ books[r] \in [accrual : Entries, disbursement : Entries, stray : Entries]
  BY DEF RunsBooked, RunBooked
<1>5. runs'[r] \in Run /\ runs'[r].status = "draft" /\ runs'[r].paid = runs[r].paid
  BY <1>2, <1>4, TotalsAdd DEF Run
<1>6. RunBooked(r)'
  BY <1>1, <1>3, <1>4, <1>5 DEF RunBooked
<1> QED
  BY <1>1, <1>2, <1>3, <1>6, CommitKeeps

LEMMA UpdateKeeps ==
    ASSUME RunsBooked, RunsApart, NEW p \in Procs,
           NEW e \in Employees, NEW change \in Changes, UpdateCommit(p, e, change)
    PROVE  RunsBooked'
<1>1. PICK r \in Runs : r = reqs[p].id
  BY DEF UpdateCommit, Committing, RunsBooked, Current
<1> DEFINE line == Edited(items[r][e], Allowance[e], change)
           lines == [items[r] EXCEPT ![e] = line]
<1>2. /\ runs[r].status = "draft" /\ Finish(p) /\ reqs[p] # Idle /\ e \in DOMAIN items[r]
      /\ Saved(r, lines)
  BY <1>1 DEF UpdateCommit, Committing, RunsBooked, Current
<1>3. Paysheet(items[r])
  BY DEF RunsBooked, RunBooked
<1>4. line \in Line /\ line.net = line.gross - line.deduction /\ line.deduction >= 0
  <2>1. items[r][e] \in Line /\ Allowance[e] \in Nat
    BY <1>2, <1>3, PayrollAssumption DEF Paysheet
  <2> QED
    BY <2>1, EditedType
<1>5. Paysheet(lines)
  <2> HIDE DEF line
  <2> QED
    BY <1>3, <1>4 DEF Paysheet
<1> HIDE DEF lines
<1> QED
  BY <1>1, <1>2, <1>5, SavedKeeps

LEMMA RefreshKeeps ==
    ASSUME RunsBooked, RunsApart, NEW p \in Procs, RefreshCommit(p)
    PROVE  RunsBooked'
<1>1. PICK r \in Runs : r = reqs[p].id
  BY DEF RefreshCommit, Committing, RunsBooked, Current
<1>5. PICK new : new = reqs[p].form.new
  OBVIOUS
<1> DEFINE lines == Merged(new, items[r])
<1>2. runs[r].status = "draft" /\ Finish(p) /\ reqs[p] # Idle /\ Paysheet(new) /\ Saved(r, lines)
  BY <1>1, <1>5 DEF RefreshCommit, Committing, RunsBooked, Current
<1>3. Paysheet(items[r])
  BY DEF RunsBooked, RunBooked
<1>4. Paysheet(lines)
  BY <1>2, <1>3 DEF Paysheet, Merged
<1> HIDE DEF lines
<1> QED
  BY <1>1, <1>2, <1>4, SavedKeeps

\* A posted run is reversed: all it has booked is taken back.
LEMMA ReversedIsEmpty ==
    ASSUME RunsBooked, NEW r \in Runs, runs[r].status = "posted"
    PROVE  Reversed(r, runs[r]) = [books EXCEPT ![r] = NoBooks]
<1> DEFINE b == books[r]
           b1 == [b EXCEPT !.accrual = Nothing]
           b2 == [b1 EXCEPT !.disbursement = IF runs[r].paid THEN Nothing ELSE @]
<1>1. /\ b = [accrual |-> b.accrual, disbursement |-> b.disbursement, stray |-> b.stray]
      /\ b.stray = Nothing /\ (~runs[r].paid => b.disbursement = Nothing)
  BY DEF RunsBooked, RunBooked
<1>2. b2 = NoBooks
  <2>1. b1 = [accrual |-> Nothing, disbursement |-> b.disbursement, stray |-> Nothing]
    <3> HIDE DEF b
    <3> QED
      BY <1>1
  <2> HIDE DEF b1, b
  <2> QED
    BY <1>1, <2>1 DEF NoBooks
<1>3. books = [x \in Runs |-> books[x]]
  BY DEF RunsBooked
<1>4. Reversed(r, runs[r]) = [[books EXCEPT ![r] = b1] EXCEPT ![r] = b2]
  BY <1>3 DEF Reversed
<1> HIDE DEF b1, b2
<1> QED
  BY <1>2, <1>3, <1>4

LEMMA CancelKeeps ==
    ASSUME RunsBooked, RunsApart, NEW p \in Procs, CancelCommit(p)
    PROVE  RunsBooked'
<1>0. PICK r \in Runs : r = reqs[p].id
  BY DEF CancelCommit, Committing, RunsBooked, Current
<1>1. /\ runs[r].status = "posted" /\ Finish(p) /\ reqs[p] # Idle /\ UNCHANGED items
      /\ books' = Reversed(r, runs[r]) /\ runs' = [runs EXCEPT ![r].status = "cancelled"]
  BY <1>0 DEF CancelCommit, Committing, RunsBooked, Current
<1>2. books' = [books EXCEPT ![r] = NoBooks]
  BY <1>1, ReversedIsEmpty
<1>3. /\ books' = [x \in Runs |-> books'[x]] /\ books'[r] = NoBooks
      /\ \A x \in Runs : x # r => books'[x] = books[x]
  BY <1>1, <1>2 DEF RunsBooked
<1>4. /\ runs' = [x \in Runs |-> runs'[x]] /\ runs'[r] = [runs[r] EXCEPT !.status = "cancelled"]
      /\ \A x \in Runs : x # r => runs'[x] = runs[x]
  BY <1>1 DEF RunsBooked
<1>5. items' = [x \in Runs |-> items'[x]] /\ \A x \in Runs : x # r => items'[x] = items[x]
  BY <1>1 DEF RunsBooked
<1>6. runs[r] \in Run /\ Paysheet(items[r])
  BY <1>1 DEF RunsBooked, RunBooked
<1>7. runs'[r] \in Run /\ runs'[r].status = "cancelled"
  BY <1>4, <1>6 DEF Run
<1>8. RunBooked(r)'
  BY <1>1, <1>3, <1>6, <1>7, NothingMoves DEF RunBooked, NoBooks
<1> QED
  BY <1>0, <1>1, <1>3, <1>4, <1>5, <1>8, CommitKeeps

LEMMA RemoveKeeps ==
    ASSUME RunsBooked, RunsApart, NEW p \in Procs, RemoveCommit(p)
    PROVE  RunsBooked'
<1>0. PICK r \in Runs : r = reqs[p].id
  BY DEF RemoveCommit, Committing, RunsBooked, Current
<1>1. /\ Finish(p) /\ reqs[p] # Idle
      /\ books' = IF runs[r].status = "posted" THEN Reversed(r, runs[r]) ELSE books
      /\ runs' = [runs EXCEPT ![r] = [status |-> "deleted"]]
      /\ items' = [items EXCEPT ![r] = <<>>]
  BY <1>0 DEF RemoveCommit, Committing, RunsBooked, Current
<1>2. books = [x \in Runs |-> books[x]] /\ (runs[r].status # "posted" => books[r] = NoBooks)
  BY <1>1 DEF RunsBooked, RunBooked
<1>3. /\ books' = [x \in Runs |-> books'[x]] /\ books'[r] = NoBooks
      /\ \A x \in Runs : x # r => books'[x] = books[x]
  BY <1>1, <1>2, ReversedIsEmpty
<1>4. /\ runs' = [x \in Runs |-> runs'[x]] /\ runs'[r] = [status |-> "deleted"]
      /\ \A x \in Runs : x # r => runs'[x] = runs[x]
  BY <1>1 DEF RunsBooked
<1>5. /\ items' = [x \in Runs |-> items'[x]] /\ items'[r] = <<>>
      /\ \A x \in Runs : x # r => items'[x] = items[x]
  BY <1>1 DEF RunsBooked
<1>6. Paysheet(<<>>)
  BY DEF Paysheet
<1>7. RunBooked(r)'
  BY <1>3, <1>4, <1>5, <1>6, NothingMoves DEF RunBooked, NoBooks
<1> QED
  BY <1>0, <1>1, <1>3, <1>4, <1>5, <1>7, CommitKeeps

-------------------------------------------------------------------------------
(* Requests are read, and the rest of the office.                           *)

\* What a request asks for has to fit what it has read.
LEMMA StartedKeeps ==
    ASSUME RunsBooked, NEW p \in Procs, NEW r \in Runs, NEW form,
           NEW op \in {"generate", "update", "refresh", "post", "disburse", "cancel", "remove"},
           Start(p, op, r, form),
           op = "generate" => /\ runs[r].status = "absent" /\ Paysheet(form.new)
                              /\ form.period \in Periods /\ form.account \in Money,
           op = "refresh" => Paysheet(form.new),
           op \in {"update", "refresh", "post"} => runs[r].status = "draft",
           op = "disburse" => Disbursable(runs[r]) /\ form.account \in Money,
           op = "cancel" => runs[r].status = "posted"
    PROVE  RunsBooked'
<1>1. /\ reqs' = [q \in Procs |-> reqs'[q]]
      /\ \A q \in Procs : q # p => reqs'[q] = reqs[q]
      /\ reqs'[p] # Idle /\ reqs'[p].op = op /\ reqs'[p].id = r
      /\ reqs'[p].run = runs[r] /\ reqs'[p].lines = items[r] /\ reqs'[p].form = form
      /\ UNCHANGED <<employees, held, runs, items, books, attendance>>
  BY Started
<1>2. Current(p)'
  BY <1>1 DEF Current
<1> QED
  BY <1>1, <1>2, ReadKeeps

LEMMA GenerateIsRead ==
    ASSUME RunsBooked, NEW p \in Procs, NEW r \in Runs, NEW period \in Periods, NEW mode,
           NEW account \in Money, GenerateRead(p, r, period, mode, account)
    PROVE  RunsBooked'
<1>1. PICK lines : lines = [e \in Active |-> Computed(e, period, 0)]
  OBVIOUS
<1>2. Paysheet(lines)
  <2>1. Active \subseteq Employees
    BY DEF Active
  <2> QED
    BY <1>1, <2>1, ComputedType DEF Paysheet
<1> DEFINE form == [new |-> lines, period |-> period, mode |-> mode, account |-> account]
<1>3. Start(p, "generate", r, form) /\ runs[r].status = "absent"
  BY <1>1 DEF GenerateRead
<1>4. form.new = lines /\ form.period = period /\ form.account = account
  OBVIOUS
<1> HIDE DEF form
<1> QED
  BY <1>2, <1>3, <1>4, StartedKeeps

LEMMA RefreshIsRead ==
    ASSUME RunsBooked, NEW p \in Procs, NEW r \in Runs, RefreshRead(p, r)
    PROVE  RunsBooked'
<1> DEFINE tax(e) == IF e \in DOMAIN items[r] THEN items[r][e].tax ELSE 0
<1>1. PICK lines : lines = [e \in Active |-> Computed(e, runs[r].period, tax(e))]
  OBVIOUS
<1>2. Paysheet(lines)
  <2>1. Active \subseteq Employees
    BY DEF Active
  <2>2. \A e \in Active : tax(e) \in Nat
    BY DEF RunsBooked, RunBooked, Paysheet, Line
  <2>3. runs[r].period \in Periods
    BY DEF RunsBooked, RunBooked, Run, RefreshRead
  <2> HIDE DEF tax
  <2> QED
    BY <1>1, <2>1, <2>2, <2>3, ComputedType DEF Paysheet
<1> DEFINE form == [new |-> lines]
<1>3. Start(p, "refresh", r, form) /\ runs[r].status = "draft"
  BY <1>1 DEF RefreshRead
<1>4. form.new = lines
  OBVIOUS
<1> HIDE DEF form
<1> QED
  BY <1>2, <1>3, <1>4, StartedKeeps

LEMMA OthersAreRead ==
    ASSUME RunsBooked, NEW p \in Procs, NEW r \in Runs,
           \/ UpdateRead(p, r) \/ PostRead(p, r) \/ CancelRead(p, r) \/ RemoveRead(p, r)
           \/ \E account \in Money : DisburseRead(p, r, account)
    PROVE  RunsBooked'
<1>1. CASE UpdateRead(p, r)
  BY <1>1, StartedKeeps DEF UpdateRead
<1>2. CASE PostRead(p, r)
  BY <1>2, StartedKeeps DEF PostRead
<1>3. CASE CancelRead(p, r)
  BY <1>3, StartedKeeps DEF CancelRead
<1>4. CASE RemoveRead(p, r)
  BY <1>4, StartedKeeps DEF RemoveRead
<1>5. ASSUME NEW account \in Money, DisburseRead(p, r, account) PROVE RunsBooked'
  <2> DEFINE form == [account |-> account]
  <2>1. Start(p, "disburse", r, form) /\ Disbursable(runs[r]) /\ form.account = account
    BY <1>5 DEF DisburseRead
  <2> HIDE DEF form
  <2> QED
    BY <2>1, StartedKeeps
<1> QED
  BY <1>1, <1>2, <1>3, <1>4, <1>5

\* The sheet holds marks.
LEMMA SheetType ==
    ASSUME attendance \in [Employees \X Days -> Marks \cup {"leave", None}], AttendanceNext
    PROVE  attendance' \in [Employees \X Days -> Marks \cup {"leave", None}]
<1>1. ASSUME NEW x \in Rows, NEW mark \in Marks \cup {None}, Record(x[1], x[2], mark)
      PROVE  attendance' \in [Employees \X Days -> Marks \cup {"leave", None}]
  BY <1>1, AttendanceAssumption DEF Record
<1>2. ASSUME NEW d, ClearDay(d)
      PROVE  attendance' \in [Employees \X Days -> Marks \cup {"leave", None}]
  BY <1>2 DEF ClearDay
<1>3. ASSUME NEW q, CreateRequest(q) \/ \E c \in Clerks : RemoveRequestCommit(c)
      PROVE  attendance' \in [Employees \X Days -> Marks \cup {"leave", None}]
  BY <1>3 DEF CreateRequest, RemoveRequestCommit, Unmarked
<1>4. ASSUME NEW c \in Clerks,
             \/ \E q \in Requests : DecideRead(c, q) \/ RemoveRequestRead(c, q)
             \/ \E d \in {"approved", "rejected"} : DecideCommit(c, d)
             \/ CallFails(c)
      PROVE  attendance' \in [Employees \X Days -> Marks \cup {"leave", None}]
  BY <1>4 DEF DecideRead, RemoveRequestRead, Take, DecideCommit, CallFails, Marked
<1> QED
  BY <1>1, <1>2, <1>3, <1>4 DEF AttendanceNext, ClearRow

LEMMA OfficeKeeps ==
    ASSUME RunsBooked,
           \/ \E x \in Staff : SetEmployee(x[1], x[2])
           \/ \E e \in Employees, start \in Periods \cup {None} : SetLoan(e, start)
           \/ \E x \in Amounts : OtherVoucher(x[1], x[2])
           \/ Sheet
    PROVE  RunsBooked'
<1> USE DEF RunsBooked
<1>1. ASSUME NEW x \in Staff, SetEmployee(x[1], x[2]) PROVE RunsBooked'
  <2>1. employees' \in [Employees -> Employee]
    BY <1>1, PayrollAssumption DEF SetEmployee
  <2> QED
    BY <1>1, <2>1, BetweenKeeps DEF SetEmployee, attendanceVars
<1>2. ASSUME NEW e \in Employees, NEW start, SetLoan(e, start) PROVE RunsBooked'
  BY <1>2, BetweenKeeps DEF SetLoan, attendanceVars
<1>3. ASSUME NEW x \in Amounts, OtherVoucher(x[1], x[2]) PROVE RunsBooked'
  <2>1. held' \in [Money -> Int]
    BY <1>3, PayrollAssumption DEF OtherVoucher
  <2> QED
    BY <1>3, <2>1, BetweenKeeps DEF OtherVoucher, attendanceVars
<1>4. CASE Sheet
  BY <1>4, SheetType, BetweenKeeps DEF Sheet, payrollVars
<1> QED
  BY <1>1, <1>2, <1>3, <1>4

-------------------------------------------------------------------------------
(* The invariant.                                                           *)

LEMMA InitBooked == Init => RunsBooked
<1> SUFFICES ASSUME Init PROVE RunsBooked
  OBVIOUS
<1>1. attendance \in [Employees \X Days -> Marks \cup {"leave", None}]
  BY DEF Init, AttendanceInit
<1>2. employees \in [Employees -> Employee]
  BY PayrollAssumption DEF Init
<1>3. held \in [Money -> Int]
  BY PayrollAssumption DEF Init
<1>4. ASSUME NEW r \in Runs PROVE RunBooked(r)
  <2>1. runs[r].status = "absent" /\ items[r] = <<>> /\ books[r] = NoBooks
    BY DEF Init
  <2> QED
    BY <2>1, NothingMoves DEF RunBooked, Paysheet, NoBooks
<1>5. \A p \in Procs : Current(p)
  BY DEF Init, Current
<1> QED
  BY <1>1, <1>2, <1>3, <1>4, <1>5 DEF Init, RunsBooked

LEMMA StepBooked ==
    ASSUME RunsBooked, RunsApart, [Next]_vars
    PROVE  RunsBooked'
<1>1. ASSUME NEW p \in Procs, NEW r \in Runs,
             \/ \E period \in Periods, mode \in Modes, account \in Money :
                   GenerateRead(p, r, period, mode, account)
             \/ UpdateRead(p, r) \/ RefreshRead(p, r) \/ PostRead(p, r)
             \/ \E account \in Money : DisburseRead(p, r, account)
             \/ CancelRead(p, r) \/ RemoveRead(p, r)
      PROVE  RunsBooked'
  BY <1>1, GenerateIsRead, RefreshIsRead, OthersAreRead
<1>2. ASSUME NEW p \in Procs, Fail(p) PROVE RunsBooked'
  <2>1. UNCHANGED <<runs, items, books, employees, held, attendance>>
    BY <1>2 DEF Fail, Finish, ledgerVars, attendanceVars
  <2>2. /\ reqs' = [q \in Procs |-> reqs'[q]] /\ reqs'[p] = Idle
        /\ \A q \in Procs : q # p => reqs'[q] = reqs[q]
    BY <1>2 DEF RunsBooked, Fail, Finish
  <2>3. Current(p)'
    BY <2>2 DEF Current
  <2> QED
    BY <2>1, <2>2, <2>3, ReadKeeps
<1>3. ASSUME NEW p \in Procs,
             \/ GenerateCommit(p) \/ RefreshCommit(p) \/ PostCommit(p) \/ DisburseCommit(p)
             \/ \E e \in Employees, change \in Changes : UpdateCommit(p, e, change)
             \/ CancelCommit(p) \/ RemoveCommit(p) \/ Fail(p)
      PROVE  RunsBooked'
  BY <1>2, <1>3, GenerateKeeps, RefreshKeeps, PostKeeps, DisburseKeeps, UpdateKeeps, CancelKeeps,
     RemoveKeeps
<1>4. CASE UNCHANGED vars
  BY <1>4, BetweenKeeps DEF RunsBooked, vars, payrollVars, attendanceVars
<1> QED
  BY <1>1, <1>3, <1>4, OfficeKeeps, Zenon DEF Next

-------------------------------------------------------------------------------
(* The sums.                                                                *)

\* What a run moves on an account is an integer, and on all people what its vouchers do.
LEMMA BookedType ==
    ASSUME RunsBooked, NEW r \in Runs
    PROVE  /\ \A a \in Accounts : Booked(r, a) \in Int
           /\ SumFunctionOnSet([a \in People |-> Booked(r, a)], People)
                = PeopleGet(books[r].accrual) + PeopleGet(books[r].disbursement)
                    + PeopleGet(books[r].stray)
<1> DEFINE x == books[r].accrual
           y == books[r].disbursement
           z == books[r].stray
           all == [a \in People |-> Booked(r, a)]
           two == [a \in People |-> x[a] + y[a]]
<1>1. x \in Entries /\ y \in Entries /\ z \in Entries
  BY DEF RunsBooked, RunBooked
<1>2. \A a \in Accounts : x[a] \in Int /\ y[a] \in Int /\ z[a] \in Int
                           /\ Booked(r, a) = x[a] + y[a] + z[a]
  BY <1>1 DEF Entries, Booked
<1>3. People \subseteq Accounts /\ IsFiniteSet(People)
  BY AccountsDiffer DEF Accounts
<1> HIDE DEF x, y, z
<1>4. \A a \in People : /\ x[a] \in Int /\ y[a] \in Int /\ z[a] \in Int
                        /\ two[a] \in Int /\ two[a] = x[a] + y[a] /\ all[a] = two[a] + z[a]
  BY <1>2, <1>3
<1> HIDE DEF two, all
<1>5. SumFunctionOnSet(two, People) = PeopleGet(x) + PeopleGet(y)
  BY <1>3, <1>4, SumPlus DEF PeopleGet
<1>6. SumFunctionOnSet(all, People) = SumFunctionOnSet(two, People) + PeopleGet(z)
  BY <1>3, <1>4, SumPlus DEF PeopleGet
<1> QED
  BY <1>2, <1>5, <1>6 DEF x, y, z, all

\* What a run moves, by what it is.
LEMMA RunMoves ==
    ASSUME RunsBooked, NEW r \in Runs
    PROVE  /\ TotalsOf(items[r]) \in Totals
           /\ SumFunctionOnSet([a \in People |-> Booked(r, a)], People)
                = IF r \in Unpaid THEN 0 - TotalsOf(items[r]).net ELSE 0
           /\ Booked(r, Expense) = IF r \in Posted THEN TotalsOf(items[r]).gross ELSE 0
           /\ Booked(r, Fund) + Booked(r, Bank)
                = IF r \in Posted \ Unpaid THEN 0 - TotalsOf(items[r]).net ELSE 0
<1> DEFINE x == books[r].accrual
           y == books[r].disbursement
           z == books[r].stray
           total == TotalsOf(items[r])
           moved == SumFunctionOnSet([a \in People |-> Booked(r, a)], People)
<1>1. RunBooked(r) /\ total \in Totals
  BY TotalsAdd DEF RunsBooked, RunBooked
<1>2. /\ moved = PeopleGet(x) + PeopleGet(y) + PeopleGet(z)
      /\ Booked(r, Expense) = x[Expense] + y[Expense] + z[Expense]
      /\ Booked(r, Fund) = x[Fund] + y[Fund] + z[Fund]
      /\ Booked(r, Bank) = x[Bank] + y[Bank] + z[Bank]
  BY BookedType DEF Booked
<1>3. \A e \in {x, y, z} : PeopleGet(e) \in Int /\ e[Expense] \in Int /\ e[Fund] \in Int /\ e[Bank] \in Int
  <2>1. \A e \in {x, y, z} : e \in Entries
    BY <1>1 DEF RunBooked
  <2> HIDE DEF x, y, z
  <2> QED
    BY <2>1, EntriesAddUp DEF Entries, Accounts, Money
<1>4. total.net \in Int /\ total.gross \in Int
  BY <1>1 DEF Totals
<1>5. r \notin Posted => x = Nothing /\ y = Nothing /\ z = Nothing
  BY <1>1 DEF RunBooked, Posted, NoBooks
<1>6. r \in Posted =>
        /\ PeopleGet(x) = 0 - total.net /\ x[Expense] = total.gross /\ x[Fund] + x[Bank] = 0
        /\ z = Nothing
        /\ r \in Unpaid => y = Nothing
        /\ r \notin Unpaid => /\ PeopleGet(y) = total.net /\ y[Expense] = 0
                             /\ y[Fund] + y[Bank] = 0 - total.net
  BY <1>1 DEF RunBooked, Posted, Unpaid, Charges, Settles
<1>7. Unpaid \subseteq Posted
  BY DEF Unpaid
<1> HIDE DEF x, y, z, total, moved
<1>8. /\ moved = IF r \in Unpaid THEN 0 - total.net ELSE 0
      /\ Booked(r, Expense) = IF r \in Posted THEN total.gross ELSE 0
      /\ Booked(r, Fund) + Booked(r, Bank) = IF r \in Posted \ Unpaid THEN 0 - total.net ELSE 0
  <2>1. CASE r \notin Posted
    BY <1>2, <1>3, <1>5, <1>7, <2>1, NothingMoves
  <2>2. CASE r \in Unpaid
    BY <1>2, <1>3, <1>4, <1>6, <1>7, <2>2, NothingMoves
  <2>3. CASE r \in Posted \ Unpaid
    <3>1. /\ PeopleGet(x) = 0 - total.net /\ x[Expense] = total.gross /\ x[Fund] + x[Bank] = 0
          /\ PeopleGet(y) = total.net /\ y[Expense] = 0 /\ y[Fund] + y[Bank] = 0 - total.net
      BY <1>6, <2>3
    <3>2. PeopleGet(z) = 0 /\ z[Expense] = 0 /\ z[Fund] = 0 /\ z[Bank] = 0
      BY <1>6, <2>3, NothingMoves
    <3>3. moved = 0 /\ Booked(r, Expense) = total.gross
      BY <1>2, <1>3, <1>4, <3>1, <3>2
    <3>4. Booked(r, Fund) + Booked(r, Bank) = 0 - total.net
      <4>1. x[Fund] \in Int /\ x[Bank] \in Int /\ y[Fund] \in Int /\ y[Bank] \in Int
        BY <1>3
      <4>2. Booked(r, Fund) = x[Fund] + y[Fund] /\ Booked(r, Bank) = x[Bank] + y[Bank]
        BY <1>2, <3>2, <4>1
      <4> QED
        BY <1>4, <3>1, <4>1, <4>2
    <3> QED
      BY <2>3, <3>3, <3>4
  <2> QED
    BY <2>1, <2>2, <2>3
<1> QED
  BY <1>1, <1>8 DEF total, moved

\* An account's balance is what the runs move there, and what is held there for money.
LEMMA BalanceIs ==
    ASSUME RunsBooked
    PROVE  /\ \A a \in Accounts : SumFunctionOnSet([r \in Runs |-> Booked(r, a)], Runs) \in Int
           /\ \A a \in Accounts \ Money :
                 Balance(a) = SumFunctionOnSet([r \in Runs |-> Booked(r, a)], Runs)
           /\ \A a \in Money :
                 Balance(a) = SumFunctionOnSet([r \in Runs |-> Booked(r, a)], Runs) + held[a]
<1>1. ASSUME NEW a \in Accounts PROVE SumFunctionOnSet([r \in Runs |-> Booked(r, a)], Runs) \in Int
  <2> DEFINE f == [r \in Runs |-> Booked(r, a)]
  <2>1. \A r \in Runs : f[r] \in Int
    BY BookedType
  <2> HIDE DEF f
  <2>2. SumFunctionOnSet(f, Runs) \in Int
    BY <2>1, PayrollAssumption, SumType
  <2> QED
    BY <2>2 DEF f
<1> QED
  BY <1>1 DEF Balance, SumFunction, Accounts

\* The sum over some runs, as a sum over all.
LEMMA SomeRuns ==
    ASSUME RunsBooked, NEW R, R \subseteq Runs, NEW v, \A r \in R : v[r] \in Int
    PROVE  SumFunction([r \in R |-> v[r]])
             = SumFunctionOnSet([r \in Runs |-> IF r \in R THEN v[r] ELSE 0], Runs)
<1> DEFINE f == [r \in R |-> v[r]]
           g == [r \in Runs |-> IF r \in R THEN f[r] ELSE 0]
<1>1. g = [r \in Runs |-> IF r \in R THEN v[r] ELSE 0] /\ \A r \in R : f[r] \in Int
  OBVIOUS
<1>2. SumFunction(f) = SumFunctionOnSet(f, R)
  BY DEF SumFunction
<1>3. SumFunctionOnSet(f, R) = SumFunctionOnSet(g, Runs)
  <2> HIDE DEF f
  <2> QED
    BY <1>1, PayrollAssumption, SumWhere
<1> QED
  BY <1>1, <1>2, <1>3

\* Summed over people: the runs that are posted and not paid.
LEMMA PeopleAreOwed ==
    ASSUME RunsBooked
    PROVE  SumFunction([a \in People |-> Balance(a)])
             = 0 - SumFunction([r \in Unpaid |-> TotalsOf(items[r]).net])
<1> DEFINE F == [a \in People |-> [r \in Runs |-> Booked(r, a)]]
           byPerson == [a \in People |-> SumFunctionOnSet(F[a], Runs)]
           byRun == [r \in Runs |-> SumFunctionOnSet([a \in People |-> F[a][r]], People)]
           net == [r \in Runs |-> TotalsOf(items[r]).net]
           owed == [r \in Runs |-> IF r \in Unpaid THEN net[r] ELSE 0]
<1>1. IsFiniteSet(People) /\ IsFiniteSet(Runs) /\ People \subseteq Accounts \ Money
  BY AccountsDiffer, PayrollAssumption DEF Accounts
<1>2. SumFunction([a \in People |-> Balance(a)]) = SumFunctionOnSet(byPerson, People)
  <2>1. [a \in People |-> Balance(a)] = byPerson
    BY <1>1, BalanceIs
  <2> QED
    BY <2>1 DEF SumFunction
<1>3. SumFunctionOnSet(byPerson, People) = SumFunctionOnSet(byRun, Runs)
  <2>1. \A a \in People, r \in Runs : F[a][r] \in Int
    BY <1>1, BookedType
  <2> HIDE DEF F
  <2> QED
    BY <1>1, <2>1, SumSwap
<1>4. Unpaid \subseteq Runs /\ \A r \in Runs : net[r] \in Int
  BY RunMoves DEF Unpaid, Posted, Totals
<1>5. \A r \in Runs : owed[r] \in Int /\ byRun[r] = 0 - owed[r]
  <2> SUFFICES ASSUME NEW r \in Runs PROVE owed[r] \in Int /\ byRun[r] = 0 - owed[r]
    OBVIOUS
  <2>1. [a \in People |-> F[a][r]] = [a \in People |-> Booked(r, a)]
    OBVIOUS
  <2>2. byRun[r] = SumFunctionOnSet([a \in People |-> Booked(r, a)], People)
    BY <2>1
  <2>3. byRun[r] = IF r \in Unpaid THEN 0 - net[r] ELSE 0
    BY <2>2, RunMoves
  <2>4. owed[r] = IF r \in Unpaid THEN net[r] ELSE 0
    OBVIOUS
  <2> HIDE DEF byRun, net, owed
  <2> QED
    BY <1>4, <2>3, <2>4
<1>6. SumFunctionOnSet(byRun, Runs) = 0 - SumFunctionOnSet(owed, Runs)
  <2> HIDE DEF byRun, owed
  <2> QED
    BY <1>1, <1>5, SumNegative
<1>7. SumFunction([r \in Unpaid |-> TotalsOf(items[r]).net]) = SumFunctionOnSet(owed, Runs)
  <2>1. [r \in Unpaid |-> TotalsOf(items[r]).net] = [r \in Unpaid |-> net[r]]
    BY <1>4
  <2>2. SumFunction([r \in Unpaid |-> net[r]]) = SumFunctionOnSet(owed, Runs)
    <3> HIDE DEF net
    <3> QED
      BY <1>4, SomeRuns
  <2> QED
    BY <2>1, <2>2
<1> QED
  BY <1>2, <1>3, <1>6, <1>7

\* The expense account: the gross of the posted runs.
LEMMA GrossIsCharged ==
    ASSUME RunsBooked
    PROVE  Balance(Expense) = SumFunction([r \in Posted |-> TotalsOf(items[r]).gross])
<1> DEFINE gross == [r \in Runs |-> TotalsOf(items[r]).gross]
           charged == [r \in Runs |-> IF r \in Posted THEN gross[r] ELSE 0]
<1>1. Balance(Expense) = SumFunctionOnSet([r \in Runs |-> Booked(r, Expense)], Runs)
  BY BalanceIs, AccountsDiffer
<1>2. [r \in Runs |-> Booked(r, Expense)] = charged
  BY RunMoves
<1>3. Posted \subseteq Runs /\ \A r \in Runs : gross[r] \in Int
  BY RunMoves DEF Posted, Totals
<1>4. [r \in Posted |-> TotalsOf(items[r]).gross] = [r \in Posted |-> gross[r]]
  BY <1>3
<1>5. SumFunction([r \in Posted |-> gross[r]]) = SumFunctionOnSet(charged, Runs)
  <2> HIDE DEF gross
  <2> QED
    BY <1>3, SomeRuns
<1> QED
  BY <1>1, <1>2, <1>4, <1>5

\* Money: what is held, less the net pay of the paid runs.
LEMMA MoneyIsPaid ==
    ASSUME RunsBooked
    PROVE  SumFunction([a \in Money |-> Balance(a)])
             = SumFunction(held) - SumFunction([r \in Posted \ Unpaid |-> TotalsOf(items[r]).net])
<1> DEFINE Paid == Posted \ Unpaid
           at(a) == [r \in Runs |-> Booked(r, a)]
           both == [r \in Runs |-> Booked(r, Fund) + Booked(r, Bank)]
           net == [r \in Runs |-> TotalsOf(items[r]).net]
           paid == [r \in Runs |-> IF r \in Paid THEN net[r] ELSE 0]
<1>1. Fund # Bank /\ Money = {Fund, Bank} /\ {Fund, Bank} \subseteq Accounts /\ IsFiniteSet(Runs)
  BY PayrollAssumption DEF Money, Accounts
<1>2. held[Fund] \in Int /\ held[Bank] \in Int /\ DOMAIN held = Money
  BY <1>1 DEF RunsBooked
<1>3. SumFunction(held) = held[Fund] + held[Bank]
  BY <1>1, <1>2, SumOfTwo DEF SumFunction
<1>4. /\ SumFunctionOnSet(at(Fund), Runs) \in Int
      /\ SumFunctionOnSet(at(Bank), Runs) \in Int
      /\ Balance(Fund) = SumFunctionOnSet(at(Fund), Runs) + held[Fund]
      /\ Balance(Bank) = SumFunctionOnSet(at(Bank), Runs) + held[Bank]
  BY <1>1, BalanceIs
<1>5. SumFunction([a \in Money |-> Balance(a)]) = Balance(Fund) + Balance(Bank)
  <2> DEFINE f == [a \in Money |-> Balance(a)]
  <2>1. f[Fund] \in Int /\ f[Bank] \in Int /\ f[Fund] = Balance(Fund) /\ f[Bank] = Balance(Bank)
        /\ DOMAIN f = {Fund, Bank}
    BY <1>1, <1>2, <1>4
  <2> HIDE DEF f
  <2>2. SumFunction(f) = f[Fund] + f[Bank]
    BY <1>1, <2>1, SumOfTwo DEF SumFunction
  <2> QED
    BY <2>1, <2>2 DEF f
<1>6. SumFunctionOnSet(both, Runs) = SumFunctionOnSet(at(Fund), Runs) + SumFunctionOnSet(at(Bank), Runs)
  <2> DEFINE f == at(Fund)
             g == at(Bank)
  <2>1. \A r \in Runs : f[r] \in Int /\ g[r] \in Int /\ both[r] = f[r] + g[r]
    BY <1>1, BookedType
  <2> HIDE DEF f, g, both
  <2>2. SumFunctionOnSet(both, Runs) = SumFunctionOnSet(f, Runs) + SumFunctionOnSet(g, Runs)
    BY <1>1, <2>1, SumPlus
  <2> QED
    BY <2>2 DEF f, g
<1>7. Paid \subseteq Runs /\ \A r \in Runs : net[r] \in Int
  BY RunMoves DEF Posted, Totals
<1>8. \A r \in Runs : paid[r] \in Int /\ both[r] = 0 - paid[r]
  <2> SUFFICES ASSUME NEW r \in Runs PROVE paid[r] \in Int /\ both[r] = 0 - paid[r]
    OBVIOUS
  <2>1. both[r] = IF r \in Paid THEN 0 - net[r] ELSE 0
    BY RunMoves
  <2>2. paid[r] = IF r \in Paid THEN net[r] ELSE 0
    OBVIOUS
  <2> HIDE DEF both, net, paid
  <2> QED
    BY <1>7, <2>1, <2>2
<1>9. SumFunctionOnSet(both, Runs) = 0 - SumFunctionOnSet(paid, Runs)
  <2> HIDE DEF both, paid
  <2> QED
    BY <1>1, <1>8, SumNegative
<1>10. SumFunction([r \in Paid |-> TotalsOf(items[r]).net]) = SumFunctionOnSet(paid, Runs)
  <2>1. [r \in Paid |-> TotalsOf(items[r]).net] = [r \in Paid |-> net[r]]
    BY <1>7
  <2>2. SumFunction([r \in Paid |-> net[r]]) = SumFunctionOnSet(paid, Runs)
    <3> HIDE DEF net, Paid
    <3> QED
      BY <1>7, SomeRuns
  <2> QED
    BY <2>1, <2>2
<1>11. SumFunctionOnSet(paid, Runs) \in Int
  <2> HIDE DEF paid
  <2> QED
    BY <1>1, <1>8, SumType
<1> HIDE DEF at, both, paid
<1> QED
  BY <1>2, <1>3, <1>4, <1>5, <1>6, <1>9, <1>10, <1>11 DEF Paid

-------------------------------------------------------------------------------
(* The theorems.                                                            *)

\* As long as requests that overlap are about different runs, every run has the vouchers
\* its status calls for, for any employees, runs, periods, salaries and edits.
THEOREM VouchersFollowRuns == Spec /\ []RunsApart => []RunsBooked
<1>1. RunsBooked /\ RunsApart /\ [Next]_vars => RunsBooked'
  BY StepBooked
<1> QED
  BY <1>1, InitBooked, PTL DEF Spec

\* The ledger then owes people exactly the net pay of the runs that are posted and not
\* paid and has charged the gross of the posted ones.
THEOREM OwesWhatIsPosted == Spec /\ []RunsApart => []OwedIsPosted
<1>1. RunsBooked => OwedIsPosted
  BY PeopleAreOwed, GrossIsCharged DEF OwedIsPosted
<1> QED
  BY <1>1, VouchersFollowRuns, PTL

\* And the money that left the accounts is the net pay of the paid runs, once each,
\* whatever was cancelled, deleted, refused or failed in between.
THEOREM PaysOnce == Spec /\ []RunsApart => []PaidOnce
<1>1. RunsBooked => PaidOnce
  BY MoneyIsPaid DEF PaidOnce
<1> QED
  BY <1>1, VouchersFollowRuns, PTL
=============================================================================
