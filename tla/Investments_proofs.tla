--------------------------- MODULE Investments_proofs ---------------------------
(***************************************************************************)
(* As long as requests that overlap concern different investments, and     *)
(* clients leave the terms of an investment alone once its money came in,  *)
(* what an investor is owed is what the ledger says, and the returns that  *)
(* were charged are those on the schedule: for any number of requests, any *)
(* investments, terms, amounts, capital accounts and closings of the       *)
(* period.  The inductive invariant (DeskOK) adds that money comes in      *)
(* before any row is paid, and that a request has read what is there: a    *)
(* commit on one investment leaves what the others' requests read.         *)
(***************************************************************************)
EXTENDS Investments, Sums, TLAPS

\* Requests that are in progress together are about different investments.
InvestmentsApart ==
    \A q1, q2 \in Procs : q1 # q2 /\ reqs[q1] # Idle /\ reqs[q2] # Idle
                         => reqs[q1].id # reqs[q2].id

PaidMonths(s) == {k \in s.months : s.row[k].status = "paid"}

\* The returns a schedule shows as paid.
Returns(s) == SumFunction([k \in PaidMonths(s) |-> s.row[k].amount])

\* Months that have been numbered from 1, and the principal.
Schedule(s) ==
    /\ IsSchedule(s) /\ IsFiniteSet(s.months) /\ PrincipalRow \notin s.months

\* What the ledger says of an investment follows from its rows.
Matches(inv, s, b) ==
    /\ inv \in Investment /\ Schedule(s) /\ b \in Books
    /\ inv.received <=> inv.status \in {"active", "closed"}
    /\ ~inv.received => ~AnyPaid(s)
    /\ b.capital = OnCapital(inv, Owed(inv, s))
    /\ b.expense = Returns(s)

InvestmentOK(i) == Matches(investments[i], schedules[i], books[i])

\* What the checks of an operation establish of the rows that it read.
Decided(op, inv, s, k, amount) ==
    /\ amount \in Nat /\ k \in Rows(s)
    /\ \/ op \in {"update", "cancel", "remove"} /\ ~inv.received
       \/ op = "receive" /\ ~inv.received /\ amount = inv.principal
       \/ op = "pay" /\ Payable(inv, s.row[k])
       \/ op \in {"skip", "reschedule"} /\ s.row[k].status # "paid"
       \/ op = "close" /\ inv.status = "active" /\ amount = Returned(inv, s)

\* A request has read what is there, and what it decided on still holds.
Current(p) ==
    LET q == reqs[p]
    IN  \/ q = Idle
        \/ /\ q # Idle /\ q.id \in Ids /\ Exists(q.id)
           /\ q.investment = investments[q.id] /\ q.schedule = schedules[q.id]
           /\ Decided(q.op, q.investment, q.schedule, q.row, q.amount)

DeskOK ==
    /\ reqs = [p \in Procs |-> reqs[p]]
    /\ investments = [i \in Ids |-> investments[i]]
    /\ schedules = [i \in Ids |-> schedules[i]]
    /\ books = [i \in Ids |-> books[i]]
    /\ \A i \in Ids : InvestmentOK(i)
    /\ \A p \in Procs : Current(p)

-------------------------------------------------------------------------------
(* Returns of a schedule.                                                   *)

LEMMA PaidIsFinite ==
    ASSUME NEW s, Schedule(s)
    PROVE  IsFiniteSet(PaidMonths(s)) /\ \A k \in PaidMonths(s) : s.row[k].amount \in Nat
BY FS_Subset DEF Schedule, IsSchedule, PaidMonths, Installment

LEMMA ReturnsType ==
    ASSUME NEW s, Schedule(s)
    PROVE  Returns(s) \in Int
<1> DEFINE f == [k \in PaidMonths(s) |-> s.row[k].amount]
<1>1. \A k \in PaidMonths(s) : f[k] \in Int
  BY PaidIsFinite
<1> HIDE DEF f
<1>2. SumFunctionOnSet(f, PaidMonths(s)) \in Int
  BY <1>1, PaidIsFinite, SumType
<1> QED
  BY <1>2 DEF Returns, SumFunction, f

\* Nothing changed about the returns that are paid.
LEMMA SameReturns ==
    ASSUME NEW s, NEW t, PaidMonths(s) = PaidMonths(t),
           \A k \in PaidMonths(s) : s.row[k].amount = t.row[k].amount
    PROVE  Returns(t) = Returns(s)
BY DEF Returns

LEMMA NoReturns ==
    ASSUME NEW s, PaidMonths(s) = {}
    PROVE  Returns(s) = 0
<1> DEFINE f == [k \in PaidMonths(s) |-> s.row[k].amount]
<1>1. DOMAIN f = {}
  OBVIOUS
<1> HIDE DEF f
<1>2. SumFunctionOnSet(f, DOMAIN f) = 0
  BY <1>1, SumEmpty
<1> QED
  BY <1>2 DEF Returns, SumFunction, f

\* One more month is paid.
LEMMA OneMoreReturn ==
    ASSUME NEW s, Schedule(s), NEW t, Schedule(t), NEW k, k \notin PaidMonths(s),
           PaidMonths(t) = PaidMonths(s) \cup {k},
           \A m \in PaidMonths(s) : t.row[m].amount = s.row[m].amount
    PROVE  Returns(t) = Returns(s) + t.row[k].amount
<1> DEFINE f == [m \in PaidMonths(s) |-> s.row[m].amount]
           g == [m \in PaidMonths(t) |-> t.row[m].amount]
<1>1. /\ IsFiniteSet(PaidMonths(s)) /\ IsFiniteSet(PaidMonths(t))
      /\ \A m \in PaidMonths(t) : g[m] \in Int
      /\ \A m \in PaidMonths(s) : f[m] = g[m]
      /\ k \in PaidMonths(t) /\ g[k] = t.row[k].amount /\ PaidMonths(t) \ {k} = PaidMonths(s)
  BY PaidIsFinite
<1>2. Returns(s) = SumFunctionOnSet(f, PaidMonths(s)) /\ Returns(t) = SumFunctionOnSet(g, PaidMonths(t))
  BY DEF Returns, SumFunction
<1> HIDE DEF f, g
<1>3. SumFunctionOnSet(g, PaidMonths(t)) = g[k] + SumFunctionOnSet(g, PaidMonths(t) \ {k})
  BY <1>1, SumRemove
<1>4. SumFunctionOnSet(f, PaidMonths(s)) = SumFunctionOnSet(g, PaidMonths(s))
  BY <1>1, SumEqual
<1>5. Returns(s) \in Int /\ g[k] \in Int
  BY <1>1, ReturnsType
<1>6. Returns(t) = g[k] + Returns(s)
  BY <1>1, <1>2, <1>3, <1>4, Zenon
<1> QED
  BY <1>1, <1>5, <1>6

-------------------------------------------------------------------------------
(* Schedules.                                                               *)

LEMMA BuiltSchedule ==
    ASSUME NEW form \in Forms, NEW version \in Nat
    PROVE  LET s == BuildSchedule(form, version)
           IN  Schedule(s) /\ ~AnyPaid(s) /\ Returns(s) = 0
<1> DEFINE s == BuildSchedule(form, version)
           amount(k) == IF k = 0 THEN form.principal ELSE IF form.fixed THEN form.monthly ELSE 0
<1>1. form.principal \in Nat /\ form.monthly \in Nat /\ form.term \in Nat
  BY InvestmentsAssumption DEF Form
<1>2. /\ s.version = version /\ s.months = 1..form.term
      /\ s.row = [k \in 0..form.term |-> [status |-> "pending", amount |-> amount(k)]]
  BY DEF BuildSchedule, PrincipalRow
<1>3. \A k : amount(k) \in Nat
  BY <1>1
<1> HIDE DEF s, amount
<1>4. s.months \cup {PrincipalRow} = 0..form.term /\ PrincipalRow \notin s.months
      /\ s.months \subseteq Nat
  BY <1>1, <1>2 DEF PrincipalRow
<1>5. IsFiniteSet(s.months)
  <2>1. \A n \in Int : IsFiniteSet(1..n)
    BY FS_Interval
  <2> QED
    BY <1>1, <1>2, <2>1
<1>6. s.row \in [0..form.term -> Installment] /\ \A k \in 0..form.term : s.row[k].status = "pending"
  BY <1>2, <1>3 DEF Installment
<1>7. Schedule(s)
  BY <1>2, <1>4, <1>5, <1>6 DEF Schedule, IsSchedule, Rows, PrincipalRow
<1>8. ~AnyPaid(s) /\ PaidMonths(s) = {}
  BY <1>4, <1>6 DEF AnyPaid, Rows, PaidMonths
<1> QED
  BY <1>7, <1>8, NoReturns DEF s

\* A schedule with one row replaced.
LEMMA RowReplaced ==
    ASSUME NEW s, Schedule(s), NEW k \in Rows(s), NEW row \in Installment
    PROVE  LET t == WithRow(s, k, row)
           IN  /\ Schedule(t) /\ Rows(t) = Rows(s) /\ t.months = s.months
               /\ t.row[k] = row /\ \A m \in Rows(s) : m # k => t.row[m] = s.row[m]
<1> DEFINE t == WithRow(s, k, row)
<1>1. /\ t.version = s.version /\ t.months = s.months /\ t.row = [s.row EXCEPT ![k] = row]
  BY DEF WithRow
<1> HIDE DEF t
<1>2. s.row \in [Rows(s) -> Installment] /\ Rows(s) = s.months \cup {PrincipalRow}
      /\ s.version \in Nat /\ s.months \subseteq Nat
  BY DEF Schedule, IsSchedule, Rows, PrincipalRow
<1>3. t.row \in [Rows(s) -> Installment] /\ Rows(t) = Rows(s)
  BY <1>1, <1>2 DEF Rows
<1>4. Schedule(t)
  BY <1>1, <1>2, <1>3 DEF Schedule, IsSchedule, Rows, PrincipalRow
<1> QED
  BY <1>1, <1>2, <1>3, <1>4 DEF t

\* A row that is not paid becomes another that is not paid: nothing is owed or returned
\* but what was.
LEMMA UnpaidReplaced ==
    ASSUME NEW s, Schedule(s), NEW k \in Rows(s), NEW row \in Installment,
           s.row[k].status # "paid", row.status # "paid"
    PROVE  LET t == WithRow(s, k, row)
           IN  /\ Schedule(t) /\ AnyPaid(t) = AnyPaid(s) /\ Returns(t) = Returns(s)
               /\ \A inv : PrincipalOutstanding(inv, t) = PrincipalOutstanding(inv, s)
<1> DEFINE t == WithRow(s, k, row)
<1>1. /\ Schedule(t) /\ Rows(t) = Rows(s) /\ t.months = s.months
      /\ t.row[k] = row /\ \A m \in Rows(s) : m # k => t.row[m] = s.row[m]
  BY RowReplaced
<1> HIDE DEF t
<1>2. AnyPaid(t) <=> AnyPaid(s)
  BY <1>1 DEF AnyPaid
<1>3. Returns(t) = Returns(s)
  <2>1. PaidMonths(s) = PaidMonths(t) /\ \A m \in PaidMonths(s) : s.row[m].amount = t.row[m].amount
    BY <1>1 DEF PaidMonths, Rows
  <2> QED
    BY <2>1, SameReturns
<1>4. \A inv : PrincipalOutstanding(inv, t) = PrincipalOutstanding(inv, s)
  BY <1>1 DEF PrincipalOutstanding, Rows
<1> QED
  BY <1>1, <1>2, <1>3, <1>4 DEF t, AnyPaid

LEMMA SettledSchedule ==
    ASSUME NEW s, Schedule(s), NEW amount \in Nat
    PROVE  LET t == Settled(s, amount)
           IN  Schedule(t) /\ Returns(t) = Returns(s)
<1> DEFINE t == Settled(s, amount)
<1>1. s.row \in [Rows(s) -> Installment] /\ Rows(s) = s.months \cup {PrincipalRow}
      /\ s.version \in Nat /\ s.months \subseteq Nat /\ PrincipalRow \notin s.months
  BY DEF Schedule, IsSchedule, Rows, PrincipalRow
<1>2. /\ t.version = s.version /\ t.months = s.months
      /\ t.row = [k \in Rows(s) |-> SettledRow(k, s.row[k], amount)]
  BY <1>1 DEF Settled
<1> HIDE DEF t
<1>3. ASSUME NEW k \in Rows(s) PROVE SettledRow(k, s.row[k], amount) \in Installment
  <2>1. s.row[k] \in Installment
    BY <1>1
  <2> QED
    BY <2>1 DEF SettledRow, Installment
<1>4. t.row \in [Rows(s) -> Installment] /\ Rows(t) = Rows(s)
  BY <1>1, <1>2, <1>3 DEF Rows
<1>5. Schedule(t)
  BY <1>1, <1>2, <1>4 DEF Schedule, IsSchedule, Rows, PrincipalRow
<1>6. \A k \in s.months : /\ t.row[k].amount = s.row[k].amount
                          /\ t.row[k].status = "paid" <=> s.row[k].status = "paid"
  BY <1>1, <1>2 DEF SettledRow, Installment
<1>7. PaidMonths(s) = PaidMonths(t) /\ \A m \in PaidMonths(s) : s.row[m].amount = t.row[m].amount
  BY <1>2, <1>6 DEF PaidMonths
<1> QED
  BY <1>5, <1>7, SameReturns DEF t

-------------------------------------------------------------------------------
(* What vouchers move.                                                      *)

LEMMA CapitalType == \A inv \in Investment : CapitalOf(inv) \in Capitals
BY InvestmentsAssumption DEF Investment, CapitalOf

LEMMA OwedType ==
    ASSUME NEW inv \in Investment, NEW s, Schedule(s)
    PROVE  Owed(inv, s) \in Int
<1>1. s.row[PrincipalRow].amount \in Nat
  BY DEF Schedule, IsSchedule, PrincipalRow, Installment
<1> QED
  BY <1>1 DEF Owed, PrincipalOutstanding, Investment

\* A voucher on the investment's capital account adds to what is there.
LEMMA PostingMoves ==
    ASSUME NEW b \in Books, NEW inv \in Investment, NEW m \in Int, NEW n \in Int,
           b.capital = OnCapital(inv, m)
    PROVE  LET new == Posting(b, CapitalOf(inv), n)
           IN  new \in Books /\ new.expense = b.expense /\ new.capital = OnCapital(inv, m + n)
<1> DEFINE a == CapitalOf(inv)
           capital == [b.capital EXCEPT ![a] = @ + n]
<1>1. a \in Capitals /\ b.capital = [c \in Capitals |-> IF c = a THEN m ELSE 0]
  BY CapitalType DEF OnCapital
<1>2. b.cash \in Int /\ b.expense \in Int
  BY DEF Books
<1> HIDE DEF a
<1>3. capital = [c \in Capitals |-> IF c = a THEN m + n ELSE 0]
  BY <1>1
<1>4. capital \in [Capitals -> Int]
  <2> HIDE DEF capital
  <2> QED
    BY <1>3
<1>5. Posting(b, a, n) = [cash |-> b.cash + n, expense |-> b.expense, capital |-> capital]
  BY DEF Posting
<1> HIDE DEF capital
<1>6. Posting(b, a, n) \in Books
  BY <1>2, <1>4, <1>5 DEF Books
<1> QED
  BY <1>3, <1>5, <1>6 DEF OnCapital, a

\* Nothing is owed before the money comes in.
LEMMA UnreceivedMatches ==
    ASSUME NEW inv \in Investment, NEW s, Schedule(s), NEW b \in Books,
           ~inv.received, inv.status \notin {"active", "closed"}, ~AnyPaid(s),
           b.expense = 0, b.capital = [c \in Capitals |-> 0]
    PROVE  Matches(inv, s, b)
<1>1. PaidMonths(s) = {}
  BY DEF AnyPaid, PaidMonths, Rows
<1>2. Returns(s) = 0
  BY <1>1, NoReturns
<1>3. Owed(inv, s) = 0
  BY DEF Owed
<1> QED
  BY <1>2, <1>3 DEF Matches, OnCapital

\* Conversely, one whose money did not come in has no vouchers.
LEMMA UnreceivedIsEmpty ==
    ASSUME NEW inv, NEW s, NEW b, Matches(inv, s, b), ~inv.received
    PROVE  b.expense = 0 /\ b.capital = [c \in Capitals |-> 0] /\ ~AnyPaid(s)
<1>1. PaidMonths(s) = {} /\ ~AnyPaid(s)
  BY DEF AnyPaid, PaidMonths, Rows, Matches
<1>2. Returns(s) = 0
  BY <1>1, NoReturns
<1>3. Owed(inv, s) = 0
  BY DEF Owed
<1> QED
  BY <1>1, <1>2, <1>3 DEF Matches, OnCapital


-------------------------------------------------------------------------------
(* Requests.                                                                *)

LEMMA InitOK == Init => DeskOK
<1> SUFFICES ASSUME Init PROVE DeskOK
  OBVIOUS
<1> DEFINE row == [k \in {PrincipalRow} |-> NoRow]
           s == [version |-> 0, months |-> {}, row |-> row]
<1>1. NoRow \in Installment /\ NoRow.status # "paid"
  BY DEF NoRow, Installment
<1>2. Schedule(s) /\ ~AnyPaid(s)
  BY <1>1, FS_EmptySet DEF Schedule, IsSchedule, Rows, AnyPaid, PrincipalRow
<1>3. Blank \in Investment /\ ~Blank.received /\ Blank.status = "absent"
  BY DEF Blank, Investment, Statuses
<1>4. NoBooks \in Books /\ NoBooks.expense = 0 /\ NoBooks.capital = [c \in Capitals |-> 0]
  BY DEF NoBooks, Books
<1>5. Matches(Blank, s, NoBooks)
  <2> HIDE DEF s
  <2> QED
    BY <1>2, <1>3, <1>4, UnreceivedMatches
<1>6. /\ investments = [i \in Ids |-> Blank] /\ schedules = [i \in Ids |-> s]
      /\ books = [i \in Ids |-> NoBooks] /\ reqs = [p \in Procs |-> Idle]
  BY DEF Init
<1> HIDE DEF s
<1> QED
  BY <1>5, <1>6 DEF DeskOK, InvestmentOK, Current

\* A request starts or ends and writes no row: what it must have read is there.
LEMMA RowsStay ==
    ASSUME DeskOK, UNCHANGED rows, reqs' = [p \in Procs |-> reqs'[p]],
           \A p \in Procs : Current(p)'
    PROVE  DeskOK'
<1>1. investments' = investments /\ schedules' = schedules /\ books' = books
  BY DEF rows
<1> QED
  BY <1>1 DEF DeskOK, InvestmentOK

LEMMA BetweenKeeps == DeskOK /\ UNCHANGED <<rows, reqs>> => DeskOK'
BY RowsStay DEF DeskOK, Current, Exists, rows

\* A commit of a request on its own investment, that leaves the other investments alone.
LEMMA CommitKeeps ==
    ASSUME DeskOK, InvestmentsApart, NEW p \in Procs, Finish(p),
           reqs[p] # Idle, NEW j \in Ids, j = reqs[p].id,
           NEW inv, NEW s, NEW b, Matches(inv, s, b),
           investments' = [investments EXCEPT ![j] = inv],
           schedules' = [schedules EXCEPT ![j] = s],
           books' = [books EXCEPT ![j] = b]
    PROVE  DeskOK'
<1>1. /\ investments' = [i \in Ids |-> investments'[i]]
      /\ schedules' = [i \in Ids |-> schedules'[i]]
      /\ books' = [i \in Ids |-> books'[i]]
      /\ investments'[j] = inv /\ schedules'[j] = s /\ books'[j] = b
      /\ \A i \in Ids : i # j => /\ investments'[i] = investments[i]
                                /\ schedules'[i] = schedules[i] /\ books'[i] = books[i]
  BY DEF DeskOK
<1>2. \A i \in Ids : InvestmentOK(i)'
  BY <1>1 DEF DeskOK, InvestmentOK
<1>3. reqs' = [q \in Procs |-> reqs'[q]] /\ reqs'[p] = Idle
  BY DEF Finish, DeskOK
<1>4. ASSUME NEW q \in Procs PROVE Current(q)'
  <2>1. CASE q = p
    BY <1>3, <2>1 DEF Current
  <2>2. CASE q # p /\ reqs[q] = Idle
    BY <2>2 DEF Finish, DeskOK, Current
  <2>3. CASE q # p /\ reqs[q] # Idle
    <3>1. reqs[q].id # j /\ Current(q) /\ reqs'[q] = reqs[q]
      BY <2>3 DEF InvestmentsApart, Finish, DeskOK
    <3>2. reqs[q].id \in Ids
      BY <3>1, <2>3 DEF Current
    <3> QED
      BY <1>1, <2>3, <3>1, <3>2 DEF Current, Exists
  <2> QED
    BY <2>1, <2>2, <2>3
<1> QED
  BY <1>1, <1>2, <1>3, <1>4 DEF DeskOK

\* What a request knows when it writes: its investment, as it is.
LEMMA Deciding ==
    ASSUME DeskOK, NEW p \in Procs, reqs[p] # Idle
    PROVE  LET q == reqs[p]
           IN  /\ q.id \in Ids /\ q.investment = investments[q.id] /\ q.schedule = schedules[q.id]
               /\ InvestmentOK(q.id) /\ Current(p)
               /\ investments = [investments EXCEPT ![q.id] = investments[q.id]]
               /\ schedules = [schedules EXCEPT ![q.id] = schedules[q.id]]
               /\ books = [books EXCEPT ![q.id] = books[q.id]]
BY DEF DeskOK, Current

LEMMA StartKeeps ==
    ASSUME DeskOK, NEW p \in Procs, NEW op, NEW i \in Ids, NEW k, NEW amount,
           Start(p, op, i, k, amount), Decided(op, investments[i], schedules[i], k, amount)
    PROVE  DeskOK'
<1> DEFINE req == [stage |-> "checked", op |-> op, id |-> i, row |-> k, amount |-> amount,
                   investment |-> investments[i], schedule |-> schedules[i]]
<1>1. reqs' = [q \in Procs |-> reqs'[q]] /\ reqs'[p] = req /\ UNCHANGED rows /\ Exists(i)
  BY DEF Start, DeskOK
<1>2. investments' = investments /\ schedules' = schedules /\ Exists(i)'
  BY <1>1 DEF rows, Exists
<1>3. Current(p)'
  BY <1>1, <1>2 DEF Current, Idle
<1>4. ASSUME NEW q \in Procs, q # p PROVE Current(q)'
  BY <1>2, <1>4 DEF DeskOK, Start, Current, Exists, rows
<1> QED
  BY <1>1, <1>3, <1>4, RowsStay

LEMMA ReadKeeps ==
    ASSUME DeskOK, EditsReceived = FALSE, NEW p \in Procs, NEW i \in Ids,
           \/ UpdateRead(p, i) \/ ReceiveRead(p, i) \/ CloseRead(p, i)
           \/ CancelRead(p, i) \/ RemoveRead(p, i)
           \/ \E k \in Rows(schedules[i]) :
                 \/ \E amount \in Payouts \cup {schedules[i].row[k].amount} : PayRead(p, i, k, amount)
                 \/ SkipRead(p, i, k) \/ RescheduleRead(p, i, k)
    PROVE  DeskOK'
<1>1. InvestmentOK(i)
  BY DEF DeskOK
<1>2. investments[i] \in Investment /\ schedules[i].row[PrincipalRow] \in Installment
      /\ (\A k \in Rows(schedules[i]) : schedules[i].row[k] \in Installment)
      /\ (investments[i].received <=> investments[i].status \in {"active", "closed"})
  BY <1>1 DEF InvestmentOK, Matches, Schedule, IsSchedule, PrincipalRow, Rows
<1>3. PrincipalRow \in Rows(schedules[i])
  BY DEF Rows
<1>4. CASE UpdateRead(p, i) \/ CancelRead(p, i) \/ RemoveRead(p, i)
  <2>1. PICK op \in {"update", "cancel", "remove"} : Start(p, op, i, PrincipalRow, 0)
    BY <1>4 DEF UpdateRead, CancelRead, RemoveRead
  <2>2. ~investments[i].received
    BY <1>4 DEF UpdateRead, CancelRead, RemoveRead, Cancellable
  <2>3. Decided(op, investments[i], schedules[i], PrincipalRow, 0)
    BY <1>3, <2>2 DEF Decided
  <2> QED
    BY <2>1, <2>3, StartKeeps
<1>5. CASE ReceiveRead(p, i)
  <2>1. /\ Start(p, "receive", i, PrincipalRow, investments[i].principal)
        /\ ~investments[i].received /\ investments[i].principal \in Nat
    BY <1>2, <1>5 DEF ReceiveRead, Investment
  <2>2. Decided("receive", investments[i], schedules[i], PrincipalRow, investments[i].principal)
    BY <1>3, <2>1 DEF Decided
  <2> QED
    BY <2>1, <2>2, StartKeeps
<1>6. CASE CloseRead(p, i)
  <2> DEFINE n == Returned(investments[i], schedules[i])
  <2>1. n \in Int
    BY <1>2 DEF Returned, PrincipalOutstanding, Investment, Installment
  <2>2. n > 0 /\ Start(p, "close", i, PrincipalRow, n)
        /\ ~Ended(investments[i]) /\ investments[i].received
    BY <1>6 DEF CloseRead
  <2>3. n \in Nat
    <3> HIDE DEF n
    <3> QED
      BY <2>1, <2>2
  <2>4. Decided("close", investments[i], schedules[i], PrincipalRow, n)
    BY <1>2, <1>3, <2>2, <2>3 DEF Decided, Ended
  <2> QED
    BY <2>2, <2>4, StartKeeps
<1>7. ASSUME NEW k \in Rows(schedules[i]), NEW amount \in Payouts \cup {schedules[i].row[k].amount},
             PayRead(p, i, k, amount)
      PROVE  DeskOK'
  <2>1. Start(p, "pay", i, k, amount) /\ Payable(investments[i], schedules[i].row[k])
    BY <1>7 DEF PayRead
  <2>2. amount \in Nat
    BY <1>2, InvestmentsAssumption DEF Installment
  <2>3. Decided("pay", investments[i], schedules[i], k, amount)
    BY <2>1, <2>2 DEF Decided
  <2> QED
    BY <2>1, <2>3, StartKeeps
<1>8. ASSUME NEW k \in Rows(schedules[i]), SkipRead(p, i, k) \/ RescheduleRead(p, i, k)
      PROVE  DeskOK'
  <2>1. PICK op \in {"skip", "reschedule"} : Start(p, op, i, k, 0)
    BY <1>8 DEF SkipRead, RescheduleRead
  <2>2. Decided(op, investments[i], schedules[i], k, 0)
    BY <1>8 DEF SkipRead, RescheduleRead, Decided
  <2> QED
    BY <2>1, <2>2, StartKeeps
<1> QED
  BY <1>4, <1>5, <1>6, <1>7, <1>8

-------------------------------------------------------------------------------
(* What requests write.                                                     *)

LEMMA UpdateKeeps ==
    ASSUME DeskOK, InvestmentsApart, NEW p \in Procs, NEW form \in Forms, UpdateCommit(p, form)
    PROVE  DeskOK'
<1>1. PICK i \in Ids : i = reqs[p].id
  BY Deciding DEF UpdateCommit, Writing
<1> DEFINE inv == Edited(investments[i], form)
           s == BuildSchedule(form, schedules[i].version + 1)
<1>2. /\ InvestmentOK(i) /\ ~investments[i].received /\ Finish(p)
      /\ investments' = [investments EXCEPT ![i] = inv]
      /\ schedules' = [schedules EXCEPT ![i] = s]
      /\ books' = [books EXCEPT ![i] = books[i]]
  BY <1>1, Deciding DEF UpdateCommit, Writing, Rebuilt, Current, Decided
<1>3. investments[i] \in Investment /\ schedules[i].version + 1 \in Nat /\ books[i] \in Books
      /\ investments[i].status \notin {"active", "closed"}
  BY <1>2 DEF InvestmentOK, Matches, Schedule, IsSchedule
<1>4. inv \in Investment /\ ~inv.received /\ inv.status \notin {"active", "closed"}
  BY <1>2, <1>3, InvestmentsAssumption DEF Edited, Investment, Form
<1>5. Schedule(s) /\ ~AnyPaid(s)
  BY <1>3, BuiltSchedule
<1>6. books[i].expense = 0 /\ books[i].capital = [c \in Capitals |-> 0]
  BY <1>2, UnreceivedIsEmpty DEF InvestmentOK
<1> HIDE DEF inv, s
<1>7. Matches(inv, s, books[i])
  BY <1>3, <1>4, <1>5, <1>6, UnreceivedMatches
<1> QED
  BY <1>1, <1>2, <1>7, CommitKeeps DEF UpdateCommit, Writing

\* The principal comes in: it is owed, on the account that becomes the investment's.
LEMMA ReceiveKeeps ==
    ASSUME DeskOK, InvestmentsApart, NEW p \in Procs, ReceiveCommit(p)
    PROVE  DeskOK'
<1>1. PICK i \in Ids : i = reqs[p].id
  BY Deciding DEF ReceiveCommit, Writing
<1>2. PICK old, s, b : old = investments[i] /\ s = schedules[i] /\ b = books[i]
  OBVIOUS
<1> DEFINE account == CapitalOf(old)
           inv == [status |-> "active", received |-> TRUE, principal |-> old.principal,
                   capital |-> account]
           new == Posting(b, account, old.principal)
<1>3. /\ Matches(old, s, b) /\ ~old.received /\ Finish(p)
      /\ investments' = [investments EXCEPT ![i] = inv]
      /\ schedules' = [schedules EXCEPT ![i] = s]
      /\ books' = [books EXCEPT ![i] = new]
  BY <1>1, <1>2, Deciding DEF ReceiveCommit, Writing, Booked, Current, Decided, InvestmentOK
<1>4. old \in Investment /\ Schedule(s) /\ b \in Books /\ old.principal \in Nat
      /\ b.expense = Returns(s)
  BY <1>3 DEF Matches, Investment
<1>5. b.capital = OnCapital(old, 0) /\ ~AnyPaid(s)
  BY <1>3, UnreceivedIsEmpty DEF OnCapital
<1>6. new \in Books /\ new.expense = b.expense /\ new.capital = OnCapital(old, old.principal)
  <2>1. new \in Books /\ new.expense = b.expense /\ new.capital = OnCapital(old, 0 + old.principal)
    BY <1>4, <1>5, PostingMoves
  <2> QED
    BY <1>4, <2>1
<1>7. inv \in Investment /\ CapitalOf(inv) = account
  BY <1>4, CapitalType, InvestmentsAssumption DEF Investment, Statuses, CapitalOf
<1>8. Owed(inv, s) = old.principal
  <2>1. s.row[PrincipalRow].status # "paid"
    BY <1>5 DEF AnyPaid, Rows
  <2> QED
    BY <1>4, <2>1 DEF Owed, PrincipalOutstanding
<1>9. OnCapital(inv, old.principal) = OnCapital(old, old.principal)
  BY <1>7 DEF OnCapital
<1>10. inv.received /\ inv.status = "active"
  OBVIOUS
<1> HIDE DEF inv, new
<1>11. Matches(inv, s, new)
  BY <1>4, <1>6, <1>7, <1>8, <1>9, <1>10 DEF Matches
<1> QED
  BY <1>1, <1>3, <1>11, CommitKeeps DEF ReceiveCommit, Writing

\* A request that only writes a row that is not paid.
LEMMA RowKeeps ==
    ASSUME DeskOK, InvestmentsApart, NEW p \in Procs, Finish(p),
           reqs[p] # Idle, NEW i \in Ids, i = reqs[p].id,
           NEW k \in Rows(schedules[i]), NEW row \in Installment,
           schedules[i].row[k].status # "paid", row.status # "paid",
           schedules' = [schedules EXCEPT ![i] = WithRow(schedules[i], k, row)],
           UNCHANGED <<investments, books>>
    PROVE  DeskOK'
<1>1. PICK inv, s, b : inv = investments[i] /\ s = schedules[i] /\ b = books[i]
  OBVIOUS
<1> DEFINE t == WithRow(s, k, row)
<1>2. /\ Matches(inv, s, b)
      /\ investments' = [investments EXCEPT ![i] = inv]
      /\ schedules' = [schedules EXCEPT ![i] = t]
      /\ books' = [books EXCEPT ![i] = b]
  BY <1>1 DEF DeskOK, InvestmentOK
<1>3. Schedule(s)
  BY <1>2 DEF Matches
<1>4. /\ Schedule(t) /\ AnyPaid(t) = AnyPaid(s) /\ Returns(t) = Returns(s)
      /\ PrincipalOutstanding(inv, t) = PrincipalOutstanding(inv, s)
  BY <1>1, <1>3, UnpaidReplaced
<1> HIDE DEF t
<1>5. Owed(inv, t) = Owed(inv, s)
  BY <1>4 DEF Owed
<1>6. Matches(inv, t, b)
  BY <1>2, <1>4, <1>5 DEF Matches
<1> QED
  BY <1>2, <1>6, CommitKeeps

LEMMA SkipKeeps ==
    ASSUME DeskOK, InvestmentsApart, NEW p \in Procs,
           \/ SkipCommit(p)
           \/ \E amount \in Revised, moved \in BOOLEAN : RescheduleCommit(p, amount, moved)
    PROVE  DeskOK'
<1>1. reqs[p] # Idle /\ reqs[p].op \in {"skip", "reschedule"}
  BY DEF SkipCommit, RescheduleCommit, Writing
<1>2. PICK i \in Ids : i = reqs[p].id
  BY <1>1, Deciding
<1>3. PICK k \in Rows(schedules[i]) : k = reqs[p].row
  BY <1>2, <1>1, Deciding DEF Current, Decided
<1>4. schedules[i].row[k].status # "paid" /\ schedules[i].row[k] \in Installment
      /\ schedules[i] = reqs[p].schedule
  BY <1>2, <1>1, <1>3, Deciding DEF Current, Decided, InvestmentOK, Matches, Schedule, IsSchedule,
     Rows, PrincipalRow
<1>5. schedules[i].row[k].status \in {"pending", "skipped"} /\ schedules[i].row[k].amount \in Nat
  BY <1>4 DEF Installment
<1>6. CASE SkipCommit(p)
  <2> DEFINE row == [status |-> "skipped", amount |-> schedules[i].row[k].amount]
  <2>1. row \in Installment /\ row.status # "paid"
    BY <1>5 DEF Installment
  <2>2. /\ schedules' = [schedules EXCEPT ![i] = WithRow(schedules[i], k, row)]
        /\ UNCHANGED <<investments, books>> /\ Finish(p)
    BY <1>2, <1>3, <1>6 DEF SkipCommit, Skipped
  <2> HIDE DEF row
  <2> QED
    BY <1>1, <1>2, <1>4, <2>1, <2>2, RowKeeps
<1>7. ASSUME NEW amount \in Revised, NEW moved \in BOOLEAN, RescheduleCommit(p, amount, moved)
      PROVE  DeskOK'
  <2> DEFINE was == schedules[i].row[k].status
             row == [status |-> IF was = "skipped" /\ moved THEN "pending" ELSE was,
                     amount |-> amount]
  <2>1. row \in Installment /\ row.status # "paid"
    BY <1>5, InvestmentsAssumption DEF Installment
  <2>2. /\ schedules' = [schedules EXCEPT ![i] = WithRow(schedules[i], k, row)]
        /\ UNCHANGED <<investments, books>> /\ Finish(p)
    BY <1>2, <1>3, <1>4, <1>7 DEF RescheduleCommit, Rescheduled
  <2> HIDE DEF row
  <2> QED
    BY <1>1, <1>2, <1>4, <2>1, <2>2, RowKeeps
<1> QED
  BY <1>6, <1>7

\* A payout: a return is charged and counted, the principal is relieved.
LEMMA PayKeeps ==
    ASSUME DeskOK, InvestmentsApart, NEW p \in Procs, PayCommit(p)
    PROVE  DeskOK'
<1>1. PICK i \in Ids : i = reqs[p].id
  BY Deciding DEF PayCommit, Writing
<1>2. PICK k \in Rows(schedules[i]), n \in Nat : k = reqs[p].row /\ n = reqs[p].amount
  BY <1>1, Deciding DEF PayCommit, Writing, Current, Decided
<1>3. PICK inv, s, b : inv = investments[i] /\ s = schedules[i] /\ b = books[i]
  OBVIOUS
<1> DEFINE row == [status |-> "paid", amount |-> n]
           t == WithRow(s, k, row)
           new == IF k = PrincipalRow THEN Posting(b, CapitalOf(inv), 0 - n) ELSE Expensed(b, n)
<1>4. Matches(inv, s, b) /\ Payable(inv, s.row[k]) /\ Finish(p)
  BY <1>1, <1>2, <1>3, Deciding DEF PayCommit, Writing, Current, Decided, InvestmentOK
<1>5. /\ investments' = [investments EXCEPT ![i] = inv]
      /\ schedules' = [schedules EXCEPT ![i] = t]
      /\ books' = [books EXCEPT ![i] = new]
  BY <1>1, <1>2, <1>3, Deciding DEF PayCommit, Writing, Booked, Charged, Paid
<1>6. /\ inv \in Investment /\ Schedule(s) /\ b \in Books /\ inv.received /\ inv.status = "active"
      /\ s.row[k].status # "paid" /\ k \in Rows(s)
      /\ b.capital = OnCapital(inv, Owed(inv, s)) /\ b.expense = Returns(s)
  BY <1>3, <1>4 DEF Matches, Payable, Ended
<1>7. row \in Installment /\ row.status = "paid" /\ row.amount = n
  BY DEF Installment
<1> HIDE DEF row
<1>8. /\ Schedule(t) /\ Rows(t) = Rows(s) /\ t.months = s.months
      /\ t.row[k] = row /\ \A m \in Rows(s) : m # k => t.row[m] = s.row[m]
  BY <1>6, <1>7, RowReplaced
<1>9. Owed(inv, s) \in Int /\ Returns(s) \in Int /\ inv.principal \in Nat
  BY <1>6, OwedType, ReturnsType DEF Investment
<1> HIDE DEF t
<1>10. CASE k = PrincipalRow
  <2>1. PaidMonths(s) = PaidMonths(t) /\ \A m \in PaidMonths(s) : s.row[m].amount = t.row[m].amount
    <3>1. PrincipalRow \notin s.months
      BY <1>6 DEF Schedule
    <3> QED
      BY <1>8, <1>10, <3>1 DEF PaidMonths, Rows
  <2>2. Returns(t) = Returns(s)
    BY <2>1, SameReturns
  <2>3. Owed(inv, s) = inv.principal /\ Owed(inv, t) = inv.principal - n
    BY <1>6, <1>7, <1>8, <1>9, <1>10 DEF Owed, PrincipalOutstanding
  <2>4. Owed(inv, s) + (0 - n) = Owed(inv, t) /\ 0 - n \in Int
    BY <1>9, <2>3
  <2>5. new = Posting(b, CapitalOf(inv), 0 - n)
    BY <1>10
  <2> HIDE DEF new
  <2>6. /\ new \in Books /\ new.expense = b.expense
        /\ new.capital = OnCapital(inv, Owed(inv, s) + (0 - n))
    BY <1>6, <1>9, <2>4, <2>5, PostingMoves
  <2>7. Matches(inv, t, new)
    BY <1>6, <1>8, <2>2, <2>4, <2>6 DEF Matches
  <2> QED
    BY <1>1, <1>4, <1>5, <2>7, CommitKeeps DEF PayCommit, Writing
<1>11. CASE k # PrincipalRow
  <2>1. k \notin PaidMonths(s) /\ PaidMonths(t) = PaidMonths(s) \cup {k}
        /\ \A m \in PaidMonths(s) : t.row[m].amount = s.row[m].amount
    BY <1>6, <1>7, <1>8, <1>11 DEF PaidMonths, Rows
  <2>2. Returns(t) = Returns(s) + n
    BY <1>6, <1>7, <1>8, <2>1, OneMoreReturn
  <2>3. Owed(inv, t) = Owed(inv, s)
    BY <1>8, <1>11 DEF Owed, PrincipalOutstanding, Rows
  <2>4. new = [cash |-> b.cash - n, expense |-> b.expense + n, capital |-> b.capital]
    BY <1>11 DEF Expensed
  <2> HIDE DEF new
  <2>5. new \in Books /\ new.expense = Returns(t) /\ new.capital = b.capital
    BY <1>6, <2>2, <2>4 DEF Books
  <2>6. Matches(inv, t, new)
    BY <1>6, <1>8, <2>3, <2>5 DEF Matches
  <2> QED
    BY <1>1, <1>4, <1>5, <2>6, CommitKeeps DEF PayCommit, Writing
<1> QED
  BY <1>10, <1>11

\* Closing: what is still owed goes back.
LEMMA CloseKeeps ==
    ASSUME DeskOK, InvestmentsApart, NEW p \in Procs, CloseCommit(p)
    PROVE  DeskOK'
<1>1. PICK i \in Ids : i = reqs[p].id
  BY Deciding DEF CloseCommit, Writing
<1>2. PICK n \in Nat : n = reqs[p].amount
  BY Deciding DEF CloseCommit, Writing, Current, Decided
<1>3. PICK old, s, b : old = investments[i] /\ s = schedules[i] /\ b = books[i]
  OBVIOUS
<1> DEFINE inv == [old EXCEPT !.status = "closed"]
           t == Settled(s, n)
           new == Posting(b, CapitalOf(old), 0 - n)
<1>4. Matches(old, s, b) /\ old.status = "active" /\ n = Returned(old, s) /\ Finish(p)
  BY <1>1, <1>2, <1>3, Deciding DEF CloseCommit, Writing, Current, Decided, InvestmentOK
<1>5. /\ investments' = [investments EXCEPT ![i] = inv]
      /\ schedules' = [schedules EXCEPT ![i] = t]
      /\ books' = [books EXCEPT ![i] = new]
  BY <1>1, <1>2, <1>3, Deciding DEF CloseCommit, Writing, Booked
<1>6. /\ old \in Investment /\ Schedule(s) /\ b \in Books /\ old.received
      /\ b.capital = OnCapital(old, Owed(old, s)) /\ b.expense = Returns(s)
  BY <1>4 DEF Matches
<1>7. Owed(old, s) = n
  BY <1>4, <1>6 DEF Owed, Returned
<1>8. new \in Books /\ new.expense = b.expense /\ new.capital = OnCapital(old, 0)
  <2>1. n + (0 - n) = 0 /\ n \in Int /\ 0 - n \in Int
    OBVIOUS
  <2>2. /\ new \in Books /\ new.expense = b.expense
        /\ new.capital = OnCapital(old, n + (0 - n))
    BY <1>6, <1>7, <2>1, PostingMoves
  <2> HIDE DEF new
  <2> QED
    BY <2>1, <2>2
<1>9. Schedule(t) /\ Returns(t) = Returns(s)
  BY <1>6, SettledSchedule
<1>10. inv \in Investment /\ inv.received /\ inv.status = "closed" /\ inv.capital = old.capital
  BY <1>6 DEF Investment, Statuses
<1> HIDE DEF inv, t, new
<1>11. Owed(inv, t) = 0 /\ OnCapital(inv, 0) = OnCapital(old, 0)
  BY <1>10 DEF Owed, OnCapital, CapitalOf
<1>12. Matches(inv, t, new)
  BY <1>6, <1>8, <1>9, <1>10, <1>11 DEF Matches
<1> QED
  BY <1>1, <1>4, <1>5, <1>12, CommitKeeps DEF CloseCommit, Writing

\* Cancelling and deleting: nothing came in, nothing is booked.
LEMMA GoneKeeps ==
    ASSUME DeskOK, InvestmentsApart, NEW p \in Procs, CancelCommit(p) \/ RemoveCommit(p)
    PROVE  DeskOK'
<1>1. reqs[p] # Idle /\ reqs[p].op \in {"cancel", "remove"}
  BY DEF CancelCommit, RemoveCommit, Writing
<1>2. PICK i \in Ids : i = reqs[p].id
  BY <1>1, Deciding
<1>3. PICK old, s, b : old = investments[i] /\ s = schedules[i] /\ b = books[i]
  OBVIOUS
<1>4. PICK status \in {"cancelled", "deleted"} :
          investments' = [investments EXCEPT ![i].status = status]
  BY <1>2 DEF CancelCommit, RemoveCommit
<1> DEFINE inv == [old EXCEPT !.status = status]
<1>5. Matches(old, s, b) /\ ~old.received /\ Finish(p)
  BY <1>1, <1>2, <1>3, Deciding DEF CancelCommit, RemoveCommit, Current, Decided, InvestmentOK
<1>6. /\ investments' = [investments EXCEPT ![i] = inv]
      /\ schedules' = [schedules EXCEPT ![i] = s]
      /\ books' = [books EXCEPT ![i] = b]
  BY <1>1, <1>2, <1>3, <1>4, Deciding DEF CancelCommit, RemoveCommit
<1>7. inv \in Investment /\ ~inv.received /\ inv.status \notin {"active", "closed"}
      /\ Schedule(s) /\ b \in Books
  BY <1>5 DEF Matches, Investment, Statuses
<1>8. b.expense = 0 /\ b.capital = [c \in Capitals |-> 0] /\ ~AnyPaid(s)
  BY <1>5, UnreceivedIsEmpty
<1> HIDE DEF inv
<1>9. Matches(inv, s, b)
  BY <1>7, <1>8, UnreceivedMatches
<1> QED
  BY <1>1, <1>2, <1>5, <1>6, <1>9, CommitKeeps

LEMMA FailKeeps ==
    ASSUME DeskOK, NEW p \in Procs, Fail(p)
    PROVE  DeskOK'
<1>1. reqs' = [q \in Procs |-> reqs'[q]] /\ reqs'[p] = Idle /\ UNCHANGED rows
  BY DEF Fail, Finish, DeskOK
<1>2. ASSUME NEW q \in Procs PROVE Current(q)'
  BY <1>1 DEF DeskOK, Fail, Finish, Current, Exists, rows
<1> QED
  BY <1>1, <1>2, RowsStay

\* An arrangement is entered while a request may be on its way for another.
LEMMA CreateKeeps ==
    ASSUME DeskOK, NEW i \in Ids, NEW form \in Forms, Create(i, form)
    PROVE  DeskOK'
<1> DEFINE inv == [status |-> "planned", received |-> FALSE, principal |-> form.principal,
                   capital |-> form.capital]
           s == BuildSchedule(form, 0)
<1>1. /\ investments' = [investments EXCEPT ![i] = inv]
      /\ schedules' = [schedules EXCEPT ![i] = s]
      /\ books' = books /\ reqs' = reqs /\ investments[i].status = "absent"
  BY DEF Create
<1>2. inv \in Investment /\ ~inv.received /\ inv.status = "planned"
  BY InvestmentsAssumption DEF Investment, Statuses, Form
<1>3. Schedule(s) /\ ~AnyPaid(s)
  BY BuiltSchedule
<1>4. Matches(investments[i], schedules[i], books[i])
  BY DEF DeskOK, InvestmentOK
<1>5. books[i] \in Books /\ books[i].expense = 0 /\ books[i].capital = [c \in Capitals |-> 0]
  <2>1. ~investments[i].received /\ books[i] \in Books
    BY <1>1, <1>4 DEF Matches
  <2> QED
    BY <1>4, <2>1, UnreceivedIsEmpty
<1> HIDE DEF inv, s
<1>6. Matches(inv, s, books[i])
  BY <1>2, <1>3, <1>5, UnreceivedMatches
<1>7. /\ investments' = [x \in Ids |-> investments'[x]]
      /\ schedules' = [x \in Ids |-> schedules'[x]]
      /\ investments'[i] = inv /\ schedules'[i] = s
      /\ \A x \in Ids : x # i => investments'[x] = investments[x] /\ schedules'[x] = schedules[x]
  BY <1>1 DEF DeskOK
<1>8. \A x \in Ids : InvestmentOK(x)'
  BY <1>1, <1>6, <1>7 DEF DeskOK, InvestmentOK
<1>9. \A p \in Procs : Current(p)'
  <2> SUFFICES ASSUME NEW p \in Procs, reqs[p] # Idle PROVE Current(p)'
    BY <1>1 DEF Current
  <2>1. Current(p) /\ reqs[p].id # i
    BY <1>1 DEF DeskOK, Current, Exists
  <2> QED
    BY <1>1, <1>7, <2>1 DEF Current, Exists
<1> QED
  BY <1>1, <1>7, <1>8, <1>9 DEF DeskOK

LEMMA StepOK ==
    ASSUME InvestmentsApart, EditsReceived = FALSE, DeskOK, [Next]_vars
    PROVE  DeskOK'
<1>1. ASSUME NEW i \in Ids, NEW form \in Forms, Create(i, form) PROVE DeskOK'
  BY <1>1, CreateKeeps
<1>2. ASSUME NEW p \in Procs,
             \/ \E form \in Forms : UpdateCommit(p, form)
             \/ ReceiveCommit(p) \/ PayCommit(p) \/ SkipCommit(p)
             \/ \E amount \in Revised, moved \in BOOLEAN : RescheduleCommit(p, amount, moved)
             \/ CloseCommit(p) \/ CancelCommit(p) \/ RemoveCommit(p) \/ Fail(p)
      PROVE  DeskOK'
  BY <1>2, UpdateKeeps, ReceiveKeeps, PayKeeps, SkipKeeps, CloseKeeps, GoneKeeps, FailKeeps
<1>3. CASE (\E amount \in Amounts : OtherVoucher(amount)) \/ SetLock \/ UNCHANGED vars
  <2>1. UNCHANGED <<rows, reqs>>
    BY <1>3 DEF OtherVoucher, SetLock, vars
  <2> QED
    BY <2>1, BetweenKeeps
<1> QED
  BY <1>1, <1>2, <1>3, ReadKeeps, Zenon DEF Next

-------------------------------------------------------------------------------
(* The theorems.                                                            *)

\* As long as requests that overlap are about different investments, and the terms of
\* what was received stay as they are, the vouchers of every investment follow from its rows.
THEOREM BooksFollowRows ==
    EditsReceived = FALSE => (Spec /\ []InvestmentsApart => []DeskOK)
<1> SUFFICES ASSUME EditsReceived = FALSE PROVE Spec /\ []InvestmentsApart => []DeskOK
  OBVIOUS
<1>1. DeskOK /\ InvestmentsApart /\ [Next]_vars => DeskOK'
  BY StepOK
<1> QED
  BY <1>1, InitOK, PTL DEF Spec

\* Then the capital account of an investment holds what its rows say is owed, over any
\* order of edits, payouts, reschedulings and closing.
THEOREM OwesTheRows ==
    EditsReceived = FALSE => (Spec /\ []InvestmentsApart => []OwedIsOutstanding)
<1> SUFFICES ASSUME EditsReceived = FALSE
             PROVE  Spec /\ []InvestmentsApart => []OwedIsOutstanding
  OBVIOUS
<1>1. DeskOK => OwedIsOutstanding
  BY DEF DeskOK, InvestmentOK, Matches, OwedIsOutstanding
<1> QED
  BY <1>1, BooksFollowRows, PTL

\* And the expense that was charged is the sum of the returns on the schedule.
THEOREM ChargesTheReturns ==
    EditsReceived = FALSE => (Spec /\ []InvestmentsApart => []ReturnsAreVouched)
<1> SUFFICES ASSUME EditsReceived = FALSE
             PROVE  Spec /\ []InvestmentsApart => []ReturnsAreVouched
  OBVIOUS
<1>1. DeskOK => ReturnsAreVouched
  BY DEF DeskOK, InvestmentOK, Matches, ReturnsAreVouched, Returns, PaidMonths
<1> QED
  BY <1>1, BooksFollowRows, PTL

=============================================================================
