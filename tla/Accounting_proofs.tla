--------------------------- MODULE Accounting_proofs ---------------------------
(***************************************************************************)
(* What the accounting promises, for any vouchers, accounts, forms and     *)
(* number of edits.                                                        *)
(*                                                                         *)
(* The voucher desk: a request writes without reading its voucher again,   *)
(* so the promises rest on what it read still being there (Reading): that  *)
(* is what VouchersApart is for: requests may overlap, but not on one      *)
(* voucher, where two of them do break the promises.                       *)
(*                                                                         *)
(* The chart of accounts: codes are never given twice and entries keep     *)
(* their accounts whatever overlaps; that the opening of an account is in  *)
(* the books needs that nobody writes an account whose opening another     *)
(* request is about to book (SavesApart).                                  *)
(*                                                                         *)
(* The statements: what they have in common is arithmetic of finite sums   *)
(* over entries whose two sides are accounts of the chart, so they agree   *)
(* after any history, whatever overlaps.                                   *)
(***************************************************************************)
EXTENDS Vouchers, Reports, Sums, TLAPS

\* Requests that overlap are about different vouchers.
VouchersApart ==
    \A c, d \in Clerks :
        c # d /\ reqs[c] # Idle /\ reqs[d] # Idle => reqs[c].v # reqs[d].v

\* The tables and the requests as functions; the amounts are not looked at.
Shape ==
    /\ rows = [v \in Ids |-> rows[v]]
    /\ \A v \in Ids : DOMAIN rows[v] = {"status", "dr", "cr", "writes"}
    /\ lines = [v \in Ids |-> lines[v]]
    /\ reqs = [c \in Clerks |-> reqs[c]]

\* What the check of an operation found on its voucher.
Found(op, v) ==
    /\ op = "post" =>
         /\ rows[v].status \in {"draft", "pending"}
         /\ StoredDebit(lines[v]) = StoredCredit(lines[v])
    /\ op = "unpost" => rows[v].status = "posted"
    /\ op = "submit" => rows[v].status = "draft"
    /\ op = "reject" => rows[v].status = "pending"
    /\ op = "cancel" => rows[v].status # "cancelled"
    /\ op = "update" => Editable(rows[v])

\* A request that is under way finds its voucher as it read it.
Reading(c) ==
    LET v == reqs[c].v
    IN  /\ {"v", "op", "row"} \subseteq DOMAIN reqs[c]
        /\ v \in Ids
        /\ Exists(v)
        /\ reqs[c].row = rows[v]
        /\ Found(reqs[c].op, v)

Served == \A c \in Clerks : reqs[c] # Idle => Reading(c)

DeskInv == Shape /\ Served /\ PostedBalanced

\* What StatusIsBinding says of a step.
Binding(v) ==
    /\ rows[v].status \in {"posted", "pending"} /\ rows'[v].status = rows[v].status
          => lines'[v] = lines[v]
    /\ rows[v].status = "cancelled" => rows'[v].status \in {"cancelled", "deleted"}

\* A step does what is promised.
Kept == DeskInv' /\ \A v \in Ids : Binding(v)

-------------------------------------------------------------------------------
\* A new desk is empty.
LEMMA DeskInitially == Init => DeskInv
BY DEF Init, DeskInv, Shape, Served, PostedBalanced

\* A step that touches neither vouchers nor requests.
LEMMA Still ==
    ASSUME DeskInv, UNCHANGED <<rows, lines, reqs>>
    PROVE  Kept
BY DEF DeskInv, Shape, Served, Reading, Found, Exists, PostedBalanced, Kept, Binding

\* A request ends without a change.
LEMMA Ended ==
    ASSUME DeskInv, NEW c \in Clerks, Finish(c), UNCHANGED <<rows, lines>>
    PROVE  Kept
<1>1. Shape'
  BY DEF DeskInv, Shape, Finish
<1>2. Served'
  BY DEF DeskInv, Shape, Finish, Served, Reading, Found, Exists
<1> QED
  BY <1>1, <1>2 DEF DeskInv, PostedBalanced, Kept, Binding

\* A handler reads and checks its voucher.
LEMMA Reads ==
    ASSUME DeskInv, NEW c \in Clerks, NEW v \in Ids, NEW op, NEW form,
           Read(c, op, v, form), Found(op, v)
    PROVE  Kept
<1>1. /\ UNCHANGED <<rows, lines>>
      /\ reqs' = [reqs EXCEPT ![c] = [stage |-> "checked", op |-> op, v |-> v,
                                      row |-> rows[v], seen |-> lines[v], form |-> form]]
      /\ Exists(v)
  BY DEF Read
<1>2. Shape'
  BY <1>1 DEF DeskInv, Shape
<1>3. Served'
  BY <1>1 DEF DeskInv, Shape, Served, Reading, Found, Exists
<1> QED
  BY <1>1, <1>2, <1>3 DEF DeskInv, PostedBalanced, Kept, Binding

\* A commit changes the voucher of its request alone, which no other request is about: what
\* is left to show is what it does to that one.
LEMMA Commits ==
    ASSUME VouchersApart, DeskInv, NEW c \in Clerks, NEW new, NEW list,
           reqs[c] # Idle, Finish(c),
           rows' = [rows EXCEPT ![reqs[c].v] = new],
           lines' = [lines EXCEPT ![reqs[c].v] = list],
           DOMAIN new = {"status", "dr", "cr", "writes"},
           new.status = "posted" => StoredDebit(list) = StoredCredit(list),
           rows[reqs[c].v].status \in {"posted", "pending"} /\ new.status = rows[reqs[c].v].status
               => list = lines[reqs[c].v],
           rows[reqs[c].v].status = "cancelled" => new.status \in {"cancelled", "deleted"}
    PROVE  Kept
<1> DEFINE v == reqs[c].v
<1>1. v \in Ids
  BY DEF DeskInv, Served, Reading
<1>2. Shape'
  BY <1>1 DEF DeskInv, Shape, Finish
<1>3. reqs'[c] = Idle
  BY DEF DeskInv, Shape, Finish
<1>5. /\ rows'[v] = new /\ lines'[v] = list
      /\ \A w \in Ids \ {v} : rows'[w] = rows[w] /\ lines'[w] = lines[w]
  BY <1>1 DEF DeskInv, Shape
<1>4. Served'
  <2> SUFFICES ASSUME NEW d \in Clerks, reqs'[d] # Idle PROVE Reading(d)'
    BY DEF Served
  <2>1. reqs'[d] = reqs[d] /\ d # c
    BY <1>3 DEF DeskInv, Shape, Finish
  <2>2. Reading(d) /\ reqs[d].v # v
    BY <2>1 DEF DeskInv, Served, VouchersApart
  <2>3. reqs[d].v \in Ids \ {v}
    BY <2>2 DEF Reading
  <2> QED
    BY <1>5, <2>1, <2>2, <2>3 DEF Reading, Found, Exists
<1>6. PostedBalanced'
  BY <1>5 DEF DeskInv, PostedBalanced
<1>7. \A w \in Ids : Binding(w)
  BY <1>5 DEF Binding
<1> QED
  BY <1>2, <1>4, <1>6, <1>7 DEF Kept, DeskInv

\* A voucher is written down: no request can have read it before.
LEMMA Created ==
    ASSUME DeskInv, NEW v \in Ids, NEW form, Create(v, form)
    PROVE  Kept
<1>1. /\ rows[v].status = "absent"
      /\ \E dr, cr : rows' = [rows EXCEPT ![v] = [status |-> "draft", dr |-> dr, cr |-> cr,
                                                 writes |-> 1]]
      /\ \E list : lines' = [lines EXCEPT ![v] = list]
      /\ reqs' = reqs
  BY DEF Create
<1>2. Shape'
  BY <1>1 DEF DeskInv, Shape
<1>3. /\ rows'[v].status = "draft"
      /\ \A w \in Ids \ {v} : rows'[w] = rows[w] /\ lines'[w] = lines[w]
  BY <1>1 DEF DeskInv, Shape
<1>4. \A c \in Clerks : reqs[c] # Idle => reqs[c].v # v
  BY <1>1 DEF DeskInv, Served, Reading, Exists
<1>5. Served'
  BY <1>1, <1>3, <1>4 DEF DeskInv, Served, Reading, Found, Exists
<1>6. PostedBalanced' /\ \A w \in Ids : Binding(w)
  BY <1>1, <1>3 DEF DeskInv, PostedBalanced, Binding
<1> QED
  BY <1>2, <1>5, <1>6 DEF Kept, DeskInv

\* The writes of the status alone.
LEMMA Statuses ==
    ASSUME VouchersApart, DeskInv, NEW c \in Clerks,
           NEW op \in {"post", "unpost", "submit", "reject", "cancel"}, NEW status,
           Write(c, op, status),
           <<op, status>> \in {<<"post", "posted">>, <<"unpost", "draft">>, <<"submit", "pending">>,
                              <<"reject", "draft">>, <<"cancel", "cancelled">>}
    PROVE  Kept
<1> DEFINE v   == reqs[c].v
           new == [rows[v] EXCEPT !.status = status]
<1>1. reqs[c] # Idle /\ reqs[c].op = op /\ Finish(c)
  BY DEF Write, Serving
<1>2. v \in Ids /\ Found(op, v)
  BY <1>1 DEF DeskInv, Served, Reading
<1>3. DOMAIN new = {"status", "dr", "cr", "writes"} /\ new.status = status
  BY <1>2 DEF DeskInv, Shape
<1>4. rows' = [rows EXCEPT ![v] = new] /\ lines' = [lines EXCEPT ![v] = lines[v]]
  BY <1>2 DEF Write, DeskInv, Shape
<1>5. status = "posted" => StoredDebit(lines[v]) = StoredCredit(lines[v])
  BY <1>2 DEF Found
<1>6. rows[v].status = "cancelled" => status \in {"cancelled", "deleted"}
  BY <1>2 DEF Found
<1> HIDE DEF new
<1> QED
  BY <1>1, <1>3, <1>4, <1>5, <1>6, Commits

\* An edit stores its lines and takes a submitted voucher back to draft.
LEMMA Edited ==
    ASSUME VouchersApart, DeskInv, NEW c \in Clerks, UpdateCommit(c)
    PROVE  Kept
<1> DEFINE v      == reqs[c].v
           status == StatusAfter(reqs[c].row, rows[v].status)
<1>1. /\ reqs[c] # Idle /\ reqs[c].op = "update" /\ Finish(c)
      /\ \E dr, cr, n : rows' = [rows EXCEPT ![v] = [status |-> status, dr |-> dr, cr |-> cr,
                                                    writes |-> n]]
      /\ \E list : lines' = [lines EXCEPT ![v] = list]
  BY DEF UpdateCommit, Serving
<1>2. v \in Ids /\ reqs[c].row = rows[v] /\ Editable(rows[v])
  BY <1>1 DEF DeskInv, Served, Reading, Found
<1>3. /\ rows[v].status \notin {"posted", "cancelled"}
      /\ status \notin {"posted", "pending"}
  BY <1>2 DEF Editable, StatusAfter
<1>4. PICK list : lines' = [lines EXCEPT ![v] = list]
  BY <1>1
<1>5. PICK dr, cr, n : rows' = [rows EXCEPT ![v] = [status |-> status, dr |-> dr, cr |-> cr,
                                                  writes |-> n]]
  BY <1>1
<1> DEFINE new == [status |-> status, dr |-> dr, cr |-> cr, writes |-> n]
<1>6. DOMAIN new = {"status", "dr", "cr", "writes"} /\ new.status = status
  OBVIOUS
<1> HIDE DEF status, new
<1>7. rows' = [rows EXCEPT ![v] = new]
  BY <1>5 DEF new
<1> QED
  BY <1>1, <1>3, <1>4, <1>6, <1>7, Commits

\* A deleted voucher takes its lines with it.
LEMMA Removed ==
    ASSUME VouchersApart, DeskInv, NEW c \in Clerks, RemoveCommit(c)
    PROVE  Kept
<1> DEFINE v   == reqs[c].v
           new == [rows[v] EXCEPT !.status = "deleted"]
<1>1. reqs[c] # Idle /\ Finish(c) /\ lines' = [lines EXCEPT ![v] = {}]
  BY DEF RemoveCommit, Serving
<1>2. v \in Ids
  BY <1>1 DEF DeskInv, Served, Reading
<1>3. DOMAIN new = {"status", "dr", "cr", "writes"} /\ new.status = "deleted"
  BY <1>2 DEF DeskInv, Shape
<1>4. rows' = [rows EXCEPT ![v] = new]
  BY DEF RemoveCommit
<1> HIDE DEF new
<1>5. rows[v].status \in {"posted", "pending"} => new.status # rows[v].status
  BY <1>3
<1> QED
  BY <1>1, <1>3, <1>4, <1>5, Commits

\* An edit has deleted the lines it read; they are still shown until it commits.
LEMMA Emptied ==
    ASSUME DeskInv, NEW c \in Clerks, UpdateEmpty(c)
    PROVE  Kept
<1>1. /\ UNCHANGED <<rows, lines>>
      /\ reqs[c] # Idle
      /\ reqs' = [reqs EXCEPT ![c] = [reqs[c] EXCEPT !.stage = "emptied", !.seen = lines[reqs[c].v]]]
  BY DEF UpdateEmpty, Serving
<1>2. Reading(c)
  BY <1>1 DEF DeskInv, Served
<1>3. Shape'
  BY <1>1 DEF DeskInv, Shape
<1>4. /\ reqs'[c].v = reqs[c].v /\ reqs'[c].row = reqs[c].row /\ reqs'[c].op = reqs[c].op
      /\ \A d \in Clerks \ {c} : reqs'[d] = reqs[d]
  BY <1>1, <1>2 DEF DeskInv, Shape, Reading
<1>5. Served'
  BY <1>1, <1>2, <1>4 DEF DeskInv, Served, Reading, Found, Exists
<1> QED
  BY <1>1, <1>3, <1>5 DEF DeskInv, PostedBalanced, Kept, Binding

\* Every step of the desk.
LEMMA Steps == VouchersApart /\ DeskInv /\ [Next]_vars => Kept
<1> SUFFICES ASSUME VouchersApart, DeskInv, [Next]_vars PROVE Kept
  OBVIOUS
<1>1. CASE UNCHANGED vars \/ SetLock
  BY <1>1, Still DEF vars, SetLock
<1>2. ASSUME NEW v \in Ids, NEW form \in Forms, Create(v, form) PROVE Kept
  BY <1>2, Created
<1>3. ASSUME NEW c \in Clerks, NEW v \in Ids,
             PostRead(c, v) \/ UnpostRead(c, v) \/ SubmitRead(c, v) \/ RejectRead(c, v)
               \/ CancelRead(c, v) \/ RemoveRead(c, v) \/ \E form \in Forms : UpdateRead(c, v, form)
      PROVE  Kept
  <2>1. CASE PostRead(c, v)
    BY <2>1, Reads DEF PostRead, Postable, Found
  <2>2. CASE UnpostRead(c, v)
    BY <2>2, Reads DEF UnpostRead, Found
  <2>3. CASE SubmitRead(c, v)
    BY <2>3, Reads DEF SubmitRead, Found
  <2>4. CASE RejectRead(c, v)
    BY <2>4, Reads DEF RejectRead, Found
  <2>5. CASE CancelRead(c, v)
    BY <2>5, Reads DEF CancelRead, Found
  <2>6. CASE RemoveRead(c, v)
    BY <2>6, Reads DEF RemoveRead, Found
  <2>7. CASE \E form \in Forms : UpdateRead(c, v, form)
    BY <2>7, Reads DEF UpdateRead, Found
  <2> QED
    BY <1>3, <2>1, <2>2, <2>3, <2>4, <2>5, <2>6, <2>7
<1>4. ASSUME NEW c \in Clerks,
             PostCommit(c) \/ UnpostCommit(c) \/ SubmitCommit(c) \/ RejectCommit(c) \/ CancelCommit(c)
      PROVE  Kept
  BY <1>4, Statuses DEF PostCommit, UnpostCommit, SubmitCommit, RejectCommit, CancelCommit
<1>5. ASSUME NEW c \in Clerks, RemoveCommit(c) \/ UpdateEmpty(c) \/ UpdateCommit(c) \/ Fail(c)
      PROVE  Kept
  BY <1>5, Removed, Emptied, Edited, Ended DEF Fail
<1> QED
  BY <1>1, <1>2, <1>3, <1>4, <1>5 DEF Next

-------------------------------------------------------------------------------
\* The invariant holds while requests that overlap are about different vouchers.
LEMMA DeskAlways == Spec /\ []VouchersApart => []DeskInv
<1>1. DeskInv /\ VouchersApart /\ [Next]_vars => DeskInv'
  BY Steps DEF Kept
<1> QED
  BY <1>1, DeskInitially, PTL DEF Spec

\* Whatever is posted balances, for any forms, fractions included, while requests that
\* overlap are about different vouchers.
THEOREM OnlyBalancedIsPosted == Spec /\ []VouchersApart => []PostedBalanced
<1>1. DeskInv => PostedBalanced
  BY DEF DeskInv
<1> QED
  BY <1>1, DeskAlways, PTL

\* A posted or submitted voucher keeps its lines as long as it keeps its status, and a
\* cancelled one is not revived, while requests that overlap are about different vouchers.
THEOREM StatusesBind == Spec /\ []VouchersApart => StatusIsBinding
<1>1. DeskInv /\ VouchersApart /\ [Next]_vars => [\A v \in Ids : Binding(v)]_vars
  BY Steps DEF Kept
<1>2. [\A v \in Ids : Binding(v)]_vars =>
        [\A v \in Ids :
          /\ rows[v].status \in {"posted", "pending"} /\ rows'[v].status = rows[v].status
                => lines'[v] = lines[v]
          /\ rows[v].status = "cancelled" => rows'[v].status \in {"cancelled", "deleted"}]_vars
  BY DEF Binding
<1> QED
  BY <1>1, <1>2, DeskAlways, PTL DEF Spec, StatusIsBinding

-------------------------------------------------------------------------------
(* The chart of accounts.                                                   *)

\* A finite set of integers has a greatest element.
LEMMA MaxIsGreatest ==
    ASSUME NEW S \in SUBSET Int, S # {}, IsFiniteSet(S)
    PROVE  Max(S) \in S /\ \A x \in S : x <= Max(S)
<1> DEFINE G == {T \in SUBSET S : T = {} \/ \E m \in T : \A x \in T : x <= m}
<1>1. {} \in G
  OBVIOUS
<1>2. ASSUME NEW T \in SUBSET S, T # {}, \A x \in T : T \ {x} \in G PROVE T \in G
  <2>1. PICK y \in T : TRUE
    BY <1>2
  <2>2. CASE T \ {y} = {}
    BY <2>1, <2>2
  <2>3. CASE T \ {y} # {}
    <3>1. PICK m \in T \ {y} : \A x \in T \ {y} : x <= m
      BY <1>2, <2>1, <2>3
    <3>2. CASE y <= m
      BY <3>1, <3>2
    <3>3. CASE ~(y <= m)
      <4>1. \A x \in T : x <= y
        BY <3>1, <3>3
      <4> QED
        BY <2>1, <4>1
    <3> QED
      BY <3>2, <3>3
  <2> QED
    BY <2>2, <2>3
<1>3. S \in G
  <2> HIDE DEF G
  <2> QED
    BY <1>1, <1>2, SubsetInduction
<1>4. PICK m \in S : \A x \in S : x <= m
  BY <1>3
<1> QED
  BY <1>4 DEF Max

\* A row, a request in progress, an opening voucher.
CreateJob == [stage : {"create"}, account : Accounts, sub : Subs, opening : Int, floor : Nat]
SaveJob   == [stage : {"move", "write"}, account : Accounts, sub : Subs, opening : Int,
              status : {"active", "inactive"}, serial : Nat, floor : Nat]
OtherJob  ==
    [stage : {"saved", "delete"}, account : Accounts]
      \cup [stage : {"resolved"}, account : Accounts, amount : Int, against : Accounts \cup {None}]
      \cup [stage : {"deleteAccounts"}, sub : Subs, accounts : SUBSET Accounts]
      \cup [stage : {"deleteSub"}, sub : Subs]
Job == {Free} \cup CreateJob \cup SaveJob \cup OtherJob

IsOpening(v) ==
    /\ v = [no |-> v.no, account |-> v.account, against |-> v.against, amount |-> v.amount,
            posted |-> v.posted]
    /\ v.account \in Accounts /\ v.against \in Accounts

ChartRows ==
    /\ accounts \in [Accounts -> AccountRow]
    /\ counters \in [Subs -> Nat]
    /\ \A v \in openings : IsOpening(v)
    /\ journals \in Seq(Postings)
    /\ told = [a \in Accounts |-> told[a]]
    /\ jobs \in [Procs -> Job]

\* The account has, or had, a code; codes of deleted accounts are not given again.
Coded(a) == accounts[a].status # "absent"
Code(a)  == <<accounts[a].sub, accounts[a].serial>>

\* The counter of a sub head is never behind its codes, and no two accounts share one.
CodesCounted ==
    \A a \in Accounts : Coded(a) => /\ accounts[a].sub \in Subs
                                    /\ accounts[a].serial \in 1..counters[accounts[a].sub]
CodesApart ==
    \A a, b \in Accounts : Coded(a) /\ Coded(b) /\ a # b => Code(a) # Code(b)

\* The code that an edit is going to write belongs to its account: no other account
\* holds it, and no edit of another account is going to.
Reserves(r) ==
    /\ Coded(r.account)
    /\ r.serial \in 1..counters[r.sub]
    /\ \A b \in Accounts \ {r.account} : Coded(b) => Code(b) # <<r.sub, r.serial>>
CodesReserved ==
    /\ \A p \in Procs : jobs[p].stage \in {"create", "move"} => jobs[p].floor <= counters[jobs[p].sub]
    /\ \A p \in Procs : jobs[p].stage = "move" => Coded(jobs[p].account)
    /\ \A p \in Procs : jobs[p].stage = "write" => Reserves(jobs[p])
    /\ \A p, q \in Procs :
          /\ jobs[p].stage = "write" /\ jobs[q].stage = "write"
          /\ jobs[p].account # jobs[q].account
          => <<jobs[p].sub, jobs[p].serial>> # <<jobs[q].sub, jobs[q].serial>>

CodesInv == ChartRows /\ CodesCounted /\ CodesApart /\ CodesReserved

-------------------------------------------------------------------------------
(* Codes.                                                                   *)

\* The floor that a new code starts from is not ahead of the counter.
LEMMA FloorIsBehind ==
    ASSUME ChartRows, CodesCounted, CodesApart, NEW s \in Subs
    PROVE  /\ IsFiniteSet(Filed(s)) /\ Cardinality(Filed(s)) \in Nat
           /\ Cardinality(Filed(s)) <= counters[s]
           /\ FloorInUse(s) \in Nat /\ FloorInUse(s) <= counters[s]
<1>1. PICK F : F = Filed(s)
  OBVIOUS
<1>2. PICK c : c = counters[s]
  OBVIOUS
<1>3. c \in Nat
  BY <1>2 DEF ChartRows
<1>4. F \subseteq Accounts /\ \A a \in F : accounts[a].sub = s /\ accounts[a].serial \in 1..c
  BY <1>1, <1>2 DEF Filed, Live, CodesCounted, Coded
<1>5. IsFiniteSet(F) /\ Cardinality(F) \in Nat
  BY <1>4, ChartAssumption, FS_Subset, FS_CardinalityType
<1>6. PICK f : f = [a \in F |-> accounts[a].serial]
  OBVIOUS
<1>7. f \in Injection(F, 1..c)
  <2>1. f \in [F -> 1..c]
    BY <1>4, <1>6
  <2>2. ASSUME NEW a \in F, NEW b \in F, f[a] = f[b] PROVE a = b
    BY <1>1, <1>4, <1>6, <2>2 DEF CodesApart, Coded, Code, Filed, Live
  <2> QED
    BY <2>1, <2>2 DEF Injection, IsInjective
<1>8. IsFiniteSet(1..c) /\ Cardinality(1..c) = c
  BY <1>3, FS_Interval
<1>9. Cardinality(F) <= c
  BY <1>7, <1>8, FS_Injection
<1>10. PICK M : M = Serials(s) \cup {0, Cardinality(F)}
  OBVIOUS
<1>11. M \subseteq 0..c /\ M # {}
  BY <1>1, <1>3, <1>4, <1>5, <1>9, <1>10 DEF Serials
<1>12. IsFiniteSet(M)
  <2>1. IsFiniteSet(0..c)
    BY <1>3, FS_Interval
  <2> QED
    BY <1>11, <2>1, FS_Subset
<1>13. Max(M) \in M
  <2>1. M \in SUBSET Int
    BY <1>11
  <2> QED
    BY <1>11, <1>12, <2>1, MaxIsGreatest
<1>14. FloorInUse(s) = Max(M)
  BY <1>1, <1>10 DEF FloorInUse
<1>15. FloorInUse(s) \in 0..c
  BY <1>11, <1>13, <1>14
<1>16. FloorInUse(s) \in Nat /\ FloorInUse(s) <= c
  BY <1>3, <1>15
<1> QED
  BY <1>1, <1>2, <1>5, <1>9, <1>16

LEMMA MaxOfTwo ==
    ASSUME NEW a \in Int, NEW b \in Int
    PROVE  Max({a, b}) = IF a >= b THEN a ELSE b
BY DEF Max

LEMMA MinIsOne ==
    ASSUME NEW S \in SUBSET Nat, 1 \in S, 0 \notin S
    PROVE  Min(S) = 1
<1>1. \A y \in S : 1 <= y
  OBVIOUS
<1>2. \A x \in S : (\A y \in S : x <= y) => x = 1
  BY <1>1
<1> QED
  BY <1>1, <1>2 DEF Min

\* A code is drawn one after the other: the first try is free.
LEMMA DrawnIsNext ==
    ASSUME ChartRows, CodesCounted, NEW s \in Subs, NEW floor \in Nat, floor <= counters[s]
    PROVE  Drawn(s, floor) = [counter |-> counters[s] + 1, serial |-> counters[s] + 1]
<1>1. PICK c : c = counters[s]
  OBVIOUS
<1>2. c \in Nat /\ floor <= c
  BY <1>1 DEF ChartRows
<1>3. Seeded(s, floor) = c
  BY <1>1, <1>2, MaxOfTwo DEF Seeded
<1>4. \A n \in Serials(s) : n \in Nat /\ n <= c
  BY <1>1 DEF Serials, Filed, Live, CodesCounted, Coded
<1>5. PICK serial : serial = [k \in Nat |-> Max({c + k, floor + 1})]
  OBVIOUS
<1>6. serial[1] = c + 1
  BY <1>2, <1>5, MaxOfTwo
<1>7. PICK K : K = {k \in 1..MaxSerial + 1 : serial[k] \notin Serials(s)}
  OBVIOUS
<1>8. 1 \in K /\ 0 \notin K /\ K \in SUBSET Nat
  BY <1>2, <1>4, <1>6, <1>7, ChartAssumption
<1>9. Min(K) = 1
  BY <1>8, MinIsOne
<1>10. K = {k \in 1..MaxSerial + 1 : Max({c + k, floor + 1}) \notin Serials(s)}
  BY <1>5, <1>7, ChartAssumption
<1>11. Max({c + 1, floor + 1}) = c + 1
  BY <1>5, <1>6
<1>12. Drawn(s, floor) = [counter |-> c + Min(K), serial |-> Max({c + Min(K), floor + 1})]
  BY <1>3, <1>10 DEF Drawn
<1> QED
  BY <1>1, <1>9, <1>11, <1>12

\* The ranks of the accounts of a sub head are the numbers from one up, each once.
LEMMA RanksAreApart ==
    ASSUME NEW F, IsFiniteSet(F), NEW f \in [F -> Nat], \A a, b \in F : f[a] = f[b] => a = b,
           NEW rank, rank = [a \in F |-> Cardinality({b \in F : f[b] <= f[a]})]
    PROVE  /\ \A a \in F : rank[a] \in 1..Cardinality(F)
           /\ \A a, b \in F : rank[a] = rank[b] => a = b
<1> DEFINE below(a) == {b \in F : f[b] <= f[a]}
<1>1. ASSUME NEW a \in F
      PROVE  /\ IsFiniteSet(below(a)) /\ a \in below(a)
             /\ Cardinality(below(a)) \in Nat /\ Cardinality(below(a)) <= Cardinality(F)
             /\ Cardinality(below(a)) # 0
  <2>1. below(a) \in SUBSET F /\ a \in below(a)
    OBVIOUS
  <2>2. IsFiniteSet(below(a)) /\ Cardinality(below(a)) <= Cardinality(F)
    BY <2>1, FS_Subset
  <2>3. Cardinality(below(a)) \in Nat /\ Cardinality(below(a)) # 0
    <3> HIDE DEF below
    <3> QED
      BY <2>1, <2>2, FS_CardinalityType, FS_EmptySet
  <2> QED
    BY <2>1, <2>2, <2>3
<1>2. Cardinality(F) \in Nat
  BY FS_CardinalityType
<1>3. \A a \in F : rank[a] = Cardinality(below(a))
  OBVIOUS
<1>4. ASSUME NEW a \in F PROVE rank[a] \in 1..Cardinality(F)
  <2> HIDE DEF below
  <2> QED
    BY <1>1, <1>2, <1>3
<1>5. ASSUME NEW a \in F, NEW b \in F, f[a] < f[b] PROVE rank[a] # rank[b]
  <2>1. below(a) \in SUBSET below(b)
    BY <1>5
  <2>2. below(a) # below(b)
    BY <1>5
  <2>3. IsFiniteSet(below(b))
    BY <1>1
  <2>4. Cardinality(below(a)) # Cardinality(below(b))
    <3> HIDE DEF below
    <3> QED
      BY <2>1, <2>2, <2>3, FS_Subset
  <2> QED
    BY <1>3, <2>4
<1>6. ASSUME NEW a \in F, NEW b \in F, rank[a] = rank[b] PROVE a = b
  <2>1. f[a] = f[b] \/ f[a] < f[b] \/ f[b] < f[a]
    OBVIOUS
  <2> QED
    BY <1>5, <1>6, <2>1
<1> QED
  BY <1>4, <1>6

-------------------------------------------------------------------------------
(* Steps.                                                                   *)

\* What a request in progress says, by its stage.
LEMMA JobShape ==
    ASSUME NEW r \in Job
    PROVE  /\ r.stage = "create" => r \in CreateJob
           /\ r.stage \in {"move", "write"} => r \in SaveJob
           /\ r.stage \in {"saved", "delete"} => r.account \in Accounts
           /\ r.stage = "resolved" => /\ r.account \in Accounts /\ r.amount \in Int
                                      /\ r.against \in Accounts \cup {None}
           /\ r.stage = "deleteAccounts" => r.sub \in Subs /\ r.accounts \subseteq Accounts
           /\ r.stage = "deleteSub" => r.sub \in Subs
           /\ r.stage = "idle" => r = Free
BY DEF Job, CreateJob, SaveJob, OtherJob, Free

\* What a step of a request may do to its own entry in the table of requests.
LEMMA GoesOn ==
    ASSUME ChartRows, NEW p \in Procs, NEW r \in Job, Goes(p, r)
    PROVE  /\ jobs' \in [Procs -> Job]
           /\ jobs'[p] = r
           /\ \A q \in Procs \ {p} : jobs'[q] = jobs[q]
BY DEF ChartRows, Goes

\* A step that leaves the codes and counters alone, and whose request does not get
\* a floor or a code.
LEMMA CodesStay ==
    ASSUME CodesInv, ChartRows', UNCHANGED counters,
           \A a \in Accounts : Code(a)' = Code(a) /\ (Coded(a)' <=> Coded(a)),
           \A p \in Procs : jobs'[p] = jobs[p] \/ jobs'[p].stage \notin {"create", "move", "write"}
    PROVE  CodesInv'
<1>0. \A a \in Accounts : accounts'[a].sub = accounts[a].sub /\ accounts'[a].serial = accounts[a].serial
  BY DEF Code
<1>1. CodesCounted'
  BY <1>0 DEF CodesInv, CodesCounted
<1>2. CodesApart'
  BY DEF CodesInv, CodesApart
<1>3. \A p \in Procs : jobs'[p].stage \in {"create", "move", "write"} => jobs'[p] = jobs[p]
  OBVIOUS
<1>4. \A p \in Procs : jobs[p].stage \in {"move", "write"} => jobs[p].account \in Accounts
  BY JobShape DEF CodesInv, ChartRows, SaveJob
<1>5. ASSUME NEW p \in Procs, jobs'[p].stage = "move" PROVE Coded(jobs[p].account)'
  <2>1. PICK r : r = jobs[p]
    OBVIOUS
  <2>2. jobs'[p] = r /\ r.account \in Accounts /\ Coded(r.account)
    BY <1>3, <1>4, <1>5, <2>1 DEF CodesInv, CodesReserved
  <2> QED
    BY <2>2 DEF Coded
<1>6. ASSUME NEW p \in Procs, jobs'[p].stage = "write" PROVE Reserves(jobs[p])'
  <2>1. PICK r : r = jobs[p]
    OBVIOUS
  <2>2. jobs'[p] = r /\ r.account \in Accounts /\ Reserves(r)
    BY <1>3, <1>4, <1>6, <2>1 DEF CodesInv, CodesReserved
  <2>3. Coded(r.account)' /\ r.serial \in 1..counters'[r.sub]
    BY <2>2 DEF Reserves
  <2>4. \A b \in Accounts \ {r.account} : Coded(b)' => Code(b)' # <<r.sub, r.serial>>
    BY <2>2 DEF Reserves
  <2> QED
    BY <2>2, <2>3, <2>4 DEF Reserves, Coded
<1>7. \A p \in Procs : jobs'[p].stage \in {"create", "move"}
                          => jobs'[p].floor <= counters'[jobs'[p].sub]
  BY <1>3 DEF CodesInv, CodesReserved
<1>8. \A p, q \in Procs :
        /\ jobs'[p].stage = "write" /\ jobs'[q].stage = "write"
        /\ jobs'[p].account # jobs'[q].account
        => <<jobs'[p].sub, jobs'[p].serial>> # <<jobs'[q].sub, jobs'[q].serial>>
  BY <1>3 DEF CodesInv, CodesReserved
<1> QED
  BY <1>1, <1>2, <1>5, <1>6, <1>7, <1>8 DEF CodesInv, CodesReserved

-------------------------------------------------------------------------------
(* The rows keep their shape.                                               *)

LEMMA RowsAfter ==
    ASSUME ChartRows, NEW p \in Procs, NEW r \in Job, Goes(p, r),
           accounts' \in [Accounts -> AccountRow], counters' \in [Subs -> Nat],
           \A v \in openings' : IsOpening(v),
           UNCHANGED journals, told' = [a \in Accounts |-> told'[a]]
    PROVE  ChartRows'
BY GoesOn DEF ChartRows, IsOpening

\* ... in a step that leaves the tables alone but for the code that is drawn.
LEMMA RowsRead ==
    ASSUME ChartRows, NEW p \in Procs, NEW r \in Job, Goes(p, r),
           counters' \in [Subs -> Nat], UNCHANGED <<accounts, openings, journals, told>>
    PROVE  ChartRows'
<1>1. \A v \in openings' : IsOpening(v)
  BY DEF ChartRows
<1>2. told' = [a \in Accounts |-> told'[a]] /\ accounts' \in [Accounts -> AccountRow]
  BY DEF ChartRows
<1> QED
  BY <1>1, <1>2, RowsAfter

LEMMA RowsWhenRead ==
    ASSUME CodesInv, NEW p \in Procs,
           \/ \E f \in AccountForms : CreateRead(p, f) \/ EditRead(p, f)
           \/ \E a \in Accounts : DeleteRead(p, a)
           \/ \E s \in Subs : DeleteSubRead(p, s)
           \/ SyncRead(p) \/ SaveFails(p)
    PROVE  ChartRows'
<1> USE DEF CodesInv, ChartRows
<1>1. ASSUME NEW f \in AccountForms, CreateRead(p, f) PROVE ChartRows'
  <2>1. PICK r : r = [stage |-> "create", account |-> f.account, sub |-> f.sub,
                      opening |-> f.opening, floor |-> FloorInUse(f.sub)]
    OBVIOUS
  <2>2. f.account \in Accounts /\ f.sub \in Subs /\ f.opening \in Int
    BY ChartAssumption
  <2>3. FloorInUse(f.sub) \in Nat
    BY <2>2, FloorIsBehind
  <2>4. r \in Job
    BY <2>1, <2>2, <2>3 DEF Job, CreateJob
  <2>5. Goes(p, r) /\ UNCHANGED <<counters, accounts, openings, journals, told>>
    BY <1>1, <2>1 DEF CreateRead, tables
  <2> QED
    BY <2>4, <2>5, RowsRead
<1>2. ASSUME NEW f \in AccountForms, EditRead(p, f) PROVE ChartRows'
  <2>1. PICK stage, floor :
          /\ stage \in {"move", "write"} /\ floor \in {0, FloorInUse(f.sub)}
          /\ Goes(p, [stage |-> stage, account |-> f.account, sub |-> f.sub,
                      opening |-> f.opening, status |-> f.status,
                      serial |-> accounts[f.account].serial, floor |-> floor])
    BY <1>2 DEF EditRead
  <2>2. /\ f.account \in Accounts /\ f.sub \in Subs /\ f.opening \in Int
        /\ f.status \in {"active", "inactive"}
    BY ChartAssumption
  <2>3. FloorInUse(f.sub) \in Nat
    BY <2>2, FloorIsBehind
  <2>4. accounts[f.account].serial \in Nat
    BY <2>2 DEF AccountRow
  <2>5. [stage |-> stage, account |-> f.account, sub |-> f.sub,
         opening |-> f.opening, status |-> f.status,
         serial |-> accounts[f.account].serial, floor |-> floor] \in Job
    BY <2>1, <2>2, <2>3, <2>4 DEF Job, SaveJob
  <2>6. UNCHANGED <<counters, accounts, openings, journals, told>>
    BY <1>2 DEF EditRead, tables
  <2> QED
    BY <2>1, <2>5, <2>6, RowsRead
<1>3. ASSUME NEW a \in Accounts, DeleteRead(p, a) PROVE ChartRows'
  <2>1. [stage |-> "delete", account |-> a] \in Job
    BY DEF Job, OtherJob
  <2> QED
    BY <1>3, <2>1, RowsRead DEF DeleteRead, tables
<1>4. ASSUME NEW s \in Subs, DeleteSubRead(p, s) PROVE ChartRows'
  <2>1. [stage |-> "deleteAccounts", sub |-> s, accounts |-> Filed(s)] \in Job
    BY DEF Job, OtherJob, Filed
  <2> QED
    BY <1>4, <2>1, RowsRead DEF DeleteSubRead, tables
<1>5. CASE SyncRead(p)
  <2>1. jobs[p].account \in Accounts
    BY <1>5, JobShape DEF SyncRead, At
  <2>2. PICK e \in Resolved(jobs[p].account) :
          Goes(p, [stage |-> "resolved", account |-> jobs[p].account,
                   amount |-> accounts[jobs[p].account].opening, against |-> e])
    BY <1>5 DEF SyncRead
  <2>3. e \in Accounts \cup {None}
    BY <2>2 DEF Resolved, Usable
  <2>4. accounts[jobs[p].account].opening \in Int
    BY <2>1 DEF AccountRow
  <2>5. [stage |-> "resolved", account |-> jobs[p].account,
         amount |-> accounts[jobs[p].account].opening, against |-> e] \in Job
    BY <2>1, <2>3, <2>4 DEF Job, OtherJob
  <2>6. UNCHANGED <<counters, accounts, openings, journals, told>>
    BY <1>5 DEF SyncRead
  <2> QED
    BY <2>2, <2>5, <2>6, RowsRead
<1>6. CASE SaveFails(p)
  <2>1. Free \in Job
    BY DEF Job
  <2> QED
    BY <1>6, <2>1, RowsRead DEF SaveFails, Done, tables
<1> QED
  BY <1>1, <1>2, <1>3, <1>4, <1>5, <1>6

\* The row that a save writes.
LEMMA RowsSaved ==
    ASSUME ChartRows, NEW p \in Procs, NEW a \in Accounts, NEW opening, Saved(p, a, opening),
           accounts' \in [Accounts -> AccountRow], counters' \in [Subs -> Nat],
           UNCHANGED <<openings, journals>>
    PROVE  ChartRows'
<1>1. told' = [b \in Accounts |-> told'[b]]
  BY DEF Saved, ChartRows
<1>2. \A v \in openings' : IsOpening(v)
  BY DEF ChartRows
<1>3. PICK r \in Job : Goes(p, r)
  <2>1. Free \in Job /\ [stage |-> "saved", account |-> a] \in Job
    BY DEF Job, OtherJob
  <2> QED
    BY <2>1 DEF Saved, Done
<1> QED
  BY <1>1, <1>2, <1>3, RowsAfter

LEMMA RowsWhenSaved ==
    ASSUME CodesInv, NEW p \in Procs, CreateCommit(p) \/ UpdateDraw(p) \/ UpdateWrite(p)
    PROVE  ChartRows'
<1>1. PICK r : r = jobs[p]
  OBVIOUS
<1>2. r \in Job /\ ChartRows
  BY <1>1 DEF CodesInv, ChartRows
<1>3. CASE CreateCommit(p)
  <2>1. r \in CreateJob
    BY <1>1, <1>2, <1>3, JobShape DEF CreateCommit, At
  <2>2. r.account \in Accounts /\ r.sub \in Subs /\ r.opening \in Int /\ r.floor \in Nat
    BY <2>1 DEF CreateJob
  <2>3. r.floor <= counters[r.sub]
    BY <1>1, <1>3 DEF CodesInv, CodesReserved, CreateCommit, At
  <2>4. PICK c : c = counters[r.sub] + 1
    OBVIOUS
  <2>5. c \in Nat
    BY <1>2, <2>2, <2>4 DEF ChartRows
  <2>6. Drawn(r.sub, r.floor) = [counter |-> c, serial |-> c]
    BY <2>2, <2>3, <2>4, DrawnIsNext DEF CodesInv
  <2>7. /\ counters' = [counters EXCEPT ![r.sub] = c]
        /\ accounts' = [accounts EXCEPT ![r.account] =
                          [status |-> "active", sub |-> r.sub, serial |-> c, opening |-> r.opening]]
        /\ Saved(p, r.account, r.opening)
        /\ UNCHANGED <<openings, journals>>
    BY <1>1, <1>3, <2>6 DEF CreateCommit
  <2>8. [status |-> "active", sub |-> r.sub, serial |-> c, opening |-> r.opening] \in AccountRow
    BY <2>2, <2>5 DEF AccountRow
  <2>9. accounts' \in [Accounts -> AccountRow] /\ counters' \in [Subs -> Nat]
    BY <1>2, <2>5, <2>7, <2>8 DEF ChartRows
  <2> QED
    BY <1>2, <2>2, <2>7, <2>9, RowsSaved
<1>4. CASE UpdateDraw(p)
  <2>1. r \in SaveJob
    BY <1>1, <1>2, <1>4, JobShape DEF UpdateDraw, At
  <2>2. r.sub \in Subs /\ r.floor \in Nat
    BY <2>1 DEF SaveJob
  <2>3. r.floor <= counters[r.sub]
    BY <1>1, <1>4 DEF CodesInv, CodesReserved, UpdateDraw, At
  <2>4. PICK c : c = counters[r.sub] + 1
    OBVIOUS
  <2>5. c \in Nat
    BY <1>2, <2>2, <2>4 DEF ChartRows
  <2>6. Drawn(r.sub, r.floor) = [counter |-> c, serial |-> c]
    BY <2>2, <2>3, <2>4, DrawnIsNext DEF CodesInv
  <2>7. /\ counters' = [counters EXCEPT ![r.sub] = c]
        /\ Goes(p, [r EXCEPT !.stage = "write", !.serial = c, !.floor = 0])
        /\ UNCHANGED <<accounts, openings, journals, told>>
    BY <1>1, <1>4, <2>6 DEF UpdateDraw
  <2>8. [r EXCEPT !.stage = "write", !.serial = c, !.floor = 0] \in SaveJob
    BY <2>1, <2>5 DEF SaveJob
  <2>9. counters' \in [Subs -> Nat]
    BY <1>2, <2>5, <2>7 DEF ChartRows
  <2> QED
    BY <1>2, <2>7, <2>8, <2>9, RowsRead DEF Job
<1>5. CASE UpdateWrite(p)
  <2>1. r \in SaveJob
    BY <1>1, <1>2, <1>5, JobShape DEF UpdateWrite, At
  <2>2. /\ r.account \in Accounts /\ r.sub \in Subs /\ r.opening \in Int /\ r.serial \in Nat
        /\ r.status \in {"active", "inactive"}
    BY <2>1 DEF SaveJob
  <2>3. /\ accounts' = [accounts EXCEPT ![r.account] =
                          [status |-> r.status, sub |-> r.sub, serial |-> r.serial,
                           opening |-> r.opening]]
        /\ Saved(p, r.account, r.opening)
        /\ UNCHANGED <<counters, openings, journals>>
    BY <1>1, <1>5 DEF UpdateWrite
  <2>4. [status |-> r.status, sub |-> r.sub, serial |-> r.serial, opening |-> r.opening]
          \in AccountRow
    BY <2>2 DEF AccountRow
  <2>5. accounts' \in [Accounts -> AccountRow] /\ counters' \in [Subs -> Nat]
    BY <1>2, <2>3, <2>4 DEF ChartRows
  <2> QED
    BY <1>2, <2>2, <2>3, <2>5, RowsSaved
<1> QED
  BY <1>3, <1>4, <1>5

\* What a deletion does to the accounts: codes and counters stay.
LEMMA RowsDeleted ==
    ASSUME ChartRows, NEW set, Deleted(set), \A a \in set : Live(a)
    PROVE  /\ accounts' \in [Accounts -> AccountRow]
           /\ \A a \in Accounts : Code(a)' = Code(a) /\ (Coded(a)' <=> Coded(a))
           /\ \A a \in Accounts : Live(a)' <=> (Live(a) /\ a \notin set)
           /\ \A a \in Accounts : accounts'[a].opening = accounts[a].opening
<1>1. ASSUME NEW a \in Accounts
      PROVE  /\ accounts'[a] \in AccountRow
             /\ accounts'[a].sub = accounts[a].sub /\ accounts'[a].serial = accounts[a].serial
             /\ accounts'[a].opening = accounts[a].opening
             /\ accounts'[a].status = IF a \in set THEN "deleted" ELSE accounts[a].status
  BY DEF Deleted, ChartRows, AccountRow
<1>2. accounts' = [a \in Accounts |-> accounts'[a]]
  BY DEF Deleted
<1> QED
  BY <1>1, <1>2 DEF Code, Coded, Live

LEMMA RowsWhenDeleted ==
    ASSUME CodesInv, NEW p \in Procs, DeleteCommit(p) \/ DeleteSubAccounts(p) \/ DeleteSubRow(p)
    PROVE  ChartRows'
<1>0. ChartRows
  BY DEF CodesInv
<1>1. PICK r : r = jobs[p]
  OBVIOUS
<1>2. r \in Job
  BY <1>0, <1>1 DEF ChartRows
<1>3. CASE DeleteCommit(p)
  <2>1. accounts' \in [Accounts -> AccountRow]
    BY <1>0, <1>3, RowsDeleted DEF DeleteCommit, Deletable
  <2>2. Free \in Job
    BY DEF Job
  <2>3. Goes(p, Free) /\ UNCHANGED <<counters, openings, journals, told>>
    BY <1>3 DEF DeleteCommit, Done
  <2>4. /\ \A v \in openings' : IsOpening(v)
        /\ told' = [a \in Accounts |-> told'[a]] /\ counters' \in [Subs -> Nat]
    BY <1>0, <2>3 DEF ChartRows
  <2> QED
    BY <1>0, <2>1, <2>2, <2>3, <2>4, RowsAfter
<1>4. CASE DeleteSubAccounts(p)
  <2>1. accounts' \in [Accounts -> AccountRow]
    BY <1>0, <1>4, RowsDeleted DEF DeleteSubAccounts, Deletable
  <2>2. r.sub \in Subs
    BY <1>1, <1>2, <1>4, JobShape DEF DeleteSubAccounts, At
  <2>3. [stage |-> "deleteSub", sub |-> r.sub] \in Job
    BY <2>2 DEF Job, OtherJob
  <2>4. /\ Goes(p, [stage |-> "deleteSub", sub |-> r.sub])
        /\ UNCHANGED <<counters, openings, journals, told>>
    BY <1>1, <1>4 DEF DeleteSubAccounts
  <2>5. /\ \A v \in openings' : IsOpening(v)
        /\ told' = [a \in Accounts |-> told'[a]] /\ counters' \in [Subs -> Nat]
    BY <1>0, <2>4 DEF ChartRows
  <2> QED
    BY <1>0, <2>1, <2>3, <2>4, <2>5, RowsAfter
<1>5. CASE DeleteSubRow(p)
  <2>1. Free \in Job
    BY DEF Job
  <2>2. Goes(p, Free) /\ UNCHANGED <<accounts, counters, openings, journals, told>>
    BY <1>5 DEF DeleteSubRow, Done
  <2>3. counters' \in [Subs -> Nat]
    BY <1>0, <2>2 DEF ChartRows
  <2> QED
    BY <1>0, <2>1, <2>2, <2>3, RowsRead
<1> QED
  BY <1>3, <1>4, <1>5

\* What the transaction of an opening makes of the vouchers: those of other accounts
\* stay, and at most one is added, on two accounts of the chart.
SyncMakes(r, v) ==
    /\ v # None => v \in openings /\ v.account = r.account
    /\ LET books == r.amount # 0 /\ ~Unchanged(v, r.amount) /\ r.against # None
       IN  /\ books => Live(r.account) /\ Live(r.against)
           /\ \/ r.amount # 0 /\ Unchanged(v, r.amount) /\ openings' = openings
              \/ /\ ~(r.amount # 0 /\ Unchanged(v, r.amount))
                 /\ openings' = (IF v = None THEN openings ELSE TraceRemoved(v))
                                  \cup IF books THEN {Opened(r.account, r.against, r.amount)} ELSE {}
           /\ told' = [told EXCEPT ![r.account]
                         = books \/ r.amount = 0 \/ Unchanged(v, r.amount)]

LEMMA SyncSteps ==
    ASSUME NEW p \in Procs, SyncCommit(p), NEW r, r = jobs[p]
    PROVE  /\ \E v : SyncMakes(r, v)
           /\ r.stage = "resolved" /\ Goes(p, Free)
           /\ UNCHANGED <<accounts, subs, counters, journals, links, saves>>
<1>1. PICK found : found = {v \in openings : v.account = r.account}
  OBVIOUS
<1>2. PICK v \in IF found = {} THEN {None} ELSE found :
         LET books == r.amount # 0 /\ ~Unchanged(v, r.amount) /\ r.against # None
         IN  /\ books => Live(r.account) /\ Live(r.against) /\ FreeNumbers # {}
             /\ openings' = IF r.amount # 0 /\ Unchanged(v, r.amount) THEN openings
                            ELSE (IF v = None THEN openings ELSE TraceRemoved(v))
                                   \cup IF books THEN {Opened(r.account, r.against, r.amount)} ELSE {}
             /\ told' = [told EXCEPT ![r.account]
                            = books \/ r.amount = 0 \/ Unchanged(v, r.amount)]
  BY <1>1 DEF SyncCommit
<1>3. v # None => v \in openings /\ v.account = r.account
  BY <1>1, <1>2
<1>4. SyncMakes(r, v)
  BY <1>2, <1>3, Zenon DEF SyncMakes
<1>5. r.stage = "resolved" /\ Goes(p, Free)
  BY DEF SyncCommit, At, Done
<1>6. UNCHANGED <<accounts, subs, counters, journals, links, saves>>
  BY DEF SyncCommit
<1> QED
  BY <1>4, <1>5, <1>6

LEMMA CancelledShape ==
    ASSUME NEW v, IsOpening(v), NEW w, w = [v EXCEPT !.posted = FALSE]
    PROVE  IsOpening(w) /\ w.account = v.account /\ w.against = v.against /\ ~w.posted
<1>1. PICK n, a, e, amount, posted :
         v = [no |-> n, account |-> a, against |-> e, amount |-> amount, posted |-> posted]
  BY DEF IsOpening
<1>2. a \in Accounts /\ e \in Accounts
  BY <1>1 DEF IsOpening
<1>3. w = [no |-> n, account |-> a, against |-> e, amount |-> amount, posted |-> FALSE]
  BY <1>1
<1> QED
  BY <1>1, <1>2, <1>3 DEF IsOpening

LEMMA RowsWhenSynced ==
    ASSUME ChartRows, NEW p \in Procs, SyncCommit(p)
    PROVE  ChartRows'
<1>1. PICK r : r = jobs[p]
  OBVIOUS
<1>2. r \in Job
  BY <1>1 DEF ChartRows
<1>3. r.stage = "resolved" /\ Goes(p, Free) /\ UNCHANGED <<accounts, counters, journals>>
  BY <1>1, SyncSteps
<1>4. PICK v : SyncMakes(r, v)
  BY <1>1, SyncSteps
<1>5. r.account \in Accounts /\ r.against \in Accounts \cup {None}
  BY <1>2, <1>3, JobShape
<1>6. told' = [a \in Accounts |-> told'[a]]
  BY <1>4 DEF SyncMakes, ChartRows
<1>7. ASSUME NEW w \in openings' PROVE IsOpening(w)
  <2>1. CASE w \in openings
    BY <2>1 DEF ChartRows
  <2>2. CASE v \in openings /\ w = [v EXCEPT !.posted = FALSE]
    <3>1. IsOpening(v)
      BY <2>2 DEF ChartRows
    <3> QED
      BY <2>2, <3>1, CancelledShape
  <2>3. CASE r.against # None /\ w = Opened(r.account, r.against, r.amount)
    <3>1. PICK n, a, e, amount : /\ n = Min(FreeNumbers) /\ a = r.account /\ e = r.against
                                 /\ amount = r.amount
      OBVIOUS
    <3>2. w = [no |-> n, account |-> a, against |-> e, amount |-> amount, posted |-> TRUE]
      BY <2>3, <3>1 DEF Opened
    <3>3. a \in Accounts /\ e \in Accounts
      BY <1>5, <2>3, <3>1
    <3> QED
      BY <3>2, <3>3 DEF IsOpening
  <2>4. \/ w \in openings
        \/ v # None /\ w \in TraceRemoved(v)
        \/ r.against # None /\ w = Opened(r.account, r.against, r.amount)
    BY <1>4 DEF SyncMakes
  <2>5. v # None /\ w \in TraceRemoved(v)
          => w \in openings \/ (v \in openings /\ w = [v EXCEPT !.posted = FALSE])
    BY <1>4 DEF SyncMakes, TraceRemoved
  <2> QED
    BY <2>1, <2>2, <2>3, <2>4, <2>5
<1>8. Free \in Job
  BY DEF Job
<1>9. accounts' \in [Accounts -> AccountRow] /\ counters' \in [Subs -> Nat] /\ UNCHANGED journals
  BY <1>3 DEF ChartRows
<1> QED
  BY <1>3, <1>6, <1>7, <1>8, <1>9, RowsAfter

\* The codes that the accounts of a sub head get when it moves.
LEMMA Reparented ==
    ASSUME CodesInv, NEW s \in Subs, NEW t \in Subs, Reparent(s, t)
    PROVE  \E n \in Nat : \E rank :
              /\ s # t
              /\ \A a \in Filed(s) : rank[a] \in 1..n
              /\ \A a, b \in Filed(s) : rank[a] = rank[b] => a = b
              /\ counters' = [counters EXCEPT ![t] = counters[t] + n]
              /\ accounts' = [a \in Accounts |->
                    IF a \in Filed(s)
                    THEN [accounts[a] EXCEPT !.sub = t, !.serial = counters[t] + rank[a]]
                    ELSE accounts[a]]
<1>1. PICK F : F = Filed(s)
  OBVIOUS
<1>2. IsFiniteSet(F) /\ Cardinality(F) \in Nat
  BY <1>1, FloorIsBehind DEF CodesInv
<1>3. F \subseteq Accounts
  BY <1>1 DEF Filed
<1>4. PICK f : f = [a \in F |-> accounts[a].serial]
  OBVIOUS
<1>5. f \in [F -> Nat]
  BY <1>3, <1>4 DEF CodesInv, ChartRows, AccountRow
<1>6. ASSUME NEW a \in F, NEW b \in F, f[a] = f[b] PROVE a = b
  BY <1>1, <1>3, <1>4, <1>6 DEF CodesInv, CodesApart, Coded, Code, Filed, Live
<1>7. PICK rank : rank = [a \in F |-> Cardinality({b \in F : f[b] <= f[a]})]
  OBVIOUS
<1>8. /\ \A a \in F : rank[a] \in 1..Cardinality(F)
      /\ \A a, b \in F : rank[a] = rank[b] => a = b
  BY <1>2, <1>5, <1>6, <1>7, RanksAreApart
<1>9. \A a \in F : rank[a] = Cardinality({b \in Filed(s) : accounts[b].serial <= accounts[a].serial})
  <2>1. ASSUME NEW a \in F
        PROVE  {b \in F : f[b] <= f[a]}
                 = {b \in Filed(s) : accounts[b].serial <= accounts[a].serial}
    BY <1>1, <1>4
  <2> QED
    BY <1>7, <2>1
<1>10. s # t /\ counters' = [counters EXCEPT ![t] = counters[t] + Cardinality(F)]
  BY <1>1 DEF Reparent
<1>11. accounts' = [a \in Accounts |->
                      IF a \in F
                      THEN [accounts[a] EXCEPT !.sub = t, !.serial = counters[t] + rank[a]]
                      ELSE accounts[a]]
  BY <1>1, <1>9 DEF Reparent
<1> QED
  BY <1>1, <1>2, <1>8, <1>10, <1>11

\* Reparent gives codes that are ahead of the counter of the other sub head.
LEMMA CodesWhenReparented ==
    ASSUME CodesInv, NEW s \in Subs, NEW t \in Subs, Reparent(s, t)
    PROVE  /\ CodesInv'
           /\ \A a, b \in Accounts : Code(a)' # Code(a) /\ a # b /\ Coded(b) => Code(a)' # Code(b)
<1>1. PICK n \in Nat : \E rank :
              /\ s # t
              /\ \A a \in Filed(s) : rank[a] \in 1..n
              /\ \A a, b \in Filed(s) : rank[a] = rank[b] => a = b
              /\ counters' = [counters EXCEPT ![t] = counters[t] + n]
              /\ accounts' = [a \in Accounts |->
                    IF a \in Filed(s)
                    THEN [accounts[a] EXCEPT !.sub = t, !.serial = counters[t] + rank[a]]
                    ELSE accounts[a]]
  BY Reparented
<1>2. PICK rank :
              /\ s # t
              /\ \A a \in Filed(s) : rank[a] \in 1..n
              /\ \A a, b \in Filed(s) : rank[a] = rank[b] => a = b
              /\ counters' = [counters EXCEPT ![t] = counters[t] + n]
              /\ accounts' = [a \in Accounts |->
                    IF a \in Filed(s)
                    THEN [accounts[a] EXCEPT !.sub = t, !.serial = counters[t] + rank[a]]
                    ELSE accounts[a]]
  BY <1>1
<1>3. PICK c : c = counters[t]
  OBVIOUS
<1>4. PICK F : F = Filed(s)
  OBVIOUS
<1>5. /\ accounts \in [Accounts -> AccountRow] /\ counters \in [Subs -> Nat] /\ c \in Nat
  BY <1>3 DEF CodesInv, ChartRows
<1>6. F \subseteq Accounts /\ \A a \in F : Coded(a) /\ accounts[a].sub = s
  BY <1>4 DEF Filed, Live, Coded
<1>7. ASSUME NEW a \in F PROVE rank[a] \in 1..n /\ c + rank[a] \in Nat
  <2>1. rank[a] \in 1..n
    BY <1>2, <1>4
  <2>2. \A k \in 1..n : c + k \in Nat
    BY <1>5
  <2> QED
    BY <2>1, <2>2
<1>8. ASSUME NEW a \in F
      PROVE  /\ accounts'[a] \in AccountRow /\ accounts'[a].status = accounts[a].status
             /\ accounts'[a].sub = t /\ accounts'[a].serial = c + rank[a]
             /\ accounts'[a].opening = accounts[a].opening
  <2>1. accounts'[a] = [accounts[a] EXCEPT !.sub = t, !.serial = c + rank[a]]
    BY <1>2, <1>3, <1>4, <1>6
  <2>2. accounts[a] \in AccountRow /\ c + rank[a] \in Nat
    BY <1>5, <1>6, <1>7
  <2> QED
    BY <2>1, <2>2 DEF AccountRow
<1>9. \A a \in Accounts \ F : accounts'[a] = accounts[a]
  BY <1>2, <1>4
<1>10. accounts' = [a \in Accounts |-> accounts'[a]]
  BY <1>2
<1>11. accounts' \in [Accounts -> AccountRow]
  <2>1. \A a \in Accounts : accounts'[a] \in AccountRow
    BY <1>5, <1>8, <1>9
  <2> QED
    BY <1>10, <2>1
<1>12. counters' \in [Subs -> Nat] /\ counters'[t] = c + n /\ \A u \in Subs \ {t} : counters'[u] = counters[u]
  <2>1. c + n \in Nat
    BY <1>5
  <2>2. counters' = [counters EXCEPT ![t] = c + n]
    BY <1>2, <1>3
  <2> QED
    BY <1>5, <2>1, <2>2
<1>13. UNCHANGED <<openings, journals, told, jobs>> /\ \A p \in Procs : jobs[p] = Free
  BY DEF Reparent
<1>14. ChartRows'
  <2>1. (\A v \in openings : IsOpening(v))'
    BY <1>13 DEF CodesInv, ChartRows, IsOpening
  <2>2. journals' \in Seq(Postings) /\ told' = [a \in Accounts |-> told'[a]] /\ jobs' \in [Procs -> Job]
    BY <1>13 DEF CodesInv, ChartRows
  <2> QED
    BY <1>11, <1>12, <2>1, <2>2 DEF ChartRows
<1>15. \A a \in Accounts : Coded(a)' <=> Coded(a)
  BY <1>8, <1>9 DEF Coded
<1>16. \A a \in F : Code(a)' = <<t, c + rank[a]>>
  BY <1>8 DEF Code
<1>17. \A a \in Accounts \ F : Code(a)' = Code(a)
  BY <1>9 DEF Code
<1>18. \A b \in Accounts : Coded(b) => accounts[b].sub \in Subs /\ accounts[b].serial \in 1..counters[accounts[b].sub]
  BY DEF CodesInv, CodesCounted
<1>19. ASSUME NEW a \in F, NEW b \in Accounts, Coded(b) PROVE Code(a)' # Code(b)
  <2>1. CASE accounts[b].sub = t
    <3>1. accounts[b].serial <= c
      BY <1>3, <1>5, <1>18, <1>19, <2>1
    <3>2. c + rank[a] # accounts[b].serial
      BY <1>5, <1>7, <1>18, <1>19, <2>1, <3>1
    <3> QED
      BY <1>16, <3>2 DEF Code
  <2>2. CASE accounts[b].sub # t
    BY <1>16, <2>2 DEF Code
  <2> QED
    BY <2>1, <2>2
<1>20. CodesCounted'
  <2>1. ASSUME NEW a \in F PROVE accounts'[a].sub \in Subs /\ accounts'[a].serial \in 1..counters'[accounts'[a].sub]
    BY <1>5, <1>7, <1>8, <1>12
  <2>2. ASSUME NEW a \in Accounts \ F, Coded(a)
        PROVE  accounts'[a].sub \in Subs /\ accounts'[a].serial \in 1..counters'[accounts'[a].sub]
    <3>1. accounts[a].sub \in Subs /\ accounts[a].serial \in 1..counters[accounts[a].sub]
      BY <1>18, <2>2
    <3>2. counters[accounts[a].sub] \in Nat /\ counters'[accounts[a].sub] >= counters[accounts[a].sub]
      BY <1>3, <1>5, <1>12, <3>1
    <3>3. counters'[accounts[a].sub] \in Nat
      BY <1>12, <3>1
    <3> QED
      BY <1>9, <3>1, <3>2, <3>3
  <2> QED
    BY <1>15, <2>1, <2>2 DEF CodesCounted
<1>21. CodesApart'
  <2>1. ASSUME NEW a \in F, NEW b \in F, a # b PROVE Code(a)' # Code(b)'
    <3>1. rank[a] # rank[b]
      BY <1>2, <1>4, <2>1
    <3>2. c + rank[a] # c + rank[b]
      BY <1>5, <1>7, <3>1
    <3> QED
      BY <1>16, <3>2
  <2>2. ASSUME NEW a \in F, NEW b \in Accounts \ F, Coded(b) PROVE Code(a)' # Code(b)'
    BY <1>17, <1>19, <2>2
  <2>3. ASSUME NEW a \in Accounts \ F, NEW b \in Accounts \ F, Coded(a), Coded(b), a # b
        PROVE  Code(a)' # Code(b)'
    BY <1>17, <2>3 DEF CodesInv, CodesApart
  <2> QED
    BY <1>6, <1>15, <2>1, <2>2, <2>3 DEF CodesApart
<1>22. CodesReserved'
  BY <1>13 DEF CodesReserved, Free
<1>23. ASSUME NEW a \in Accounts, NEW b \in Accounts, Code(a)' # Code(a), a # b, Coded(b)
       PROVE  Code(a)' # Code(b)
  BY <1>17, <1>19, <1>23
<1> QED
  BY <1>14, <1>20, <1>21, <1>22, <1>23 DEF CodesInv

\* A request p goes on with r; the rest of the codes and counters stays.
LEMMA CodesGoOn ==
    ASSUME CodesInv, ChartRows', NEW p \in Procs, NEW r \in Job, Goes(p, r),
           UNCHANGED <<accounts, counters>>,
           r.stage \in {"create", "move"} => r.floor <= counters[r.sub],
           r.stage = "move" => Coded(r.account),
           r.stage = "write" =>
              /\ Reserves(r)
              /\ \A q \in Procs : jobs[q].stage = "write" /\ jobs[q].account # r.account
                                     => <<jobs[q].sub, jobs[q].serial>> # <<r.sub, r.serial>>
    PROVE  CodesInv'
<1>1. jobs'[p] = r /\ \A q \in Procs \ {p} : jobs'[q] = jobs[q]
  BY GoesOn DEF CodesInv
<1>2. CodesCounted' /\ CodesApart'
  BY DEF CodesInv, CodesCounted, CodesApart, Coded, Code
<1>3. \A q \in Procs : jobs'[q].stage \in {"create", "move"} => jobs'[q].floor <= counters'[jobs'[q].sub]
  BY <1>1 DEF CodesInv, CodesReserved
<1>4. \A q \in Procs : jobs'[q].stage = "move" => Coded(jobs[q].account)'
  BY <1>1 DEF CodesInv, CodesReserved, Coded
<1>5. \A q \in Procs : jobs'[q].stage = "write" => Reserves(jobs'[q])
  BY <1>1 DEF CodesInv, CodesReserved
<1>6. \A q \in Procs : Reserves(jobs'[q]) => Reserves(jobs[q])'
  BY DEF Reserves, Coded, Code
<1>7. \A q, o \in Procs :
          /\ jobs'[q].stage = "write" /\ jobs'[o].stage = "write"
          /\ jobs'[q].account # jobs'[o].account
          => <<jobs'[q].sub, jobs'[q].serial>> # <<jobs'[o].sub, jobs'[o].serial>>
  BY <1>1 DEF CodesInv, CodesReserved
<1> QED
  BY <1>2, <1>3, <1>4, <1>5, <1>6, <1>7 DEF CodesInv, CodesReserved

LEMMA CodesWhenRead ==
    ASSUME CodesInv, NEW p \in Procs, NEW f \in AccountForms, CreateRead(p, f) \/ EditRead(p, f)
    PROVE  CodesInv'
<1>1. ChartRows'
  BY RowsWhenRead
<1>2. f.account \in Accounts /\ f.sub \in Subs /\ f.opening \in Int /\ f.status \in {"active", "inactive"}
  BY ChartAssumption
<1>3. FloorInUse(f.sub) \in Nat /\ FloorInUse(f.sub) <= counters[f.sub]
  BY <1>2, FloorIsBehind DEF CodesInv
<1>4. UNCHANGED <<accounts, counters>>
  BY DEF CreateRead, EditRead, tables
<1>5. CASE CreateRead(p, f)
  <2>1. PICK r : r = [stage |-> "create", account |-> f.account, sub |-> f.sub,
                      opening |-> f.opening, floor |-> FloorInUse(f.sub)]
    OBVIOUS
  <2>2. r \in Job
    BY <1>2, <1>3, <2>1 DEF Job, CreateJob
  <2>3. Goes(p, r)
    BY <1>5, <2>1 DEF CreateRead
  <2> QED
    BY <1>1, <1>3, <1>4, <2>1, <2>2, <2>3, CodesGoOn
<1>6. CASE EditRead(p, f)
  <2>1. PICK a, n : a = f.account /\ n = accounts[f.account].serial
    OBVIOUS
  <2>2. a \in Accounts /\ Coded(a) /\ n \in Nat
    BY <1>2, <1>6, <2>1 DEF EditRead, Live, Coded, CodesInv, ChartRows, AccountRow
  <2>3. CASE f.sub = accounts[a].sub
    <3>1. PICK r : r = [stage |-> "write", account |-> a, sub |-> f.sub, opening |-> f.opening,
                        status |-> f.status, serial |-> n, floor |-> 0]
      OBVIOUS
    <3>2. r \in Job
      BY <1>2, <2>2, <3>1 DEF Job, SaveJob
    <3>3. Goes(p, r)
      BY <1>6, <2>1, <2>3, <3>1 DEF EditRead
    <3>4. Code(a) = <<r.sub, r.serial>>
      BY <2>1, <2>3, <3>1 DEF Code
    <3>5. Reserves(r)
      BY <2>1, <2>2, <2>3, <3>1, <3>4 DEF Reserves, CodesInv, CodesCounted, CodesApart
    <3>6. \A q \in Procs : jobs[q].stage = "write" /\ jobs[q].account # r.account
                              => <<jobs[q].sub, jobs[q].serial>> # <<r.sub, r.serial>>
      BY <2>2, <3>1, <3>4 DEF CodesInv, CodesReserved, Reserves
    <3>7. r.stage = "write"
      BY <3>1
    <3> QED
      BY <1>1, <1>4, <3>2, <3>3, <3>5, <3>6, <3>7, CodesGoOn
  <2>4. CASE f.sub # accounts[a].sub
    <3>1. PICK r : r = [stage |-> "move", account |-> a, sub |-> f.sub, opening |-> f.opening,
                        status |-> f.status, serial |-> n, floor |-> FloorInUse(f.sub)]
      OBVIOUS
    <3>2. r \in Job
      BY <1>2, <1>3, <2>2, <3>1 DEF Job, SaveJob
    <3>3. Goes(p, r)
      BY <1>6, <2>1, <2>4, <3>1 DEF EditRead
    <3>4. r.stage = "move" /\ r.floor <= counters[r.sub] /\ Coded(r.account)
      BY <1>3, <2>2, <3>1
    <3> QED
      BY <1>1, <1>4, <3>2, <3>3, <3>4, CodesGoOn
  <2> QED
    BY <2>3, <2>4
<1> QED
  BY <1>5, <1>6

\* Only the counter of one sub head moves, and it moves up.
CounterMoves(s) ==
    /\ counters' = [counters EXCEPT ![s] = counters[s] + 1]

LEMMA CountersGrow ==
    ASSUME ChartRows, NEW s \in Subs, CounterMoves(s)
    PROVE  /\ counters[s] \in Nat /\ counters'[s] = counters[s] + 1
           /\ \A u \in Subs : counters[u] \in Nat /\ counters'[u] \in Nat /\ counters[u] <= counters'[u]
<1>1. \A u \in Subs : counters[u] \in Nat
  BY DEF ChartRows
<1>2. \A u \in Subs : counters'[u] = IF u = s THEN counters[s] + 1 ELSE counters[u]
  BY DEF ChartRows, CounterMoves
<1> QED
  BY <1>1, <1>2

\* What a request says stays true when a counter moves and one account takes a code
\* that no other account has.
LEMMA ReservedStays ==
    ASSUME CodesInv, NEW q \in Procs, NEW r, r = jobs[q],
           \A u \in Subs : counters[u] \in Nat /\ counters'[u] \in Nat /\ counters[u] <= counters'[u],
           NEW a \in Accounts, \A b \in Accounts \ {a} : Code(b)' = Code(b) /\ (Coded(b)' <=> Coded(b)),
           Coded(a)'
    PROVE  /\ r.stage \in {"create", "move"} => r.floor <= counters'[r.sub]
           /\ r.stage = "move" => Coded(r.account)'
           /\ r.stage = "write" /\ (r.account # a => Code(a)' # <<r.sub, r.serial>>)
                => /\ Coded(r.account)'
                   /\ r.serial \in 1..counters'[r.sub]
                   /\ \A b \in Accounts \ {r.account} :
                         Coded(b)' => Code(b)' # <<r.sub, r.serial>>
<1>2. r \in Job
  BY DEF CodesInv, ChartRows
<1>3. \A b \in Accounts : Coded(b) => Coded(b)'
  OBVIOUS
<1>4. ASSUME r.stage \in {"create", "move"} PROVE r.floor <= counters'[r.sub]
  <2>1. r.sub \in Subs /\ r.floor \in Nat
    BY <1>2, <1>4, JobShape DEF CreateJob, SaveJob
  <2>2. r.floor <= counters[r.sub]
    BY <1>4 DEF CodesInv, CodesReserved
  <2> QED
    BY <2>1, <2>2
<1>5. ASSUME r.stage = "move" PROVE Coded(r.account)'
  <2>1. r.account \in Accounts /\ Coded(r.account)
    BY <1>2, <1>5, JobShape DEF SaveJob, CodesInv, CodesReserved
  <2> QED
    BY <1>3, <2>1 DEF Coded
<1>6. ASSUME r.stage = "write", r.account # a => Code(a)' # <<r.sub, r.serial>>
      PROVE  /\ Coded(r.account)'
             /\ r.serial \in 1..counters'[r.sub]
             /\ \A b \in Accounts \ {r.account} : Coded(b)' => Code(b)' # <<r.sub, r.serial>>
  <2>1. r.account \in Accounts /\ r.sub \in Subs
    BY <1>2, <1>6, JobShape DEF SaveJob
  <2>2. Reserves(r)
    BY <1>6 DEF CodesInv, CodesReserved
  <2>3. Coded(r.account)'
    BY <1>3, <2>1, <2>2 DEF Coded, Reserves
  <2>4. r.serial \in 1..counters'[r.sub]
    BY <2>1, <2>2 DEF Reserves
  <2>5. ASSUME NEW b \in Accounts \ {r.account}, Coded(b)' PROVE Code(b)' # <<r.sub, r.serial>>
    BY <1>6, <2>2, <2>5 DEF Reserves
  <2> QED
    BY <2>3, <2>4, <2>5
<1> QED
  BY <1>4, <1>5, <1>6

LEMMA CodesWhenCreated ==
    ASSUME CodesInv, NEW p \in Procs, CreateCommit(p)
    PROVE  /\ CodesInv'
           /\ \A a, b \in Accounts : Code(a)' # Code(a) /\ a # b /\ Coded(b) => Code(a)' # Code(b)
<1>1. PICK r : r = jobs[p]
  OBVIOUS
<1>2. r \in CreateJob
  BY <1>1, JobShape DEF CreateCommit, At, CodesInv, ChartRows
<1>3. PICK a, s, c : a = r.account /\ s = r.sub /\ c = counters[r.sub] + 1
  OBVIOUS
<1>4. a \in Accounts /\ s \in Subs /\ r.opening \in Int /\ r.floor \in Nat
  BY <1>2, <1>3 DEF CreateJob
<1>5. r.floor <= counters[s]
  BY <1>1, <1>3 DEF CodesInv, CodesReserved, CreateCommit, At
<1>6. Drawn(s, r.floor) = [counter |-> c, serial |-> c]
  BY <1>3, <1>4, <1>5, DrawnIsNext DEF CodesInv
<1>7. /\ ~Coded(a)
      /\ counters' = [counters EXCEPT ![s] = c]
      /\ accounts' = [accounts EXCEPT ![a] =
                          [status |-> "active", sub |-> s, serial |-> c, opening |-> r.opening]]
      /\ Saved(p, a, r.opening)
  BY <1>1, <1>3, <1>6 DEF CreateCommit, Coded
<1>8. CounterMoves(s)
  BY <1>3, <1>7 DEF CounterMoves
<1>9. /\ counters[s] \in Nat /\ counters'[s] = c
      /\ \A u \in Subs : counters[u] \in Nat /\ counters'[u] \in Nat /\ counters[u] <= counters'[u]
  BY <1>3, <1>4, <1>8, CountersGrow DEF CodesInv
<1>10. c \in Nat /\ c > counters[s] /\ c >= 1
  BY <1>3, <1>9
<1>11. ChartRows'
  BY RowsWhenSaved
<1>12. Code(a)' = <<s, c>> /\ Coded(a)'
  BY <1>4, <1>7 DEF Code, Coded, CodesInv, ChartRows
<1>13. \A b \in Accounts \ {a} : Code(b)' = Code(b) /\ (Coded(b)' <=> Coded(b))
  BY <1>7 DEF Code, Coded, CodesInv, ChartRows
<1>14. ASSUME NEW b \in Accounts, Coded(b) PROVE Code(b) # <<s, c>>
  <2>1. accounts[b].sub = s => accounts[b].serial \in 1..counters[s]
    BY <1>14 DEF CodesInv, CodesCounted
  <2>2. accounts[b].sub = s => accounts[b].serial # c
    BY <1>9, <1>10, <2>1
  <2> QED
    BY <2>2 DEF Code
<1>15. CodesCounted'
  <2>1. accounts'[a].sub = s /\ accounts'[a].serial = c
    BY <1>12 DEF Code
  <2>2. ASSUME NEW b \in Accounts \ {a}, Coded(b)
        PROVE  accounts'[b].sub \in Subs /\ accounts'[b].serial \in 1..counters'[accounts'[b].sub]
    <3>1. accounts[b].sub \in Subs /\ accounts[b].serial \in 1..counters[accounts[b].sub]
      BY <2>2 DEF CodesInv, CodesCounted
    <3>2. accounts'[b].sub = accounts[b].sub /\ accounts'[b].serial = accounts[b].serial
      BY <1>13 DEF Code
    <3> QED
      BY <1>9, <3>1, <3>2
  <2>3. c \in 1..counters'[s]
    BY <1>9, <1>10
  <2> QED
    BY <1>4, <1>13, <2>1, <2>2, <2>3 DEF CodesCounted
<1>16. CodesApart'
  BY <1>12, <1>13, <1>14 DEF CodesInv, CodesApart
<1>17. jobs'[p].stage \in {"idle", "saved"} /\ \A q \in Procs \ {p} : jobs'[q] = jobs[q]
  BY <1>7 DEF Saved, Done, Goes, Free, CodesInv, ChartRows
<1>18. ASSUME NEW q \in Procs \ {p}, jobs[q].stage = "write"
       PROVE  <<s, c>> # <<jobs[q].sub, jobs[q].serial>>
  <2>1. PICK o : o = jobs[q]
    OBVIOUS
  <2>2. Reserves(o) /\ o.sub \in Subs
    BY <1>18, <2>1, JobShape DEF CodesInv, CodesReserved, ChartRows, SaveJob
  <2>3. o.sub = s => o.serial # c
    BY <1>9, <1>10, <2>2 DEF Reserves
  <2> QED
    BY <2>1, <2>3
<1>19. ASSUME NEW q \in Procs \ {p}
       PROVE  /\ jobs'[q].stage \in {"create", "move"} => jobs'[q].floor <= counters'[jobs'[q].sub]
              /\ jobs'[q].stage = "move" => Coded(jobs[q].account)'
              /\ jobs'[q].stage = "write" => Reserves(jobs[q])'
  <2>1. PICK o : o = jobs[q]
    OBVIOUS
  <2>2. /\ o.stage \in {"create", "move"} => o.floor <= counters'[o.sub]
        /\ o.stage = "move" => Coded(o.account)'
        /\ o.stage = "write" /\ (o.account # a => Code(a)' # <<o.sub, o.serial>>)
                => /\ Coded(o.account)'
                   /\ o.serial \in 1..counters'[o.sub]
                   /\ \A b \in Accounts \ {o.account} :
                         Coded(b)' => Code(b)' # <<o.sub, o.serial>>
    BY <1>4, <1>9, <1>12, <1>13, <2>1, ReservedStays
  <2>3. jobs'[q] = o
    BY <1>17, <2>1
  <2>4. o.stage = "write" => Code(a)' # <<o.sub, o.serial>>
    BY <1>12, <1>18, <2>1
  <2> QED
    BY <2>2, <2>3, <2>4 DEF Reserves, Coded
<1>20. CodesReserved'
  <2>1. jobs'[p].stage \notin {"create", "move", "write"}
    BY <1>17
  <2>2. \A q, o \in Procs :
          /\ jobs'[q].stage = "write" /\ jobs'[o].stage = "write"
          /\ jobs'[q].account # jobs'[o].account
          => <<jobs'[q].sub, jobs'[q].serial>> # <<jobs'[o].sub, jobs'[o].serial>>
    BY <1>17, <2>1 DEF CodesInv, CodesReserved
  <2> QED
    BY <1>19, <2>1, <2>2 DEF CodesReserved
<1>21. \A x, b \in Accounts : Code(x)' # Code(x) /\ x # b /\ Coded(b) => Code(x)' # Code(b)
  BY <1>12, <1>13, <1>14
<1> QED
  BY <1>11, <1>15, <1>16, <1>20, <1>21 DEF CodesInv

\* The new code of a moved account is ahead of the counter, and nobody else's.
LEMMA CodesWhenDrawn ==
    ASSUME CodesInv, NEW p \in Procs, UpdateDraw(p)
    PROVE  CodesInv'
<1>1. PICK r : r = jobs[p]
  OBVIOUS
<1>2. r \in SaveJob /\ r.stage = "move"
  BY <1>1, JobShape DEF UpdateDraw, At, CodesInv, ChartRows
<1>3. PICK a, s, c : a = r.account /\ s = r.sub /\ c = counters[r.sub] + 1
  OBVIOUS
<1>4. a \in Accounts /\ s \in Subs /\ r.floor \in Nat
  BY <1>2, <1>3 DEF SaveJob
<1>5. r.floor <= counters[s] /\ Coded(a)
  BY <1>1, <1>2, <1>3 DEF CodesInv, CodesReserved
<1>6. Drawn(s, r.floor) = [counter |-> c, serial |-> c]
  BY <1>3, <1>4, <1>5, DrawnIsNext DEF CodesInv
<1>7. PICK n : n = [r EXCEPT !.stage = "write", !.serial = c, !.floor = 0]
  OBVIOUS
<1>8. /\ counters' = [counters EXCEPT ![s] = c]
      /\ Goes(p, n)
      /\ UNCHANGED accounts
  BY <1>1, <1>3, <1>6, <1>7 DEF UpdateDraw
<1>9. CounterMoves(s)
  BY <1>3, <1>8 DEF CounterMoves
<1>10. /\ counters[s] \in Nat /\ counters'[s] = c
       /\ \A u \in Subs : counters[u] \in Nat /\ counters'[u] \in Nat /\ counters[u] <= counters'[u]
  BY <1>3, <1>4, <1>9, CountersGrow DEF CodesInv
<1>11. c \in Nat /\ c > counters[s] /\ c >= 1
  BY <1>3, <1>10
<1>12. ChartRows'
  BY RowsWhenSaved
<1>13. n \in Job /\ n.stage = "write" /\ n.account = a /\ n.sub = s /\ n.serial = c
  BY <1>2, <1>3, <1>7, <1>11 DEF SaveJob, Job
<1>14. jobs'[p] = n /\ \A q \in Procs \ {p} : jobs'[q] = jobs[q]
  BY <1>8, <1>13, GoesOn DEF CodesInv
<1>15. ASSUME NEW b \in Accounts, Coded(b) PROVE Code(b) # <<s, c>>
  <2>1. accounts[b].sub = s => accounts[b].serial \in 1..counters[s]
    BY <1>15 DEF CodesInv, CodesCounted
  <2>2. accounts[b].sub = s => accounts[b].serial # c
    BY <1>10, <1>11, <2>1
  <2> QED
    BY <2>2 DEF Code
<1>16. \A b \in Accounts : Code(b)' = Code(b) /\ (Coded(b)' <=> Coded(b))
  BY <1>8 DEF Code, Coded
<1>17. CodesCounted'
  <2>1. ASSUME NEW b \in Accounts, Coded(b)
        PROVE  accounts[b].sub \in Subs /\ accounts[b].serial \in 1..counters'[accounts[b].sub]
    <3>1. accounts[b].sub \in Subs /\ accounts[b].serial \in 1..counters[accounts[b].sub]
      BY <2>1 DEF CodesInv, CodesCounted
    <3> QED
      BY <1>10, <3>1
  <2> QED
    BY <1>8, <2>1 DEF CodesCounted, Coded
<1>18. CodesApart'
  BY <1>16 DEF CodesInv, CodesApart
<1>19. Reserves(n)'
  <2>1. ASSUME NEW b \in Accounts \ {a}, Coded(b)' PROVE Code(b)' # <<s, c>>
    BY <1>15, <1>16, <2>1
  <2>2. c \in 1..counters'[s]
    BY <1>10, <1>11
  <2>3. Coded(a)'
    BY <1>4, <1>5, <1>16
  <2> QED
    BY <1>13, <2>1, <2>2, <2>3 DEF Reserves, Coded
<1>20. ASSUME NEW q \in Procs, jobs[q].stage = "write"
       PROVE  <<s, c>> # <<jobs[q].sub, jobs[q].serial>>
  <2>1. PICK o : o = jobs[q]
    OBVIOUS
  <2>2. Reserves(o) /\ o.sub \in Subs
    BY <1>20, <2>1, JobShape DEF CodesInv, CodesReserved, ChartRows, SaveJob
  <2>3. o.sub = s => o.serial # c
    BY <1>10, <1>11, <2>2 DEF Reserves
  <2> QED
    BY <2>1, <2>3
<1>21. ASSUME NEW q \in Procs \ {p}
       PROVE  /\ jobs'[q].stage \in {"create", "move"} => jobs'[q].floor <= counters'[jobs'[q].sub]
              /\ jobs'[q].stage = "move" => Coded(jobs[q].account)'
              /\ jobs'[q].stage = "write" => Reserves(jobs[q])'
  <2>1. PICK o : o = jobs[q]
    OBVIOUS
  <2>2. /\ o.stage \in {"create", "move"} => o.floor <= counters'[o.sub]
        /\ o.stage = "move" => Coded(o.account)'
        /\ o.stage = "write" /\ (o.account # a => Code(a)' # <<o.sub, o.serial>>)
                => /\ Coded(o.account)'
                   /\ o.serial \in 1..counters'[o.sub]
                   /\ \A b \in Accounts \ {o.account} :
                         Coded(b)' => Code(b)' # <<o.sub, o.serial>>
    BY <1>4, <1>5, <1>10, <1>16, <2>1, ReservedStays
  <2>3. jobs'[q] = o
    BY <1>14, <2>1
  <2>4. o.stage = "write" /\ o.account # a => Code(a)' # <<o.sub, o.serial>>
    BY <1>4, <1>5, <1>16, <2>1 DEF CodesInv, CodesReserved, Reserves
  <2> QED
    BY <2>2, <2>3, <2>4 DEF Reserves, Coded
<1>22. CodesReserved'
  <2>1. \A q \in Procs : jobs'[q].stage \in {"create", "move"}
                            => jobs'[q].floor <= counters'[jobs'[q].sub]
    BY <1>13, <1>14, <1>21
  <2>2. \A q \in Procs : jobs'[q].stage = "move" => Coded(jobs[q].account)'
    BY <1>13, <1>14, <1>21
  <2>3. Reserves(jobs[p])'
    BY <1>14, <1>19 DEF Reserves, Coded, Code
  <2>4. \A q \in Procs : jobs'[q].stage = "write" => Reserves(jobs[q])'
    BY <1>21, <2>3
  <2>5. \A q, o \in Procs :
          /\ jobs'[q].stage = "write" /\ jobs'[o].stage = "write"
          /\ jobs'[q].account # jobs'[o].account
          => <<jobs'[q].sub, jobs'[q].serial>> # <<jobs'[o].sub, jobs'[o].serial>>
    BY <1>13, <1>14, <1>20 DEF CodesInv, CodesReserved
  <2> QED
    BY <2>1, <2>2, <2>4, <2>5 DEF CodesReserved
<1> QED
  BY <1>12, <1>17, <1>18, <1>22 DEF CodesInv

\* An edit writes the code that it reserved.
LEMMA CodesWhenWritten ==
    ASSUME CodesInv, NEW p \in Procs, UpdateWrite(p)
    PROVE  /\ CodesInv'
           /\ \A a, b \in Accounts : Code(a)' # Code(a) /\ a # b /\ Coded(b) => Code(a)' # Code(b)
<1>1. PICK r : r = jobs[p]
  OBVIOUS
<1>2. r \in SaveJob /\ r.stage = "write"
  BY <1>1, JobShape DEF UpdateWrite, At, CodesInv, ChartRows
<1>3. PICK a, s, c : a = r.account /\ s = r.sub /\ c = r.serial
  OBVIOUS
<1>4. a \in Accounts /\ s \in Subs /\ c \in Nat
  BY <1>2, <1>3 DEF SaveJob
<1>5. /\ accounts' = [accounts EXCEPT ![a] =
                        [status |-> r.status, sub |-> s, serial |-> c, opening |-> r.opening]]
      /\ Saved(p, a, r.opening)
      /\ UNCHANGED counters
  BY <1>1, <1>3 DEF UpdateWrite
<1>6. Reserves(r)
  BY <1>1, <1>2 DEF CodesInv, CodesReserved
<1>7. ChartRows'
  BY RowsWhenSaved
<1>8. Code(a)' = <<s, c>> /\ Coded(a)' /\ Coded(a)
  BY <1>2, <1>3, <1>4, <1>5, <1>6 DEF Code, Coded, CodesInv, ChartRows, SaveJob, Reserves
<1>9. \A b \in Accounts \ {a} : Code(b)' = Code(b) /\ (Coded(b)' <=> Coded(b))
  BY <1>5 DEF Code, Coded, CodesInv, ChartRows
<1>10. \A b \in Accounts \ {a} : Coded(b) => Code(b) # <<s, c>>
  BY <1>3, <1>6 DEF Reserves
<1>11. CodesCounted'
  <2>1. accounts'[a].sub = s /\ accounts'[a].serial = c /\ c \in 1..counters[s]
    BY <1>3, <1>6, <1>8 DEF Code, Reserves
  <2>2. \A b \in Accounts \ {a} : accounts'[b].sub = accounts[b].sub
                                     /\ accounts'[b].serial = accounts[b].serial
    BY <1>9 DEF Code
  <2> QED
    BY <1>4, <1>5, <1>9, <2>1, <2>2 DEF CodesCounted, CodesInv
<1>12. CodesApart'
  BY <1>8, <1>9, <1>10 DEF CodesInv, CodesApart
<1>13. jobs'[p].stage \in {"idle", "saved"} /\ \A q \in Procs \ {p} : jobs'[q] = jobs[q]
  BY <1>5 DEF Saved, Done, Goes, Free, CodesInv, ChartRows
<1>14. \A u \in Subs : counters[u] \in Nat /\ counters'[u] \in Nat /\ counters[u] <= counters'[u]
  BY <1>5 DEF CodesInv, ChartRows
<1>15. ASSUME NEW q \in Procs \ {p}
       PROVE  /\ jobs'[q].stage \in {"create", "move"} => jobs'[q].floor <= counters'[jobs'[q].sub]
              /\ jobs'[q].stage = "move" => Coded(jobs[q].account)'
              /\ jobs'[q].stage = "write" => Reserves(jobs[q])'
  <2>1. PICK o : o = jobs[q]
    OBVIOUS
  <2>2. /\ o.stage \in {"create", "move"} => o.floor <= counters'[o.sub]
        /\ o.stage = "move" => Coded(o.account)'
        /\ o.stage = "write" /\ (o.account # a => Code(a)' # <<o.sub, o.serial>>)
                => /\ Coded(o.account)'
                   /\ o.serial \in 1..counters'[o.sub]
                   /\ \A b \in Accounts \ {o.account} :
                         Coded(b)' => Code(b)' # <<o.sub, o.serial>>
    BY <1>4, <1>8, <1>9, <1>14, <2>1, ReservedStays
  <2>3. jobs'[q] = o
    BY <1>13, <2>1
  <2>4. o.stage = "write" /\ o.account # a => Code(a)' # <<o.sub, o.serial>>
    BY <1>1, <1>2, <1>3, <1>8, <2>1 DEF CodesInv, CodesReserved
  <2> QED
    BY <2>2, <2>3, <2>4 DEF Reserves, Coded
<1>16. CodesReserved'
  <2>1. jobs'[p].stage \notin {"create", "move", "write"}
    BY <1>13
  <2>2. \A q, o \in Procs :
          /\ jobs'[q].stage = "write" /\ jobs'[o].stage = "write"
          /\ jobs'[q].account # jobs'[o].account
          => <<jobs'[q].sub, jobs'[q].serial>> # <<jobs'[o].sub, jobs'[o].serial>>
    BY <1>13, <2>1 DEF CodesInv, CodesReserved
  <2> QED
    BY <1>15, <2>1, <2>2 DEF CodesReserved
<1>17. \A x, b \in Accounts : Code(x)' # Code(x) /\ x # b /\ Coded(b) => Code(x)' # Code(b)
  BY <1>8, <1>9, <1>10
<1> QED
  BY <1>7, <1>11, <1>12, <1>16, <1>17 DEF CodesInv

\* No code changes, and no request gets one.
LEMMA RestKeeps ==
    ASSUME CodesInv, NEW p \in Procs,
           \/ \E a \in Accounts : DeleteRead(p, a)
           \/ \E s \in Subs : DeleteSubRead(p, s)
           \/ DeleteCommit(p) \/ DeleteSubAccounts(p) \/ DeleteSubRow(p)
           \/ SyncRead(p) \/ SyncCommit(p) \/ SaveFails(p)
    PROVE  /\ ChartRows' /\ UNCHANGED counters
           /\ \A a \in Accounts : Code(a)' = Code(a) /\ (Coded(a)' <=> Coded(a))
           /\ \A q \in Procs :
                 jobs'[q] = jobs[q] \/ jobs'[q].stage \notin {"create", "move", "write"}
<1>1. ChartRows'
  BY RowsWhenRead, RowsWhenDeleted, RowsWhenSynced DEF CodesInv
<1>2. UNCHANGED counters
  BY DEF DeleteRead, DeleteSubRead, DeleteCommit, DeleteSubAccounts, DeleteSubRow, SyncRead,
         SyncCommit, SaveFails, tables
<1>3. \A a \in Accounts : Code(a)' = Code(a) /\ (Coded(a)' <=> Coded(a))
  <2>1. CASE DeleteCommit(p)
    BY <2>1, RowsDeleted DEF DeleteCommit, Deletable, CodesInv
  <2>2. CASE DeleteSubAccounts(p)
    BY <2>2, RowsDeleted DEF DeleteSubAccounts, Deletable, CodesInv
  <2>3. CASE ~DeleteCommit(p) /\ ~DeleteSubAccounts(p)
    <3>1. UNCHANGED accounts
      BY <2>3 DEF DeleteRead, DeleteSubRead, DeleteSubRow, SyncRead, SyncCommit, SaveFails, tables
    <3> QED
      BY <3>1 DEF Code, Coded
  <2> QED
    BY <2>1, <2>2, <2>3
<1>4. ASSUME NEW q \in Procs
      PROVE  jobs'[q] = jobs[q] \/ jobs'[q].stage \notin {"create", "move", "write"}
  <2>1. \E r : Goes(p, r) /\ r.stage \notin {"create", "move", "write"}
    <3>1. CASE DeleteCommit(p) \/ DeleteSubRow(p) \/ SyncCommit(p) \/ SaveFails(p)
      BY <3>1 DEF DeleteCommit, DeleteSubRow, SyncCommit, SaveFails, Done, Free
    <3>2. CASE DeleteSubAccounts(p)
      <4>1. PICK r : r = [stage |-> "deleteSub", sub |-> jobs[p].sub]
        OBVIOUS
      <4> QED
        BY <3>2, <4>1 DEF DeleteSubAccounts
    <3>3. ASSUME NEW a \in Accounts, DeleteRead(p, a)
          PROVE  \E r : Goes(p, r) /\ r.stage \notin {"create", "move", "write"}
      BY <3>3 DEF DeleteRead
    <3>4. ASSUME NEW s \in Subs, DeleteSubRead(p, s)
          PROVE  \E r : Goes(p, r) /\ r.stage \notin {"create", "move", "write"}
      <4>1. PICK r : r = [stage |-> "deleteAccounts", sub |-> s, accounts |-> Filed(s)]
        OBVIOUS
      <4> QED
        BY <3>4, <4>1 DEF DeleteSubRead
    <3>5. CASE SyncRead(p)
      <4>1. PICK e : Goes(p, [stage |-> "resolved", account |-> jobs[p].account,
                              amount |-> accounts[jobs[p].account].opening, against |-> e])
        BY <3>5 DEF SyncRead
      <4> QED
        BY <4>1
    <3> QED
      BY <3>1, <3>2, <3>3, <3>4, <3>5
  <2>2. PICK r : Goes(p, r) /\ r.stage \notin {"create", "move", "write"}
    BY <2>1
  <2> QED
    BY <2>2 DEF Goes, CodesInv, ChartRows
<1> QED
  BY <1>1, <1>2, <1>3, <1>4

LEMMA CodesWhenRest ==
    ASSUME CodesInv, NEW p \in Procs,
           \/ \E a \in Accounts : DeleteRead(p, a)
           \/ \E s \in Subs : DeleteSubRead(p, s)
           \/ DeleteCommit(p) \/ DeleteSubAccounts(p) \/ DeleteSubRow(p)
           \/ SyncRead(p) \/ SyncCommit(p) \/ SaveFails(p)
    PROVE  /\ CodesInv'
           /\ \A a \in Accounts : Code(a)' = Code(a)
BY RestKeeps, CodesStay DEF Code, Coded

LEMMA CodesWhenOthers ==
    ASSUME CodesInv,
           \/ \E s \in Subs : CreateSub(s)
           \/ \E j \in Postings : Book(j)
           \/ \E c \in Parties : RemoveParty(c) \/ \E a \in Accounts : Link(c, a)
           \/ UNCHANGED chartVars
    PROVE  CodesInv' /\ UNCHANGED accounts
<1>1. UNCHANGED <<accounts, counters, openings, told, jobs>>
  BY DEF CreateSub, Book, RemoveParty, Link, chartVars, tables
<1>2. journals' \in Seq(Postings)
  <2>1. UNCHANGED journals \/ \E j \in Postings : journals' = Append(journals, j)
    BY DEF CreateSub, Book, RemoveParty, Link, chartVars, tables
  <2> QED
    BY <2>1 DEF CodesInv, ChartRows
<1>3. (\A v \in openings : IsOpening(v))'
  BY <1>1 DEF CodesInv, ChartRows, IsOpening
<1>4. ChartRows'
  BY <1>1, <1>2, <1>3 DEF CodesInv, ChartRows
<1>5. \A a \in Accounts : Code(a)' = Code(a) /\ (Coded(a)' <=> Coded(a))
  BY <1>1 DEF Code, Coded
<1> QED
  BY <1>1, <1>4, <1>5, CodesStay

LEMMA CodesKept ==
    ASSUME CodesInv, [ChartNext]_chartVars
    PROVE  /\ CodesInv'
           /\ \A a, b \in Accounts : Code(a)' # Code(a) /\ a # b /\ Coded(b) => Code(a)' # Code(b)
<1>1. ASSUME NEW p \in Procs, NEW f \in AccountForms, CreateRead(p, f) \/ EditRead(p, f)
      PROVE  CodesInv' /\ \A a \in Accounts : Code(a)' = Code(a)
  BY <1>1, CodesWhenRead DEF CreateRead, EditRead, tables, Code
<1>2. ASSUME NEW p \in Procs, UpdateDraw(p)
      PROVE  CodesInv' /\ \A a \in Accounts : Code(a)' = Code(a)
  BY <1>2, CodesWhenDrawn DEF UpdateDraw, Code
<1>3. ASSUME NEW p \in Procs,
             \/ \E a \in Accounts : DeleteRead(p, a)
             \/ \E s \in Subs : DeleteSubRead(p, s)
             \/ DeleteCommit(p) \/ DeleteSubAccounts(p) \/ DeleteSubRow(p)
             \/ SyncRead(p) \/ SyncCommit(p) \/ SaveFails(p)
      PROVE  CodesInv' /\ \A a \in Accounts : Code(a)' = Code(a)
  BY <1>3, CodesWhenRest
<1>4. ASSUME \/ \E s \in Subs : CreateSub(s)
             \/ \E j \in Postings : Book(j)
             \/ \E c \in Parties : RemoveParty(c) \/ \E a \in Accounts : Link(c, a)
             \/ UNCHANGED chartVars
      PROVE  CodesInv' /\ \A a \in Accounts : Code(a)' = Code(a)
  BY <1>4, CodesWhenOthers DEF Code
<1> QED
  BY <1>1, <1>2, <1>3, <1>4, CodesWhenCreated, CodesWhenWritten, CodesWhenReparented DEF ChartNext

LEMMA CodesAtStart == ChartInit => CodesInv
<1> SUFFICES ASSUME ChartInit PROVE CodesInv
  OBVIOUS
<1>1. \A a \in DOMAIN Charted :
          /\ Charted[a] \in AccountRow /\ a \in Accounts
          /\ Charted[a].status # "absent" /\ Charted[a].sub \in Subs /\ Charted[a].serial > 0
  BY ChartAssumption
<1>2. \A a \in DOMAIN Charted : accounts[a] = Charted[a]
  BY <1>1 DEF ChartInit
<1>3. \A a \in Accounts \ DOMAIN Charted : accounts[a] = Absent
  BY DEF ChartInit
<1>4. \A a \in Accounts : Coded(a) => a \in DOMAIN Charted
  BY <1>3 DEF Coded, Absent
<1>5. accounts \in [Accounts -> AccountRow]
  <2>1. accounts = [a \in Accounts |-> accounts[a]]
    BY DEF ChartInit
  <2>2. Absent \in AccountRow
    BY DEF Absent, AccountRow
  <2> QED
    BY <1>1, <1>2, <1>3, <2>1, <2>2
<1>6. ASSUME NEW s \in Subs
      PROVE  /\ counters[s] \in Nat
             /\ \A a \in DOMAIN Charted : Charted[a].sub = s => Charted[a].serial <= counters[s]
  <2>1. PICK B : B = {b \in DOMAIN Charted : Charted[b].sub = s}
    OBVIOUS
  <2>2. PICK T : T = {Charted[a].serial : a \in B}
    OBVIOUS
  <2>3. IsFiniteSet(B)
    <3>1. B \in SUBSET Accounts
      BY <1>1, <2>1
    <3> QED
      BY <3>1, ChartAssumption, FS_Subset
  <2>4. IsFiniteSet(T)
    <3>1. PICK g : g = [a \in B |-> Charted[a].serial]
      OBVIOUS
    <3>2. g \in Surjection(B, T)
      BY <2>2, <3>1 DEF Surjection
    <3> QED
      BY <2>3, <3>2, FS_Surjection
  <2>5. \A n \in T : n \in Nat
    BY <1>1, <2>1, <2>2 DEF AccountRow
  <2>6. {0} \cup T \in SUBSET Int /\ {0} \cup T # {}
    BY <2>5
  <2>7. IsFiniteSet({0} \cup T)
    BY <2>4, FS_AddElement, {0} \cup T = T \cup {0}
  <2>8. Max({0} \cup T) \in {0} \cup T /\ \A x \in {0} \cup T : x <= Max({0} \cup T)
    BY <2>6, <2>7, MaxIsGreatest
  <2>9. counters[s] = Max({0} \cup T)
    BY <2>1, <2>2 DEF ChartInit
  <2>10. \A a \in DOMAIN Charted : Charted[a].sub = s => Charted[a].serial \in T
    BY <2>1, <2>2
  <2> QED
    BY <2>5, <2>8, <2>9, <2>10
<1>7. ChartRows
  <2>1. counters \in [Subs -> Nat]
    BY <1>6 DEF ChartInit
  <2>2. jobs \in [Procs -> Job]
    BY DEF ChartInit, Job
  <2>3. told = [a \in Accounts |-> told[a]] /\ journals \in Seq(Postings) /\ openings = {}
    BY DEF ChartInit
  <2> QED
    BY <1>5, <2>1, <2>2, <2>3 DEF ChartRows
<1>8. CodesCounted
  BY <1>1, <1>2, <1>4, <1>6 DEF CodesCounted, AccountRow
<1>9. CodesApart
  BY <1>2, <1>4, ChartAssumption DEF CodesApart, Code
<1>10. CodesReserved
  BY DEF ChartInit, CodesReserved, Free
<1> QED
  BY <1>7, <1>8, <1>9, <1>10 DEF CodesInv

\* No account is given a code that another account holds or held before it was deleted,
\* whatever is created, moved between the sub heads and deleted at the same time.
THEOREM CodesNeverReused == ChartSpec => CodesAreFresh
<1>1. CodesInv /\ [ChartNext]_chartVars
        => [\A a, b \in Accounts :
              (/\ <<accounts'[a].sub, accounts'[a].serial>> # <<accounts[a].sub, accounts[a].serial>>
               /\ a # b /\ accounts[b].status # "absent")
              => <<accounts'[a].sub, accounts'[a].serial>>
                    # <<accounts[b].sub, accounts[b].serial>>]_chartVars
  BY CodesKept DEF Code, Coded
<1>2. CodesInv /\ [ChartNext]_chartVars => CodesInv'
  BY CodesKept
<1> QED
  BY <1>1, <1>2, CodesAtStart, PTL DEF ChartSpec, CodesAreFresh

-------------------------------------------------------------------------------
(* Entries and their accounts.                                              *)

\* An account leaves the chart only while no voucher has an entry on it.
LEMMA LiveStays ==
    ASSUME CodesInv, [ChartNext]_chartVars
    PROVE  \A a \in Accounts : Live(a) => Live(a)' \/ ~HasEntries(a)
<1>0. ChartRows
  BY DEF CodesInv
<1>1. ASSUME NEW p \in Procs, CreateCommit(p) \/ UpdateWrite(p)
      PROVE  \A a \in Accounts : Live(a) => Live(a)'
  <2>1. PICK r : r = jobs[p]
    OBVIOUS
  <2>2. r \in CreateJob \cup SaveJob
    BY <1>0, <1>1, <2>1, JobShape DEF CreateCommit, UpdateWrite, At, ChartRows
  <2>3. r.account \in Accounts /\ (UpdateWrite(p) => r.status \in {"active", "inactive"})
    BY <1>0, <2>1, <2>2, JobShape DEF CreateJob, SaveJob, UpdateWrite, At, ChartRows
  <2>4. accounts'[r.account].status \in {"active", "inactive"}
    <3>1. CASE CreateCommit(p)
      BY <1>0, <2>1, <2>3, <3>1 DEF CreateCommit, ChartRows
    <3>2. CASE UpdateWrite(p)
      BY <1>0, <2>1, <2>3, <3>2 DEF UpdateWrite, ChartRows
    <3> QED
      BY <1>1, <3>1, <3>2
  <2>5. \A a \in Accounts \ {r.account} : accounts'[a] = accounts[a]
    BY <1>0, <1>1, <2>1 DEF CreateCommit, UpdateWrite, ChartRows
  <2> QED
    BY <2>4, <2>5 DEF Live
<1>2. ASSUME NEW p \in Procs, DeleteCommit(p) \/ DeleteSubAccounts(p)
      PROVE  \A a \in Accounts : Live(a) => Live(a)' \/ ~HasEntries(a)
  <2>1. PICK set : Deletable(set) /\ Deleted(set)
    <3>1. CASE DeleteCommit(p)
      BY <3>1 DEF DeleteCommit
    <3>2. CASE DeleteSubAccounts(p)
      BY <3>2 DEF DeleteSubAccounts
    <3> QED
      BY <1>2, <3>1, <3>2
  <2>2. \A a \in set : Live(a) /\ ~HasEntries(a)
    BY <2>1 DEF Deletable
  <2>3. \A a \in Accounts : Live(a)' <=> (Live(a) /\ a \notin set)
    BY <1>0, <2>1, <2>2, RowsDeleted
  <2> QED
    BY <2>2, <2>3
<1>3. ASSUME NEW s \in Subs, NEW t \in Subs, Reparent(s, t)
      PROVE  \A a \in Accounts : Live(a) => Live(a)'
  <2>1. ASSUME NEW a \in Accounts PROVE accounts'[a].status = accounts[a].status
    BY <1>0, <1>3 DEF Reparent, ChartRows, AccountRow
  <2> QED
    BY <2>1 DEF Live
<1>4. UNCHANGED accounts => \A a \in Accounts : Live(a) => Live(a)'
  BY DEF Live
<1>5. \/ UNCHANGED accounts
      \/ \E p \in Procs : CreateCommit(p) \/ UpdateWrite(p)
      \/ \E p \in Procs : DeleteCommit(p) \/ DeleteSubAccounts(p)
      \/ \E s \in Subs, t \in Subs : Reparent(s, t)
  BY DEF ChartNext, chartVars, tables, CreateRead, EditRead, DeleteRead, DeleteSubRead, UpdateDraw,
         DeleteSubRow, SyncRead, SyncCommit, SaveFails, CreateSub, Book, RemoveParty, Link
<1> QED
  BY <1>1, <1>2, <1>3, <1>4, <1>5

\* What the request p may be up to next.
JobStep(p, r) ==
    /\ r.stage \in {"create", "move", "write"}
          => jobs[p].stage = "move" \/ <<p, "create">> \in Asked \/ <<p, "update">> \in Asked
    /\ r.stage = "saved" => jobs[p].stage \in {"create", "write"}
    /\ r.stage = "resolved" => /\ jobs[p].stage = "saved" /\ UNCHANGED accounts
                               /\ r.amount = accounts[r.account].opening
                               /\ r.against # None => r.against # r.account

LEMMA JobsMove ==
    ASSUME CodesInv, [ChartNext]_chartVars
    PROVE  UNCHANGED jobs \/ \E p \in Procs : \E r : Goes(p, r) /\ JobStep(p, r)
<1> DEFINE Goal == \E p \in Procs : \E r : Goes(p, r) /\ JobStep(p, r)
<1>1. ASSUME NEW p \in Procs, NEW r, Goes(p, r), JobStep(p, r) PROVE Goal
  BY <1>1
<1> HIDE DEF Goal
<1>2. ASSUME NEW p \in Procs, SyncRead(p) PROVE Goal
  <2>1. PICK a : a = jobs[p].account
    OBVIOUS
  <2>2. PICK e \in Resolved(a) :
          Goes(p, [stage |-> "resolved", account |-> a, amount |-> accounts[a].opening, against |-> e])
    BY <1>2, <2>1 DEF SyncRead
  <2>3. e # None => e # a
    BY <2>2 DEF Resolved, Usable
  <2>4. PICK r : r = [stage |-> "resolved", account |-> a, amount |-> accounts[a].opening, against |-> e]
    OBVIOUS
  <2>5. JobStep(p, r)
    BY <1>2, <2>1, <2>3, <2>4 DEF JobStep, SyncRead, At
  <2>6. Goes(p, r)
    BY <2>2, <2>4
  <2> QED
    BY <1>1, <2>5, <2>6
<1>3. ASSUME NEW p \in Procs, NEW r, Goes(p, r),
             r.stage \notin {"create", "move", "write", "saved", "resolved"}
      PROVE  Goal
  BY <1>1, <1>3 DEF JobStep
<1>4. ASSUME NEW p \in Procs, NEW f \in AccountForms, CreateRead(p, f) \/ EditRead(p, f)
      PROVE  Goal
  <2>1. CASE CreateRead(p, f)
    <3>1. PICK r : r = [stage |-> "create", account |-> f.account, sub |-> f.sub,
                        opening |-> f.opening, floor |-> FloorInUse(f.sub)]
      OBVIOUS
    <3>2. JobStep(p, r)
      BY <2>1, <3>1 DEF JobStep, CreateRead
    <3> QED
      BY <1>1, <2>1, <3>1, <3>2 DEF CreateRead
  <2>2. CASE EditRead(p, f)
    <3>1. PICK stage, floor :
            /\ stage \in {"move", "write"} /\ floor \in {0, FloorInUse(f.sub)}
            /\ Goes(p, [stage |-> stage, account |-> f.account, sub |-> f.sub,
                        opening |-> f.opening, status |-> f.status,
                        serial |-> accounts[f.account].serial, floor |-> floor])
      BY <2>2 DEF EditRead
    <3>2. PICK r : r = [stage |-> stage, account |-> f.account, sub |-> f.sub,
                        opening |-> f.opening, status |-> f.status,
                        serial |-> accounts[f.account].serial, floor |-> floor]
      OBVIOUS
    <3>3. JobStep(p, r)
      BY <2>2, <3>1, <3>2 DEF JobStep, EditRead
    <3> QED
      BY <1>1, <3>1, <3>2, <3>3
  <2> QED
    BY <1>4, <2>1, <2>2
<1>5. ASSUME NEW p \in Procs, CreateCommit(p) \/ UpdateWrite(p) PROVE Goal
  <2>1. \E r \in {Free} \cup [stage : {"saved"}, account : {jobs[p].account}] : Goes(p, r)
    BY <1>5 DEF CreateCommit, UpdateWrite, Saved, Done
  <2>2. jobs[p].stage \in {"create", "write"}
    BY <1>5 DEF CreateCommit, UpdateWrite, At
  <2>3. \A r \in {Free} \cup [stage : {"saved"}, account : {jobs[p].account}] : JobStep(p, r)
    BY <2>2 DEF Free, JobStep
  <2> QED
    BY <1>1, <2>1, <2>3
<1>6. ASSUME NEW p \in Procs, UpdateDraw(p) PROVE Goal
  <2>1. jobs[p] \in SaveJob
    BY <1>6, JobShape DEF UpdateDraw, At, CodesInv, ChartRows
  <2>2. PICK serial : Goes(p, [jobs[p] EXCEPT !.stage = "write", !.serial = serial, !.floor = 0])
    BY <1>6 DEF UpdateDraw
  <2>3. PICK r : r = [jobs[p] EXCEPT !.stage = "write", !.serial = serial, !.floor = 0]
    OBVIOUS
  <2>4. r.stage = "write"
    BY <2>1, <2>3 DEF SaveJob
  <2>5. JobStep(p, r)
    BY <1>6, <2>4 DEF JobStep, UpdateDraw, At
  <2> QED
    BY <1>1, <2>2, <2>3, <2>5
<1>7. ASSUME NEW p \in Procs,
             DeleteCommit(p) \/ DeleteSubRow(p) \/ SyncCommit(p) \/ SaveFails(p)
      PROVE  Goal
  <2>1. Goes(p, Free)
    BY <1>7 DEF DeleteCommit, DeleteSubRow, SyncCommit, SaveFails, Done
  <2> QED
    BY <1>3, <2>1 DEF Free
<1>8. ASSUME NEW p \in Procs, DeleteSubAccounts(p) PROVE Goal
  <2>1. PICK r : r = [stage |-> "deleteSub", sub |-> jobs[p].sub]
    OBVIOUS
  <2> QED
    BY <1>3, <1>8, <2>1 DEF DeleteSubAccounts
<1>9. ASSUME NEW p \in Procs, NEW a \in Accounts, DeleteRead(p, a) PROVE Goal
  <2>1. PICK r : r = [stage |-> "delete", account |-> a]
    OBVIOUS
  <2> QED
    BY <1>3, <1>9, <2>1 DEF DeleteRead
<1>10. ASSUME NEW p \in Procs, NEW s \in Subs, DeleteSubRead(p, s) PROVE Goal
  <2>1. PICK r : r = [stage |-> "deleteAccounts", sub |-> s, accounts |-> Filed(s)]
    OBVIOUS
  <2> QED
    BY <1>3, <1>10, <2>1 DEF DeleteSubRead
<1>12. ASSUME \/ \E s \in Subs : CreateSub(s) \/ \E t \in Subs : Reparent(s, t)
              \/ \E j \in Postings : Book(j)
              \/ \E c \in Parties : RemoveParty(c) \/ \E a \in Accounts : Link(c, a)
              \/ UNCHANGED chartVars
       PROVE  UNCHANGED jobs
  BY <1>12 DEF CreateSub, Reparent, Book, RemoveParty, Link, chartVars
<1>13. Goal \/ UNCHANGED jobs
  BY <1>2, <1>4, <1>5, <1>6, <1>7, <1>8, <1>9, <1>10, <1>12 DEF ChartNext
<1> QED
  BY <1>13 DEF Goal

\* A request that resolved the other side of an opening found another account.
OtherSideFound ==
    \A p \in Procs : jobs[p].stage = "resolved" /\ jobs[p].against # None
                        => jobs[p].against # jobs[p].account

LEMMA OtherSideKept ==
    ASSUME CodesInv, OtherSideFound, [ChartNext]_chartVars
    PROVE  OtherSideFound'
BY JobsMove DEF OtherSideFound, JobStep, Goes, CodesInv, ChartRows

\* The entries after a step: those of before, a voucher cancelled, one booked.
LEMMA EntriesKept ==
    ASSUME CodesInv, OtherSideFound, EntriesHaveAccounts, [ChartNext]_chartVars
    PROVE  EntriesHaveAccounts'
<1>1. \A v \in openings : v.account \in Accounts /\ v.against \in Accounts
  BY DEF CodesInv, ChartRows, IsOpening
<1>2. \A v \in openings : Live(v.account)' /\ Live(v.against)'
  BY <1>1, LiveStays DEF EntriesHaveAccounts, HasEntries
<1>3. \A i \in DOMAIN journals : journals[i].debit \in Accounts /\ journals[i].credit \in Accounts
  BY ChartAssumption DEF CodesInv, ChartRows
<1>4. \A i \in DOMAIN journals : \A a \in {journals[i].debit, journals[i].credit} : Live(a)'
  <2>1. ASSUME NEW i \in DOMAIN journals, NEW a \in {journals[i].debit, journals[i].credit}
        PROVE  HasEntries(a) /\ Live(a)
    BY DEF EntriesHaveAccounts, HasEntries
  <2> QED
    BY <1>3, <2>1, LiveStays
<1>5. ASSUME UNCHANGED <<openings, journals>> PROVE EntriesHaveAccounts'
  <2>1. \A v \in openings : v.account # v.against
    BY DEF EntriesHaveAccounts
  <2> QED
    BY <1>2, <1>4, <1>5, <2>1 DEF EntriesHaveAccounts, Live
<1>6. ASSUME NEW j \in Postings, Book(j) PROVE EntriesHaveAccounts'
  <2>1. /\ Live(j.debit) /\ Live(j.credit) /\ journals' = Append(journals, j)
        /\ UNCHANGED <<accounts, openings>>
    BY <1>6 DEF Book
  <2>2. journals \in Seq(Postings)
    BY DEF CodesInv, ChartRows
  <2>3. ASSUME NEW i \in DOMAIN journals' PROVE journals'[i] = j \/ (i \in DOMAIN journals /\ journals'[i] = journals[i])
    BY <2>1, <2>2
  <2>4. \A i \in DOMAIN journals' :
           accounts[journals'[i].debit].status \in {"active", "inactive"}
             /\ accounts[journals'[i].credit].status \in {"active", "inactive"}
    BY <2>1, <2>3 DEF EntriesHaveAccounts, Live
  <2> QED
    BY <2>1, <2>4 DEF EntriesHaveAccounts, Live
<1>7. ASSUME NEW p \in Procs, SyncCommit(p) PROVE EntriesHaveAccounts'
  <2>1. PICK r : r = jobs[p]
    OBVIOUS
  <2>2. r.stage = "resolved" /\ UNCHANGED <<accounts, journals>>
    BY <1>7, <2>1, SyncSteps
  <2>3. PICK v : SyncMakes(r, v)
    BY <1>7, <2>1, SyncSteps
  <2>4. ASSUME NEW w \in openings'
        PROVE  w.account # w.against /\ Live(w.account) /\ Live(w.against)
    <3>1. CASE w \in openings
      BY <3>1 DEF EntriesHaveAccounts
    <3>2. CASE v \in openings /\ w = [v EXCEPT !.posted = FALSE]
      <4>1. IsOpening(v)
        BY <3>2 DEF CodesInv, ChartRows
      <4>2. w.account = v.account /\ w.against = v.against
        BY <3>2, <4>1, CancelledShape
      <4> QED
        BY <3>2, <4>2 DEF EntriesHaveAccounts
    <3>3. CASE /\ r.against # None /\ Live(r.account) /\ Live(r.against)
               /\ w = Opened(r.account, r.against, r.amount)
      <4>1. r.against # r.account
        BY <2>1, <2>2, <3>3 DEF OtherSideFound
      <4>2. w.account = r.account /\ w.against = r.against
        BY <3>3 DEF Opened
      <4> QED
        BY <3>3, <4>1, <4>2
    <3>4. \/ w \in openings
          \/ v # None /\ w \in TraceRemoved(v)
          \/ /\ r.against # None /\ Live(r.account) /\ Live(r.against)
             /\ w = Opened(r.account, r.against, r.amount)
      BY <2>3 DEF SyncMakes
    <3>5. v # None /\ w \in TraceRemoved(v)
            => w \in openings \/ (v \in openings /\ w = [v EXCEPT !.posted = FALSE])
      BY <2>3 DEF SyncMakes, TraceRemoved
    <3> QED
      BY <3>1, <3>2, <3>3, <3>4, <3>5
  <2>5. \A i \in DOMAIN journals : Live(journals[i].debit) /\ Live(journals[i].credit)
    BY DEF EntriesHaveAccounts
  <2> QED
    BY <2>2, <2>4, <2>5 DEF EntriesHaveAccounts, Live
<1>8. \/ UNCHANGED <<openings, journals>>
      \/ \E j \in Postings : Book(j)
      \/ \E p \in Procs : SyncCommit(p)
  BY DEF ChartNext, chartVars, tables, CreateRead, EditRead, DeleteRead, DeleteSubRead, UpdateDraw,
         CreateCommit, UpdateWrite, DeleteCommit, DeleteSubAccounts, DeleteSubRow, SyncRead,
         SaveFails, CreateSub, Reparent, RemoveParty, Link
<1> QED
  BY <1>5, <1>6, <1>7, <1>8

\* An entry never loses its account, and an opening is booked against another account
\* than its own, however deletions, edits and postings run into each other.
THEOREM EntriesKeepAccounts == ChartSpec => []EntriesHaveAccounts
<1>1. ChartInit => CodesInv /\ OtherSideFound /\ EntriesHaveAccounts
  <2>1. ChartInit => OtherSideFound /\ EntriesHaveAccounts
    BY DEF ChartInit, OtherSideFound, EntriesHaveAccounts, Free
  <2> QED
    BY <2>1, CodesAtStart
<1>2. CodesInv /\ OtherSideFound /\ EntriesHaveAccounts /\ [ChartNext]_chartVars
        => (CodesInv /\ OtherSideFound /\ EntriesHaveAccounts)'
  BY CodesKept, OtherSideKept, EntriesKept
<1> QED
  BY <1>1, <1>2, PTL DEF ChartSpec

-------------------------------------------------------------------------------
(* Opening balances.                                                        *)

\* No request writes an account whose opening another one has read and is about to book.
\* Saves may overlap in every other way.
SavesApart ==
    \A p, q \in Procs :
        jobs[p].stage \in {"create", "write"} /\ jobs[q].stage = "resolved"
            => jobs[p].account # jobs[q].account

\* No account has an opening at the start.
NoneOpened == \A a \in DOMAIN Charted : Charted[a].opening = 0

\* The amount that a request is going to book is still the one on the account.
AmountCurrent ==
    \A p \in Procs : jobs[p].stage = "resolved" =>
       \A a \in {jobs[p].account} : Live(a) => accounts[a].opening = jobs[p].amount

OpeningInv == CodesInv /\ AmountCurrent /\ BookedWhenTold

\* Only a save changes an opening, and it does so for one account.
LEMMA OpeningsStay ==
    ASSUME CodesInv, [ChartNext]_chartVars
    PROVE  \/ \A a \in Accounts : Live(a)' => Live(a) /\ accounts'[a].opening = accounts[a].opening
           \/ \E p \in Procs : CreateCommit(p) \/ UpdateWrite(p)
<1>0. ChartRows
  BY DEF CodesInv
<1>1. ASSUME NEW p \in Procs, DeleteCommit(p) \/ DeleteSubAccounts(p)
      PROVE  \A a \in Accounts : Live(a)' => Live(a) /\ accounts'[a].opening = accounts[a].opening
  <2>1. PICK set : Deletable(set) /\ Deleted(set)
    <3>1. CASE DeleteCommit(p)
      BY <3>1 DEF DeleteCommit
    <3>2. CASE DeleteSubAccounts(p)
      BY <3>2 DEF DeleteSubAccounts
    <3> QED
      BY <1>1, <3>1, <3>2
  <2>2. \A a \in set : Live(a)
    BY <2>1 DEF Deletable
  <2> QED
    BY <1>0, <2>1, <2>2, RowsDeleted
<1>2. ASSUME NEW s \in Subs, NEW t \in Subs, Reparent(s, t)
      PROVE  \A a \in Accounts : Live(a)' => Live(a) /\ accounts'[a].opening = accounts[a].opening
  <2>1. ASSUME NEW a \in Accounts
        PROVE  accounts'[a].status = accounts[a].status /\ accounts'[a].opening = accounts[a].opening
    BY <1>0, <1>2 DEF Reparent, ChartRows, AccountRow
  <2> QED
    BY <2>1 DEF Live
<1>3. UNCHANGED accounts
        => \A a \in Accounts : Live(a)' => Live(a) /\ accounts'[a].opening = accounts[a].opening
  BY DEF Live
<1>4. \/ UNCHANGED accounts
      \/ \E p \in Procs : CreateCommit(p) \/ UpdateWrite(p)
      \/ \E p \in Procs : DeleteCommit(p) \/ DeleteSubAccounts(p)
      \/ \E s \in Subs, t \in Subs : Reparent(s, t)
  BY DEF ChartNext, chartVars, tables, CreateRead, EditRead, DeleteRead, DeleteSubRead, UpdateDraw,
         DeleteSubRow, SyncRead, SyncCommit, SaveFails, CreateSub, Book, RemoveParty, Link
<1> QED
  BY <1>1, <1>2, <1>3, <1>4

\* What a save does to the accounts, the vouchers and the warnings.
LEMMA SaveTells ==
    ASSUME CodesInv, NEW p \in Procs, CreateCommit(p) \/ UpdateWrite(p)
    PROVE  \E a \in Accounts :
              /\ a = jobs[p].account
              /\ \A b \in Accounts \ {a} : accounts'[b] = accounts[b] /\ told'[b] = told[b]
              /\ accounts'[a].opening # 0 => told'[a] = FALSE
              /\ UNCHANGED openings
              /\ jobs[p].stage \in {"create", "write"}
              /\ jobs'[p].stage \in {"idle", "saved"}
              /\ \A q \in Procs \ {p} : jobs'[q] = jobs[q]
<1>0. ChartRows
  BY DEF CodesInv
<1>1. PICK r : r = jobs[p]
  OBVIOUS
<1>2. r \in CreateJob \cup SaveJob /\ r.stage \in {"create", "write"}
  BY <1>0, <1>1, JobShape DEF CreateCommit, UpdateWrite, At, ChartRows
<1>3. PICK a : a = r.account
  OBVIOUS
<1>4. a \in Accounts
  BY <1>2, <1>3 DEF CreateJob, SaveJob
<1>5. Saved(p, a, r.opening) /\ UNCHANGED openings
  BY <1>1, <1>3 DEF CreateCommit, UpdateWrite
<1>6. /\ accounts'[a].opening = r.opening
      /\ \A b \in Accounts \ {a} : accounts'[b] = accounts[b]
  BY <1>0, <1>1, <1>3, <1>4 DEF CreateCommit, UpdateWrite, ChartRows
<1>7. told'[a] = (r.opening = 0) /\ \A b \in Accounts \ {a} : told'[b] = told[b]
  BY <1>0, <1>4, <1>5 DEF Saved, ChartRows
<1>8. jobs'[p].stage \in {"idle", "saved"} /\ \A q \in Procs \ {p} : jobs'[q] = jobs[q]
  BY <1>0, <1>5 DEF Saved, Done, Goes, Free, ChartRows
<1> QED
  BY <1>1, <1>2, <1>3, <1>4, <1>5, <1>6, <1>7, <1>8

\* A save changes the opening of its own account, which nobody is about to book.
LEMMA AmountStays ==
    ASSUME SavesApart, CodesInv, AmountCurrent, [ChartNext]_chartVars
    PROVE  AmountCurrent'
<1>1. ASSUME NEW p \in Procs, CreateCommit(p) \/ UpdateWrite(p) PROVE AmountCurrent'
  <2>1. PICK a \in Accounts :
           /\ a = jobs[p].account
           /\ \A b \in Accounts \ {a} : accounts'[b] = accounts[b]
           /\ jobs[p].stage \in {"create", "write"} /\ jobs'[p].stage \in {"idle", "saved"}
           /\ \A q \in Procs \ {p} : jobs'[q] = jobs[q]
    BY <1>1, SaveTells
  <2>2. ASSUME NEW q \in Procs, jobs'[q].stage = "resolved"
        PROVE  /\ jobs'[q] = jobs[q] /\ jobs[q].stage = "resolved"
               /\ jobs[q].account \in Accounts \ {a}
    <3>1. q # p
      BY <2>1, <2>2
    <3>2. jobs'[q] = jobs[q] /\ jobs[q].stage = "resolved"
      BY <2>1, <2>2, <3>1
    <3>3. jobs[q].account \in Accounts
      BY <3>2, JobShape DEF CodesInv, ChartRows
    <3>4. jobs[q].account # a
      BY <2>1, <3>2 DEF SavesApart
    <3> QED BY <3>2, <3>3, <3>4
  <2>3. ASSUME NEW q \in Procs, jobs'[q].stage = "resolved"
        PROVE  \A b \in {jobs'[q].account} : Live(b)' => accounts'[b].opening = jobs'[q].amount
    <3>1. PICK r : r = jobs[q]
      OBVIOUS
    <3>2. jobs'[q] = r /\ r.stage = "resolved" /\ accounts'[r.account] = accounts[r.account]
      BY <2>1, <2>2, <2>3, <3>1
    <3>3. Live(r.account) => accounts[r.account].opening = r.amount
      BY <3>1, <3>2 DEF AmountCurrent
    <3> QED BY <3>2, <3>3 DEF Live
  <2> QED
    BY <2>3 DEF AmountCurrent
<1>2. ASSUME \A a \in Accounts : Live(a)' => Live(a) /\ accounts'[a].opening = accounts[a].opening
      PROVE  AmountCurrent'
  <2>1. ASSUME NEW q \in Procs, jobs'[q] = jobs[q], jobs[q].stage = "resolved"
        PROVE  \A a \in {jobs[q].account} : Live(a)' => accounts'[a].opening = jobs[q].amount
    <3>1. jobs[q].account \in Accounts
      BY <2>1, JobShape DEF CodesInv, ChartRows
    <3> QED
      BY <1>2, <2>1, <3>1 DEF AmountCurrent
  <2>2. ASSUME NEW p \in Procs, NEW r, Goes(p, r), JobStep(p, r), r.stage = "resolved"
        PROVE  \A a \in {r.account} : Live(a)' => accounts'[a].opening = r.amount
    BY <2>2 DEF JobStep
  <2>3. CASE UNCHANGED jobs
    BY <2>1, <2>3 DEF AmountCurrent
  <2>4. ASSUME NEW p \in Procs, NEW r, Goes(p, r), JobStep(p, r) PROVE AmountCurrent'
    <3>1. jobs'[p] = r /\ \A q \in Procs \ {p} : jobs'[q] = jobs[q]
      BY <2>4 DEF Goes, CodesInv, ChartRows
    <3>2. ASSUME NEW q \in Procs, jobs'[q].stage = "resolved"
          PROVE  \A a \in {jobs'[q].account} : Live(a)' => accounts'[a].opening = jobs'[q].amount
      BY <2>1, <2>2, <2>4, <3>1, <3>2
    <3> QED
      BY <3>2 DEF AmountCurrent
  <2> QED
    BY <2>3, <2>4, JobsMove
<1> QED
  BY <1>1, <1>2, OpeningsStay

\* A sync that ends without a warning leaves a posted voucher with the amount.
LEMMA BookedAfterSync ==
    ASSUME CodesInv, AmountCurrent, BookedWhenTold, NEW p \in Procs, SyncCommit(p)
    PROVE  BookedWhenTold'
<1>1. PICK r : r = jobs[p]
  OBVIOUS
<1>2. r.stage = "resolved" /\ UNCHANGED accounts
  BY <1>1, SyncSteps
<1>3. PICK v : SyncMakes(r, v)
  BY <1>1, SyncSteps
<1>4. PICK c : c = r.account
  OBVIOUS
<1>5. c \in Accounts
  BY <1>1, <1>2, <1>4, JobShape DEF CodesInv, ChartRows
<1>6. Live(c) => accounts[c].opening = r.amount
  BY <1>1, <1>2, <1>4 DEF AmountCurrent
<1>7. ASSUME NEW a \in Accounts \ {c}, Live(a), told'[a], accounts[a].opening # 0
      PROVE  \E w \in openings' : w.posted /\ w.account = a /\ w.amount = accounts[a].opening
  <2>1. told'[a] = told[a]
    BY <1>3, <1>4, <1>5 DEF SyncMakes, CodesInv, ChartRows
  <2>2. PICK w \in openings : w.posted /\ w.account = a /\ w.amount = accounts[a].opening
    BY <1>7, <2>1 DEF BookedWhenTold
  <2>3. w # v \/ v = None
    BY <1>3, <1>4, <2>2 DEF SyncMakes
  <2>4. w \in openings'
    BY <1>3, <2>2, <2>3 DEF SyncMakes, TraceRemoved
  <2> QED
    BY <2>2, <2>4
<1>8. ASSUME Live(c), told'[c], accounts[c].opening # 0
      PROVE  \E w \in openings' : w.posted /\ w.account = c /\ w.amount = accounts[c].opening
  <2>1. PICK n : n = r.amount
    OBVIOUS
  <2>2. n # 0 /\ accounts[c].opening = n
    BY <1>6, <1>8, <2>1
  <2>3. CASE Unchanged(v, n)
    BY <1>3, <1>4, <2>1, <2>2, <2>3 DEF SyncMakes, Unchanged
  <2>4. CASE ~Unchanged(v, n)
    <3>1. told'[c] = (r.against # None)
      BY <1>3, <1>4, <1>5, <2>1, <2>2, <2>4 DEF SyncMakes, CodesInv, ChartRows
    <3>2. Opened(c, r.against, n) \in openings'
      BY <1>3, <1>4, <1>8, <2>1, <2>2, <2>4, <3>1 DEF SyncMakes
    <3>3. /\ Opened(c, r.against, n).posted /\ Opened(c, r.against, n).account = c
          /\ Opened(c, r.against, n).amount = n
      BY DEF Opened
    <3> QED
      BY <2>2, <3>2, <3>3
  <2> QED
    BY <2>3, <2>4
<1> QED
  BY <1>2, <1>7, <1>8 DEF BookedWhenTold, Live

LEMMA BookedStays ==
    ASSUME CodesInv, AmountCurrent, BookedWhenTold, [ChartNext]_chartVars
    PROVE  BookedWhenTold'
<1>1. ASSUME NEW p \in Procs, CreateCommit(p) \/ UpdateWrite(p) PROVE BookedWhenTold'
  <2>1. PICK c \in Accounts :
              /\ \A b \in Accounts \ {c} : accounts'[b] = accounts[b] /\ told'[b] = told[b]
              /\ accounts'[c].opening # 0 => told'[c] = FALSE
              /\ UNCHANGED openings
    BY <1>1, SaveTells
  <2>2. ASSUME NEW a \in Accounts, Live(a)', told'[a], accounts'[a].opening # 0
        PROVE  \E v \in openings' :
                  v.posted /\ v.account = a /\ v.amount = accounts'[a].opening
    <3>1. a # c
      BY <2>1, <2>2
    <3>2. accounts'[a] = accounts[a] /\ told[a] /\ Live(a)
      BY <2>1, <2>2, <3>1 DEF Live
    <3>3. PICK v \in openings : v.posted /\ v.account = a /\ v.amount = accounts[a].opening
      BY <2>2, <3>2 DEF BookedWhenTold
    <3> QED
      BY <2>1, <3>2, <3>3
  <2> QED
    BY <2>2 DEF BookedWhenTold
<1>2. ASSUME \A a \in Accounts : Live(a)' => Live(a) /\ accounts'[a].opening = accounts[a].opening,
             UNCHANGED <<openings, told>>
      PROVE  BookedWhenTold'
  <2>1. ASSUME NEW a \in Accounts, Live(a)', told'[a], accounts'[a].opening # 0
        PROVE  \E v \in openings' :
                  v.posted /\ v.account = a /\ v.amount = accounts'[a].opening
    <3>1. PICK n : n = accounts[a].opening
      OBVIOUS
    <3>2. Live(a) /\ told[a] /\ n # 0 /\ accounts'[a].opening = n
      BY <1>2, <2>1, <3>1
    <3>3. PICK v \in openings : v.posted /\ v.account = a /\ v.amount = n
      BY <3>1, <3>2 DEF BookedWhenTold
    <3> QED
      BY <1>2, <3>2, <3>3
  <2> QED
    BY <2>1 DEF BookedWhenTold
<1>3. \/ UNCHANGED <<openings, told>>
      \/ \E p \in Procs : CreateCommit(p) \/ UpdateWrite(p)
      \/ \E p \in Procs : SyncCommit(p)
  BY DEF ChartNext, chartVars, tables, CreateRead, EditRead, DeleteRead, DeleteSubRead, UpdateDraw,
         DeleteCommit, DeleteSubAccounts, DeleteSubRow, SyncRead, SaveFails, CreateSub, Book,
         Reparent, RemoveParty, Link
<1> QED
  BY <1>1, <1>2, <1>3, BookedAfterSync, OpeningsStay

\* While no account is written whose opening another request is about to book, a save that
\* ends without a warning has the opening of the account in the books, and no later step of
\* anyone takes it out.
THEOREM OpeningsBooked ==
    NoneOpened => (ChartSpec /\ []SavesApart => []BookedWhenTold)
<1> SUFFICES ASSUME NoneOpened PROVE ChartSpec /\ []SavesApart => []BookedWhenTold
  OBVIOUS
<1>1. ChartInit => OpeningInv
  <2>1. ChartInit => AmountCurrent
    BY DEF ChartInit, AmountCurrent, Free
  <2>2. ASSUME ChartInit, NEW a \in Accounts PROVE accounts[a].opening = 0
    BY <2>2 DEF ChartInit, NoneOpened, Absent
  <2>3. ChartInit => BookedWhenTold
    BY <2>2 DEF BookedWhenTold
  <2> QED
    BY <2>1, <2>3, CodesAtStart DEF OpeningInv
<1>2. OpeningInv /\ SavesApart /\ [ChartNext]_chartVars => OpeningInv'
  BY CodesKept, AmountStays, BookedStays DEF OpeningInv
<1>3. OpeningInv => BookedWhenTold
  BY DEF OpeningInv
<1> QED
  BY <1>1, <1>2, <1>3, PTL DEF ChartSpec

-------------------------------------------------------------------------------
(* The statements.                                                          *)

\* The opening vouchers can be added up.
OpeningsCounted == IsFiniteSet(openings) /\ \A v \in openings : v.amount \in Int

\* What is counted of the journals can be added up.
LEMMA JournalsCount ==
    ASSUME ChartRows
    PROVE  /\ IsFiniteSet(DOMAIN journals)
           /\ \A i \in DOMAIN journals :
                 /\ journals[i].amount \in Nat /\ journals[i].day \in Days
                 /\ journals[i].day \in Nat
                 /\ journals[i].debit \in Accounts /\ journals[i].credit \in Accounts
<1>1. journals \in Seq(Postings)
  BY DEF ChartRows
<1>2. Len(journals) \in Nat /\ DOMAIN journals = 1..Len(journals)
  BY <1>1
<1>3. IsFiniteSet(1..Len(journals))
  BY <1>2, FS_Interval
<1>4. ASSUME NEW i \in DOMAIN journals PROVE journals[i] \in Postings
  BY <1>1, <1>2, <1>4
<1> QED
  BY <1>2, <1>3, <1>4, ChartAssumption, ReportsAssumption

LEMMA MovedType ==
    ASSUME ChartRows, NEW a, NEW counted \in SUBSET DOMAIN journals
    PROVE  /\ Moved(a, counted) \in Int
           /\ \A i \in counted : Effect(journals[i], a) \in Int
           /\ IsFiniteSet(counted)
<1>1. IsFiniteSet(counted)
  BY JournalsCount, FS_Subset
<1>2. ASSUME NEW i \in counted PROVE Effect(journals[i], a) \in Int
  BY <1>2, JournalsCount DEF Effect
<1>3. PICK f : f = [i \in counted |-> Effect(journals[i], a)]
  OBVIOUS
<1>4. SumFunctionOnSet(f, counted) \in Int
  BY <1>1, <1>2, <1>3, SumType
<1>5. Moved(a, counted) = SumFunctionOnSet(f, counted)
  BY <1>3 DEF Moved, SumFunction
<1> QED
  BY <1>1, <1>2, <1>4, <1>5

\* Journals that are counted in two parts.
LEMMA MovedParts ==
    ASSUME ChartRows, NEW a, NEW S \in SUBSET DOMAIN journals, NEW T \in SUBSET DOMAIN journals,
           S \cap T = {}
    PROVE  Moved(a, S \cup T) = Moved(a, S) + Moved(a, T)
<1>1. PICK f, g, h : /\ f = [i \in S |-> Effect(journals[i], a)]
                     /\ g = [i \in T |-> Effect(journals[i], a)]
                     /\ h = [i \in S \cup T |-> Effect(journals[i], a)]
  OBVIOUS
<1>2. /\ Moved(a, S) = SumFunctionOnSet(f, S) /\ Moved(a, T) = SumFunctionOnSet(g, T)
      /\ Moved(a, S \cup T) = SumFunctionOnSet(h, S \cup T)
  BY <1>1 DEF Moved, SumFunction
<1>3. IsFiniteSet(S) /\ IsFiniteSet(T)
  BY MovedType
<1>4. \A i \in S \cup T : h[i] \in Int
  BY <1>1, MovedType
<1>5. SumFunctionOnSet(h, S) = SumFunctionOnSet(f, S) /\ SumFunctionOnSet(h, T) = SumFunctionOnSet(g, T)
  <2>1. (\A i \in S : h[i] = f[i]) /\ (\A i \in T : h[i] = g[i])
    BY <1>1
  <2> QED
    BY <1>3, <2>1, SumEqual
<1>6. SumFunctionOnSet(h, S \cup T) = SumFunctionOnSet(h, S) + SumFunctionOnSet(h, T)
  BY <1>3, <1>4, SumUnion
<1> QED
  BY <1>2, <1>5, <1>6

\* What a period adds, whichever days it is cut at.
LEMMA Periods ==
    ASSUME ChartRows, NEW a, NEW from \in Nat, NEW to \in Nat, from <= to
    PROVE  /\ Moved(a, PostedIn(0, to)) = Moved(a, PostedIn(0, from - 1)) + Moved(a, PostedIn(from, to))
           /\ PostedIn(0, to) \in SUBSET DOMAIN journals
           /\ PostedIn(0, from - 1) \in SUBSET DOMAIN journals
           /\ PostedIn(from, to) \in SUBSET DOMAIN journals
<1>1. /\ PostedIn(0, to) \in SUBSET DOMAIN journals
      /\ PostedIn(0, from - 1) \in SUBSET DOMAIN journals
      /\ PostedIn(from, to) \in SUBSET DOMAIN journals
  BY DEF PostedIn
<1>2. 0..to = (0..(from - 1)) \cup (from..to) /\ (0..(from - 1)) \cap (from..to) = {}
  OBVIOUS
<1>3. PICK A, B, C : A = 0..to /\ B = 0..(from - 1) /\ C = from..to
  OBVIOUS
<1>4. A = B \cup C /\ B \cap C = {}
  BY <1>2, <1>3
<1>5. /\ PostedIn(0, to) = PostedIn(0, from - 1) \cup PostedIn(from, to)
      /\ PostedIn(0, from - 1) \cap PostedIn(from, to) = {}
  BY <1>3, <1>4 DEF PostedIn
<1> QED
  BY <1>1, <1>5, MovedParts

\* The entries of journals between active accounts add up to nothing.
LEMMA MovedCancels ==
    ASSUME ChartRows, EntriesHaveAccounts, NEW counted \in SUBSET DOMAIN journals,
           \A a \in Accounts : Live(a) => a \in Active
    PROVE  SumFunctionOnSet([a \in Active |-> Moved(a, counted)], Active) = 0
<1>0. IsFiniteSet(Active)
  BY ChartAssumption, FS_Subset DEF Active
<1>1. PICK F : F = [a \in Active |-> [i \in counted |-> Effect(journals[i], a)]]
  OBVIOUS
<1>2. IsFiniteSet(counted) /\ \A a \in Active, i \in counted : F[a][i] \in Int
  BY <1>1, MovedType
<1>3. PICK r, c : /\ r = [a \in Active |-> SumFunctionOnSet(F[a], counted)]
                  /\ c = [i \in counted |-> SumFunctionOnSet([a \in Active |-> F[a][i]], Active)]
  OBVIOUS
<1>4. SumFunctionOnSet(r, Active) = SumFunctionOnSet(c, counted)
  BY <1>0, <1>2, <1>3, SumSwap
<1>5. ASSUME NEW i \in counted PROVE c[i] = 0
  <2>1. PICK d, e, n : d = journals[i].debit /\ e = journals[i].credit /\ n = journals[i].amount
    OBVIOUS
  <2>2. d \in Active /\ e \in Active /\ n \in Int
    BY <1>5, <2>1, JournalsCount DEF EntriesHaveAccounts
  <2>3. [a \in Active |-> F[a][i]] = [a \in Active |-> (IF d = a THEN n ELSE 0) - (IF e = a THEN n ELSE 0)]
    BY <1>1, <2>1 DEF Effect
  <2> QED
    BY <1>0, <1>3, <2>2, <2>3, SidesCancel
<1>6. SumFunctionOnSet(c, counted) = 0
  BY <1>2, <1>5, SumZero
<1>7. [a \in Active |-> Moved(a, counted)] = r
  <2>1. \A a \in Active : Moved(a, counted) = r[a]
    BY <1>1, <1>3 DEF Moved, SumFunction
  <2> QED
    BY <1>3, <2>1
<1> QED
  BY <1>4, <1>6, <1>7

\* What the opening vouchers add can be added up, and comes to nothing over all accounts.
LEMMA OpeningType ==
    ASSUME OpeningsCounted, NEW a
    PROVE  /\ OnOpeningVouchers(a) \in Int
           /\ IsFiniteSet({v \in openings : v.posted})
           /\ \A v \in openings : OpeningEffect(v, a) \in Int
<1>1. IsFiniteSet({v \in openings : v.posted})
  BY FS_Subset DEF OpeningsCounted
<1>2. \A v \in openings : OpeningEffect(v, a) \in Int
  BY DEF OpeningEffect, OpeningsCounted
<1>3. PICK P : P = {v \in openings : v.posted}
  OBVIOUS
<1>4. PICK f : f = [v \in P |-> OpeningEffect(v, a)]
  OBVIOUS
<1>5. SumFunctionOnSet(f, P) \in Int
  BY <1>1, <1>2, <1>3, <1>4, SumType
<1> QED
  BY <1>1, <1>2, <1>3, <1>4, <1>5 DEF OnOpeningVouchers, SumFunction

LEMMA OpeningsCancel ==
    ASSUME OpeningsCounted, EntriesHaveAccounts, ChartRows,
           \A a \in Accounts : Live(a) => a \in Active
    PROVE  SumFunctionOnSet([a \in Active |-> OnOpeningVouchers(a)], Active) = 0
<1>0. IsFiniteSet(Active)
  BY ChartAssumption, FS_Subset DEF Active
<1>1. PICK P : P = {v \in openings : v.posted}
  OBVIOUS
<1>2. PICK F : F = [a \in Active |-> [v \in P |-> OpeningEffect(v, a)]]
  OBVIOUS
<1>3. IsFiniteSet(P) /\ \A a \in Active, v \in P : F[a][v] \in Int
  BY <1>1, <1>2, OpeningType
<1>4. PICK r, c : /\ r = [a \in Active |-> SumFunctionOnSet(F[a], P)]
                  /\ c = [v \in P |-> SumFunctionOnSet([a \in Active |-> F[a][v]], Active)]
  OBVIOUS
<1>5. SumFunctionOnSet(r, Active) = SumFunctionOnSet(c, P)
  BY <1>0, <1>3, <1>4, SumSwap
<1>6. ASSUME NEW v \in P PROVE c[v] = 0
  <2>1. PICK d, e, n : d = v.account /\ e = v.against /\ n = v.amount
    OBVIOUS
  <2>2. d \in Active /\ e \in Active /\ n \in Int
    <3>1. v \in openings /\ IsOpening(v)
      BY <1>1, <1>6 DEF ChartRows
    <3> QED
      BY <2>1, <3>1 DEF EntriesHaveAccounts, IsOpening, OpeningsCounted
  <2>3. [a \in Active |-> F[a][v]] = [a \in Active |-> (IF d = a THEN n ELSE 0) - (IF e = a THEN n ELSE 0)]
    BY <1>2, <2>1 DEF OpeningEffect
  <2> QED
    BY <1>0, <1>4, <2>2, <2>3, SidesCancel
<1>7. SumFunctionOnSet(c, P) = 0
  BY <1>3, <1>6, SumZero
<1>8. [a \in Active |-> OnOpeningVouchers(a)] = r
  <2>1. \A a \in Active : OnOpeningVouchers(a) = r[a]
    BY <1>1, <1>2, <1>4 DEF OnOpeningVouchers, SumFunction
  <2> QED
    BY <1>4, <2>1
<1> QED
  BY <1>5, <1>7, <1>8

LEMMA BalancesType ==
    ASSUME ChartRows, OpeningsCounted, NEW a \in Accounts, NEW d \in Nat
    PROVE  /\ AccountOpening(a) \in Int
           /\ Moved(a, PostedIn(0, d)) \in Int
           /\ TrialRow(a, d) \in Int
           /\ SheetBalance(a, d) \in Int
           /\ OnOpeningVouchers(a) \in Int
<1>1. accounts[a].opening \in Int
  BY DEF ChartRows, AccountRow
<1>2. OnOpeningVouchers(a) \in Int
  BY OpeningType
<1>3. AccountOpening(a) \in Int
  BY <1>1, <1>2 DEF AccountOpening
<1>4. PostedIn(0, d) \in SUBSET DOMAIN journals
  BY DEF PostedIn
<1>5. Moved(a, PostedIn(0, d)) \in Int
  BY <1>4, MovedType
<1>6. TrialRow(a, d) \in Int
  BY <1>3, <1>5 DEF TrialRow
<1> QED
  BY <1>2, <1>3, <1>5, <1>6 DEF SheetBalance

\* The trial balance balances, and so does what the sheet shows in all.
LEMMA TrialBalances ==
    ASSUME ChartRows, OpeningsCounted, EntriesHaveAccounts, Complete, NEW d \in Nat
    PROVE  /\ TrialTotal(d) = 0
           /\ SumFunctionOnSet([a \in Active |-> SheetBalance(a, d)], Active) = 0
<1>0. IsFiniteSet(Active)
  BY ChartAssumption, FS_Subset DEF Active
<1>1. \A a \in Accounts : Live(a) => a \in Active
  BY DEF Complete, Active
<1>2. PICK f, g, t, s : /\ f = [a \in Active |-> OnOpeningVouchers(a)]
                        /\ g = [a \in Active |-> Moved(a, PostedIn(0, d))]
                        /\ t = [a \in Active |-> TrialRow(a, d)]
                        /\ s = [a \in Active |-> SheetBalance(a, d)]
  OBVIOUS
<1>3. ASSUME NEW a \in Active
      PROVE  f[a] \in Int /\ g[a] \in Int /\ t[a] = f[a] + g[a] /\ t[a] \in Int /\ s[a] = t[a] + f[a]
  <2>1. a \in Accounts /\ Live(a)
    BY <1>3 DEF Active, Live
  <2>2. AccountOpening(a) = OnOpeningVouchers(a)
    BY <2>1 DEF Complete, AccountOpening
  <2>3. t[a] = f[a] + g[a]
    BY <1>2, <2>2 DEF TrialRow
  <2>4. s[a] = t[a] + f[a]
    BY <1>2 DEF SheetBalance
  <2> QED
    BY <1>2, <2>1, <2>3, <2>4, BalancesType
<1>4. PostedIn(0, d) \in SUBSET DOMAIN journals
  BY DEF PostedIn
<1>5. SumFunctionOnSet(g, Active) = 0
  BY <1>1, <1>2, <1>4, MovedCancels
<1>6. SumFunctionOnSet(f, Active) = 0
  BY <1>1, <1>2, OpeningsCancel
<1>7. SumFunctionOnSet(t, Active) = SumFunctionOnSet(f, Active) + SumFunctionOnSet(g, Active)
  BY <1>0, <1>3, SumPlus
<1>8. SumFunctionOnSet(s, Active) = SumFunctionOnSet(t, Active) + SumFunctionOnSet(f, Active)
  BY <1>0, <1>3, SumPlus
<1>9. TrialTotal(d) = SumFunctionOnSet(t, Active)
  BY <1>2 DEF TrialTotal, SumFunction
<1> QED
  BY <1>2, <1>5, <1>6, <1>7, <1>8, <1>9

LEMMA ActivesOf ==
    ASSUME NEW types
    PROVE  /\ ActiveOf(types) \in SUBSET Active
           /\ ActiveOf(types) \in SUBSET Accounts
           /\ IsFiniteSet(ActiveOf(types))
<1>1. ActiveOf(types) \in SUBSET Active /\ Active \in SUBSET Accounts
  BY DEF ActiveOf, Active
<1>2. IsFiniteSet(ActiveOf(types))
  BY <1>1, ChartAssumption, FS_Subset
<1> QED
  BY <1>1, <1>2

\* The balance sheet balances with the profit that was not closed.
LEMMA SheetBalances ==
    ASSUME ChartRows, CodesCounted, OpeningsCounted, EntriesHaveAccounts, Complete, NEW d \in Nat
    PROVE  SheetSide({"ASSET"}, d) = Unclosed(d) - SheetSide({"LIABILITY", "EQUITY"}, d)
<1>1. PICK A, L, R : /\ A = ActiveOf({"ASSET"}) /\ L = ActiveOf({"LIABILITY", "EQUITY"})
                     /\ R = ActiveOf({"REVENUE", "EXPENSE"})
  OBVIOUS
<1>2. PICK s : s = [a \in Active |-> SheetBalance(a, d)]
  OBVIOUS
<1>3. SumFunctionOnSet(s, Active) = 0
  BY <1>2, TrialBalances
<1>4. ASSUME NEW a \in Active PROVE Type(a) \in Types
  <2>1. a \in Accounts /\ Coded(a)
    BY <1>4 DEF Active, Coded
  <2> QED
    BY <2>1, ChartAssumption DEF CodesCounted, Type
<1>5. /\ Active = A \cup (L \cup R) /\ A \cap (L \cup R) = {} /\ L \cap R = {}
      /\ A \in SUBSET Active /\ L \in SUBSET Active /\ R \in SUBSET Active
  BY <1>1, <1>4 DEF ActiveOf, Types
<1>6. IsFiniteSet(A) /\ IsFiniteSet(L) /\ IsFiniteSet(R) /\ IsFiniteSet(L \cup R)
  <2>1. IsFiniteSet(Active)
    BY ChartAssumption, FS_Subset DEF Active
  <2>2. L \cup R \in SUBSET Active
    BY <1>5
  <2> QED
    BY <1>5, <2>1, <2>2, FS_Subset
<1>7. \A a \in Active : s[a] = SheetBalance(a, d) /\ s[a] \in Int
  BY <1>2, BalancesType DEF Active
<1>8. SumFunctionOnSet(s, L \cup R) = SumFunctionOnSet(s, L) + SumFunctionOnSet(s, R)
  BY <1>5, <1>6, <1>7, SumUnion
<1>9. SumFunctionOnSet(s, A \cup (L \cup R)) = SumFunctionOnSet(s, A) + SumFunctionOnSet(s, L \cup R)
  BY <1>5, <1>6, <1>7, SumUnion
<1>10. SheetSide({"ASSET"}, d) = SumFunctionOnSet(s, A)
  <2>1. PICK f : f = [a \in A |-> SheetBalance(a, d)]
    OBVIOUS
  <2>2. \A a \in A : f[a] = s[a]
    BY <1>5, <1>7, <2>1
  <2>3. SumFunctionOnSet(f, A) = SumFunctionOnSet(s, A)
    BY <1>6, <2>2, SumEqual
  <2> QED
    BY <1>1, <2>1, <2>3 DEF SheetSide, SumFunction
<1>11. SheetSide({"LIABILITY", "EQUITY"}, d) = SumFunctionOnSet(s, L)
  <2>1. PICK f : f = [a \in L |-> SheetBalance(a, d)]
    OBVIOUS
  <2>2. \A a \in L : f[a] = s[a]
    BY <1>5, <1>7, <2>1
  <2>3. SumFunctionOnSet(f, L) = SumFunctionOnSet(s, L)
    BY <1>6, <2>2, SumEqual
  <2> QED
    BY <1>1, <2>1, <2>3 DEF SheetSide, SumFunction
<1>12. Unclosed(d) = 0 - SumFunctionOnSet(s, R)
  <2>1. PICK f : f = [a \in R |-> 0 - SheetBalance(a, d)]
    OBVIOUS
  <2>2. \A a \in R : s[a] \in Int /\ f[a] = 0 - s[a]
    BY <1>5, <1>7, <2>1
  <2>3. SumFunctionOnSet(f, R) = 0 - SumFunctionOnSet(s, R)
    BY <1>6, <2>2, SumNegative
  <2> QED
    BY <1>1, <2>1, <2>3 DEF Unclosed, SumFunction
<1>13. /\ SumFunctionOnSet(s, A) \in Int /\ SumFunctionOnSet(s, L) \in Int
       /\ SumFunctionOnSet(s, R) \in Int
  BY <1>5, <1>6, <1>7, SumType
<1>14. SumFunctionOnSet(s, A) + (SumFunctionOnSet(s, L) + SumFunctionOnSet(s, R)) = 0
  BY <1>3, <1>5, <1>8, <1>9
<1> QED
  BY <1>10, <1>11, <1>12, <1>13, <1>14

\* The ledger of a period ends where the trial balance and the close of the day are.
LEMMA LedgersMeet ==
    ASSUME ChartRows, OpeningsCounted, NEW a \in Accounts,
           NEW from \in Nat, NEW to \in Nat, from <= to
    PROVE  /\ LedgerClosing(a, from, to) = TrialRow(a, to)
           /\ LedgerClosing(a, from, to) = ClosingCash(a, to)
           /\ LedgerOpening(a, to + 1) = LedgerClosing(a, from, to)
<1>1. PICK o, all, old, new : /\ o = AccountOpening(a) /\ all = Moved(a, PostedIn(0, to))
                              /\ old = Moved(a, PostedIn(0, from - 1))
                              /\ new = Moved(a, PostedIn(from, to))
  OBVIOUS
<1>2. o \in Int /\ old \in Int /\ new \in Int /\ all = old + new
  BY <1>1, Periods, BalancesType, MovedType
<1>3. /\ LedgerClosing(a, from, to) = (o + old) + new
      /\ TrialRow(a, to) = o + all /\ ClosingCash(a, to) = o + all
  BY <1>1 DEF LedgerClosing, LedgerOpening, TrialRow, ClosingCash
<1>4. (to + 1) - 1 = to
  OBVIOUS
<1>5. LedgerOpening(a, to + 1) = o + all
  BY <1>1, <1>4 DEF LedgerOpening
<1>6. (o + old) + new = o + all
  BY <1>2
<1> QED
  BY <1>3, <1>5, <1>6

\* The result of a period is what the sheet gained.
LEMMA ResultsAddUp ==
    ASSUME ChartRows, OpeningsCounted, NEW from \in Nat, NEW to \in Nat, from <= to
    PROVE  NetProfit(from, to) = Unclosed(to) - Unclosed(from - 1)
<1>1. PICK R : R = ActiveOf({"REVENUE", "EXPENSE"})
  OBVIOUS
<1>2. PICK f, g, h : /\ f = [a \in R |-> 0 - Moved(a, PostedIn(from, to))]
                     /\ g = [a \in R |-> 0 - SheetBalance(a, from - 1)]
                     /\ h = [a \in R |-> 0 - SheetBalance(a, to)]
  OBVIOUS
<1>3. ASSUME NEW a \in R PROVE f[a] \in Int /\ g[a] \in Int /\ h[a] = f[a] + g[a]
  <2>0. a \in Accounts
    BY <1>1, <1>3, ActivesOf
  <2>1. PICK o, all, old, new, v :
              /\ o = AccountOpening(a) /\ all = Moved(a, PostedIn(0, to))
              /\ old = Moved(a, PostedIn(0, from - 1)) /\ new = Moved(a, PostedIn(from, to))
              /\ v = OnOpeningVouchers(a)
    OBVIOUS
  <2>2. o \in Int /\ old \in Int /\ new \in Int /\ v \in Int /\ all = old + new
    BY <2>0, <2>1, Periods, BalancesType, MovedType
  <2>3. SheetBalance(a, from - 1) = (o + old) + v /\ SheetBalance(a, to) = (o + all) + v
    BY <2>1 DEF SheetBalance, TrialRow
  <2>4. f[a] = 0 - new /\ g[a] = 0 - ((o + old) + v) /\ h[a] = 0 - ((o + all) + v)
    BY <1>2, <2>1, <2>3
  <2> QED
    BY <2>2, <2>4
<1>4. IsFiniteSet(R)
  BY <1>1, ActivesOf
<1>5. SumFunctionOnSet(h, R) = SumFunctionOnSet(f, R) + SumFunctionOnSet(g, R)
  BY <1>3, <1>4, SumPlus
<1>6. SumFunctionOnSet(f, R) \in Int /\ SumFunctionOnSet(g, R) \in Int
  BY <1>3, <1>4, SumType
<1>7. /\ NetProfit(from, to) = SumFunctionOnSet(f, R)
      /\ Unclosed(from - 1) = SumFunctionOnSet(g, R)
      /\ Unclosed(to) = SumFunctionOnSet(h, R)
  BY <1>1, <1>2 DEF NetProfit, Unclosed, SumFunction
<1> QED
  BY <1>5, <1>6, <1>7

\* The balance that guards read, while every journal names a document that exists.
LEMMA GuardsReadTheTrial ==
    ASSUME ChartRows, \A i \in DOMAIN journals : journals[i].doc # Bare /\ ~Orphan(journals[i]),
           NEW a \in Accounts
    PROVE  AccountBalance(a) = TrialRow(a, LastDay)
<1>1. ASSUME NEW i \in DOMAIN journals PROVE journals[i].day \in 0..LastDay
  <2>1. journals[i].day \in Days /\ journals[i].day \in Nat
    BY <1>1, JournalsCount
  <2>2. Days \in SUBSET Int /\ Days # {} /\ IsFiniteSet(Days)
    BY <2>1, ReportsAssumption
  <2>3. LastDay \in Int /\ journals[i].day <= LastDay
    BY <2>1, <2>2, MaxIsGreatest DEF LastDay
  <2> QED
    BY <2>1, <2>3
<1>2. {i \in DOMAIN journals : journals[i].doc # Bare} = PostedIn(0, LastDay)
  BY <1>1 DEF PostedIn
<1> QED
  BY <1>2 DEF AccountBalance, TrialRow

LEMMA StatementsMeet ==
    ASSUME CodesInv, OpeningsCounted, EntriesHaveAccounts
    PROVE  StatementsAgree
<1>0. ChartRows /\ CodesCounted
  BY DEF CodesInv
<1>1. \A d \in Days : d \in Nat
  BY ReportsAssumption
<1>2. ASSUME Complete, NEW d \in Days
      PROVE  /\ TrialTotal(d) = 0
             /\ SheetSide({"ASSET"}, d) = Unclosed(d) - SheetSide({"LIABILITY", "EQUITY"}, d)
  BY <1>0, <1>1, <1>2, TrialBalances, SheetBalances
<1>3. ASSUME NEW from \in Days, NEW to \in Days, from <= to
      PROVE  /\ \A a \in Accounts : Live(a) =>
                  /\ LedgerClosing(a, from, to) = TrialRow(a, to)
                  /\ LedgerClosing(a, from, to) = ClosingCash(a, to)
                  /\ LedgerOpening(a, to + 1) = LedgerClosing(a, from, to)
             /\ NetProfit(from, to) = Unclosed(to) - Unclosed(from - 1)
  BY <1>0, <1>1, <1>3, LedgersMeet, ResultsAddUp
<1>4. ASSUME \A i \in DOMAIN journals : journals[i].doc # Bare /\ ~Orphan(journals[i])
      PROVE  \A a \in Accounts : Live(a) => AccountBalance(a) = TrialRow(a, LastDay)
  BY <1>0, <1>4, GuardsReadTheTrial
<1> QED
  BY <1>2, <1>3, <1>4 DEF StatementsAgree

\* A sync books one more voucher, or one less, for an amount that was read from the account.
LEMMA OpeningsStayCounted ==
    ASSUME CodesInv, OpeningsCounted, [ChartNext]_chartVars
    PROVE  OpeningsCounted'
<1>1. ASSUME NEW p \in Procs, SyncCommit(p) PROVE OpeningsCounted'
  <2>1. PICK r : r = jobs[p]
    OBVIOUS
  <2>2. r.amount \in Int
    BY <1>1, <2>1, SyncSteps, JobShape DEF CodesInv, ChartRows
  <2>3. PICK v : SyncMakes(r, v)
    BY <1>1, <2>1, SyncSteps
  <2>4. PICK o : o = Opened(r.account, r.against, r.amount)
    OBVIOUS
  <2>5. PICK w : w = [v EXCEPT !.posted = FALSE]
    OBVIOUS
  <2>6. openings' \subseteq openings \cup {w, o}
    BY <2>3, <2>4, <2>5 DEF SyncMakes, TraceRemoved
  <2>7. IsFiniteSet(openings \cup {w, o})
    BY PairIsFinite, FS_Union DEF OpeningsCounted
  <2>8. o.amount \in Int
    BY <2>2, <2>4 DEF Opened
  <2>9. w \in openings' => w \in openings \/ w = o \/ w.amount \in Int
    <3>1. CASE v \in openings
      <4>1. w.amount = v.amount
        BY <2>5, <3>1 DEF CodesInv, ChartRows, IsOpening
      <4> QED
        BY <3>1, <4>1 DEF OpeningsCounted
    <3>2. CASE v \notin openings
      <4>1. openings' \subseteq openings \cup {o}
        BY <2>3, <2>4, <3>2 DEF SyncMakes
      <4> QED
        BY <4>1
    <3> QED
      BY <3>1, <3>2
  <2>10. IsFiniteSet(openings')
    BY <2>6, <2>7, FS_Subset
  <2>11. \A x \in openings' : x.amount \in Int
    BY <2>6, <2>8, <2>9 DEF OpeningsCounted
  <2> QED
    BY <2>10, <2>11 DEF OpeningsCounted
<1>2. UNCHANGED openings \/ \E p \in Procs : SyncCommit(p)
  BY DEF ChartNext, chartVars, tables, CreateRead, EditRead, DeleteRead, DeleteSubRead, UpdateDraw,
         CreateCommit, UpdateWrite, DeleteCommit, DeleteSubAccounts, DeleteSubRow, SyncRead,
         SaveFails, CreateSub, Reparent, Book, RemoveParty, Link
<1> QED
  BY <1>1, <1>2 DEF OpeningsCounted

\* The statements agree with each other after any history of the chart, for any days,
\* amounts and accounts: the trial balance and the sheet balance once every opening is
\* booked, periods join, and their results add up to what the sheet shows.
THEOREM BooksBalance == ChartSpec => []StatementsAgree
<1> DEFINE BooksInv == CodesInv /\ OtherSideFound /\ EntriesHaveAccounts /\ OpeningsCounted
<1>1. ChartInit => BooksInv
  <2>1. ChartInit => OtherSideFound /\ EntriesHaveAccounts
    BY DEF ChartInit, OtherSideFound, EntriesHaveAccounts, Free
  <2>2. ChartInit => OpeningsCounted
    BY FS_EmptySet DEF ChartInit, OpeningsCounted
  <2> QED
    BY <2>1, <2>2, CodesAtStart
<1>2. BooksInv /\ [ChartNext]_chartVars => BooksInv'
  BY CodesKept, OtherSideKept, EntriesKept, OpeningsStayCounted
<1>3. BooksInv => StatementsAgree
  BY StatementsMeet
<1> HIDE DEF BooksInv
<1> QED
  BY <1>1, <1>2, <1>3, PTL DEF ChartSpec
=============================================================================
