----------------------------- MODULE Stock_proofs -----------------------------
(***************************************************************************)
(* The stock table for any items, locations, documents, quantities and     *)
(* prices, and any number of requests:                                     *)
(*   - every balance that is stored is the one its history gives, and so   *)
(*     is the average cost, up to rounding, as long as what a transaction  *)
(*     read of the stock still holds when it writes: the code has nothing  *)
(*     that makes it hold where transactions overlap;                      *)
(*   - as long as requests that overlap are about different documents of   *)
(*     the warehouse, whatever items and locations they share, no request  *)
(*     books a document twice, and the stock moved is what the documents   *)
(*     in force say.                                                       *)
(***************************************************************************)
EXTENDS Stock, Sums, TLAPS

\* Requests that are in progress together are about different documents.
DocumentsApart ==
    \A p, q \in Procs : p # q /\ reqs[p] # Idle /\ reqs[q] # Idle => reqs[p].id # reqs[q].id

-------------------------------------------------------------------------------
(* The rows.                                                                *)

Absent  == [status |-> "absent"]
DocRow  == [status : Statuses \ {"absent"}, form : Form]
Request == [stage : {"checked", "repost"}, op : Ops, id : Docs, row : DocRow, form : Form]

\* A row of the table of movements; costs and balances are whatever was computed.
IsMovement(m) ==
    /\ m = [doc |-> m.doc, loc |-> m.loc, qty |-> m.qty, cost |-> m.cost, bal |-> m.bal]
    /\ m.qty \in Int
IsTable(ms) == (\E S : ms \in Seq(S)) /\ \A i \in DOMAIN ms : IsMovement(ms[i])

RowsOK ==
    /\ docs \in [Docs -> {Absent} \cup DocRow]
    /\ IsTable(movements)
    /\ item = [average |-> item.average, loc |-> item.loc, qty |-> item.qty, cost |-> item.cost]
    /\ item.qty \in Int
    /\ booked = [d \in Docs |-> booked[d]]
    /\ reqs \in [Procs -> {Idle} \cup Request]

OnlyOne(ms) == \A i, j \in DOMAIN ms : ms[i].doc = Item /\ ms[j].doc = Item => i = j

\* At most one movement is that of the opening, and it says what the columns say.
OpeningHeld ==
    /\ OnlyOne(movements)
    /\ \A i \in DOMAIN movements :
          movements[i].doc = Item => movements[i].loc = item.loc /\ movements[i].qty = item.qty
    /\ Opened(movements) \/ item.qty = 0

\* What a request may do with a document of this status.
Allowed(op, d, row) ==
    /\ op \in {"post", "cancel", "submit", "reject"} => row.status \in {"draft", "pending"}
    /\ (row.status = "posted" /\ op = "edit") => d \in Purchases
    /\ (row.status = "posted" /\ op = "remove") => d \in Undone

\* What a document does to the stock is the same.
SameLine(r, s) ==
    /\ r.status = s.status
    /\ r.status # "absent" => /\ r.form.loc = s.form.loc /\ r.form.to = s.form.to
                              /\ r.form.qty = s.form.qty /\ r.form.cost = s.form.cost

\* A request in progress finds its document as it read and checked it, but for a
\* reference to a purchase that was deleted meanwhile.
ServedBy(q) ==
    /\ docs[q.id] \in DocRow
    /\ q.stage = "checked" => SameLine(docs[q.id], q.row) /\ Allowed(q.op, q.id, docs[q.id])
    /\ q.stage = "repost" => q.op = "post" /\ docs[q.id].status = "draft"
Served == \A p \in Procs : reqs[p] # Idle => ServedBy(reqs[p])

\* The movements of a document do what it says.
Follows(ms, d, row) == \A loc \in Locations : MovedBy(ms, d, loc) = Effect(d, row, loc)
DocsFollowed == \A d \in Docs : Follows(movements, d, docs[d])

-------------------------------------------------------------------------------
(* Sums over the table.                                                     *)

LEMMA Indices ==
    ASSUME NEW ms, IsTable(ms)
    PROVE  /\ Len(ms) \in Nat /\ DOMAIN ms = 1 .. Len(ms) /\ IsFiniteSet(DOMAIN ms)
           /\ \A A \in SUBSET (DOMAIN ms) : IsFiniteSet(A)
<1>1. Len(ms) \in Nat /\ DOMAIN ms = 1 .. Len(ms)
  BY DEF IsTable
<1>2. IsFiniteSet(1 .. Len(ms))
  BY <1>1, FS_Interval
<1> QED
  BY <1>1, <1>2, FS_Subset

LEMMA TotalType ==
    ASSUME NEW ms, IsTable(ms), NEW A \in SUBSET (DOMAIN ms)
    PROVE  Total(ms, A) \in Int
<1>1. PICK f : f = [i \in DOMAIN ms |-> ms[i].qty]
  OBVIOUS
<1>2. IsFiniteSet(A) /\ \A i \in A : f[i] \in Int
  BY <1>1, Indices DEF IsTable, IsMovement
<1>3. SumFunctionOnSet(f, A) \in Int
  BY <1>2, SumType
<1> QED
  BY <1>1, <1>3 DEF Total

LEMMA TotalEmpty == \A ms : Total(ms, {}) = 0
BY SumEmpty DEF Total

LEMMA TotalAdd ==
    ASSUME NEW ms, IsTable(ms), NEW A \in SUBSET (DOMAIN ms), NEW e \in DOMAIN ms, e \notin A
    PROVE  Total(ms, A \cup {e}) = Total(ms, A) + ms[e].qty
<1>1. PICK f : f = [i \in DOMAIN ms |-> ms[i].qty]
  OBVIOUS
<1>2. IsFiniteSet(A) /\ \A i \in A : f[i] \in Int
  BY <1>1, Indices DEF IsTable, IsMovement
<1>3. f[e] = ms[e].qty /\ f[e] \in Int
  BY <1>1 DEF IsTable, IsMovement
<1>4. SumFunctionOnSet(f, A \cup {e}) = SumFunctionOnSet(f, A) + f[e]
  BY <1>2, <1>3, SumAdd
<1> QED
  BY <1>1, <1>3, <1>4 DEF Total

\* Rows with the same quantities.
LEMMA TotalSame ==
    ASSUME NEW ms, IsTable(ms), NEW ns, IsTable(ns),
           NEW A, A \subseteq DOMAIN ms, A \subseteq DOMAIN ns,
           \A i \in A : ms[i].qty = ns[i].qty
    PROVE  Total(ns, A) = Total(ms, A)
<1>1. PICK f : f = [i \in DOMAIN ms |-> ms[i].qty]
  OBVIOUS
<1>2. PICK g : g = [i \in DOMAIN ns |-> ns[i].qty]
  OBVIOUS
<1>3. IsFiniteSet(A)
  BY Indices
<1>4. \A i \in A : g[i] = f[i]
  BY <1>1, <1>2
<1>5. SumFunctionOnSet(g, A) = SumFunctionOnSet(f, A)
  BY <1>3, <1>4, SumEqual
<1> QED
  BY <1>1, <1>2, <1>5 DEF Total

-------------------------------------------------------------------------------
(* What is appended.                                                        *)

Running(ms) == \A i \in DOMAIN ms : ms[i].bal = BalanceAt(ms, i)
At(ms, loc) == {i \in DOMAIN ms : ms[i].loc = loc}
Of(ms, doc, loc) == {i \in DOMAIN ms : ms[i].doc = doc /\ ms[i].loc = loc}
UpTo(ms, i) == {j \in 1 .. i : ms[j].loc = ms[i].loc}

LEMMA Appended ==
    ASSUME NEW ms, IsTable(ms), NEW m, IsMovement(m)
    PROVE  /\ IsTable(Append(ms, m))
           /\ DOMAIN Append(ms, m) = DOMAIN ms \cup {Len(ms) + 1}
           /\ Len(ms) + 1 \notin DOMAIN ms
           /\ Append(ms, m)[Len(ms) + 1] = m
           /\ \A i \in DOMAIN ms : Append(ms, m)[i] = ms[i]
<1>1. PICK S : ms \in Seq(S)
  BY DEF IsTable
<1>2. PICK T : T = S \cup {m}
  OBVIOUS
<1>3. ms \in Seq(T)
  <2>1. DOMAIN ms = 1 .. Len(ms) /\ Len(ms) \in Nat /\ \A i \in DOMAIN ms : ms[i] \in T
    BY <1>1, <1>2
  <2>2. ms = [i \in 1 .. Len(ms) |-> ms[i]]
    BY <1>1
  <2> QED
    BY <2>1, <2>2
<1>4. m \in T
  BY <1>2
<1>5. /\ Append(ms, m) \in Seq(T)
      /\ DOMAIN Append(ms, m) = 1 .. (Len(ms) + 1)
      /\ DOMAIN ms = 1 .. Len(ms) /\ Len(ms) \in Nat
      /\ Append(ms, m)[Len(ms) + 1] = m
      /\ \A i \in 1 .. Len(ms) : Append(ms, m)[i] = ms[i]
  BY <1>3, <1>4
<1>6. DOMAIN Append(ms, m) = DOMAIN ms \cup {Len(ms) + 1} /\ Len(ms) + 1 \notin DOMAIN ms
  BY <1>5
<1>7. \A i \in DOMAIN Append(ms, m) : IsMovement(Append(ms, m)[i])
  BY <1>5, <1>6 DEF IsTable
<1> QED
  BY <1>5, <1>6, <1>7 DEF IsTable

LEMMA BalanceType ==
    ASSUME NEW ms, IsTable(ms), NEW loc
    PROVE  Balance(ms, loc) \in Int
<1>1. At(ms, loc) \in SUBSET (DOMAIN ms)
  BY DEF At
<1> QED
  BY <1>1, TotalType DEF Balance, At

LEMMA MovedByType ==
    ASSUME NEW ms, IsTable(ms), NEW doc, NEW loc
    PROVE  MovedBy(ms, doc, loc) \in Int
<1>1. Of(ms, doc, loc) \in SUBSET (DOMAIN ms)
  BY DEF Of
<1> QED
  BY <1>1, TotalType DEF MovedBy, Of

LEMMA MovedByAppend ==
    ASSUME NEW ms, IsTable(ms), NEW m, IsMovement(m), NEW doc, NEW loc
    PROVE  MovedBy(Append(ms, m), doc, loc)
             = MovedBy(ms, doc, loc) + (IF m.doc = doc /\ m.loc = loc THEN m.qty ELSE 0)
<1>1. PICK ns : ns = Append(ms, m)
  OBVIOUS
<1>2. PICK e : e = Len(ms) + 1
  OBVIOUS
<1>3. /\ IsTable(ns) /\ DOMAIN ns = DOMAIN ms \cup {e} /\ e \notin DOMAIN ms
      /\ ns[e] = m /\ \A i \in DOMAIN ms : ns[i] = ms[i]
  BY <1>1, <1>2, Appended
<1>4. PICK A : A = Of(ms, doc, loc)
  OBVIOUS
<1>5. A \subseteq DOMAIN ms /\ A \subseteq DOMAIN ns /\ e \notin A /\ e \in DOMAIN ns
  BY <1>3, <1>4 DEF Of
<1>6. Total(ns, A) = Total(ms, A)
  <2>1. \A i \in A : ms[i].qty = ns[i].qty
    BY <1>3, <1>5
  <2> QED
    BY <1>3, <1>5, <2>1, TotalSame
<1>7. Total(ms, A) \in Int
  BY <1>5, TotalType
<1>8. CASE m.doc = doc /\ m.loc = loc
  <2>1. Of(ns, doc, loc) = A \cup {e}
    BY <1>3, <1>4, <1>8 DEF Of
  <2>2. Total(ns, A \cup {e}) = Total(ns, A) + m.qty
    BY <1>3, <1>5, TotalAdd
  <2> QED
    BY <1>1, <1>4, <1>6, <1>8, <2>1, <2>2 DEF MovedBy, Of
<1>9. CASE ~(m.doc = doc /\ m.loc = loc)
  <2>1. Of(ns, doc, loc) = A
    BY <1>3, <1>4, <1>9 DEF Of
  <2>2. MovedBy(ns, doc, loc) = Total(ms, A) /\ MovedBy(ms, doc, loc) = Total(ms, A)
    BY <1>4, <1>6, <2>1 DEF MovedBy, Of
  <2> QED
    BY <1>1, <1>7, <1>9, <2>2
<1> QED
  BY <1>8, <1>9

\* The balances of the rows before stay as they are, and the new row has its own.
LEMMA RunningAppend ==
    ASSUME NEW ms, IsTable(ms), Running(ms), NEW m, IsMovement(m),
           m.bal = Balance(ms, m.loc) + m.qty
    PROVE  Running(Append(ms, m))
<1>1. PICK ns : ns = Append(ms, m)
  OBVIOUS
<1>2. PICK e : e = Len(ms) + 1
  OBVIOUS
<1>3. /\ IsTable(ns) /\ DOMAIN ns = DOMAIN ms \cup {e} /\ e \notin DOMAIN ms
      /\ ns[e] = m /\ \A i \in DOMAIN ms : ns[i] = ms[i]
  BY <1>1, <1>2, Appended
<1>4. DOMAIN ms = 1 .. Len(ms) /\ Len(ms) \in Nat
  BY Indices
<1>5. ASSUME NEW i \in DOMAIN ms
      PROVE  ns[i].bal = BalanceAt(ns, i)
  <2>1. PICK A : A = UpTo(ms, i)
    OBVIOUS
  <2>2. 1 .. i \subseteq DOMAIN ms
    BY <1>4, <1>5
  <2>3. UpTo(ns, i) = A
    BY <1>3, <1>5, <2>1, <2>2 DEF UpTo
  <2>4. A \subseteq DOMAIN ms /\ A \subseteq DOMAIN ns /\ \A j \in A : ms[j].qty = ns[j].qty
    BY <1>3, <2>1, <2>2 DEF UpTo
  <2>5. Total(ns, A) = Total(ms, A)
    BY <1>3, <2>4, TotalSame
  <2>6. BalanceAt(ns, i) = BalanceAt(ms, i)
    BY <2>1, <2>3, <2>5 DEF BalanceAt, UpTo
  <2> QED
    BY <1>3, <1>5, <2>6 DEF Running
<1>6. ns[e].bal = BalanceAt(ns, e)
  <2>1. PICK A : A = At(ms, m.loc)
    OBVIOUS
  <2>2. A \subseteq DOMAIN ms /\ A \subseteq DOMAIN ns /\ \A j \in A : ms[j].qty = ns[j].qty
    BY <1>3, <2>1 DEF At
  <2>3. Total(ns, A) = Total(ms, A)
    BY <1>3, <2>2, TotalSame
  <2>4. UpTo(ns, e) = A \cup {e}
    <3>1. 1 .. e = DOMAIN ns
      BY <1>2, <1>3, <1>4
    <3> QED
      BY <1>3, <2>1, <3>1 DEF UpTo, At
  <2>5. Total(ns, A \cup {e}) = Total(ns, A) + m.qty
    <3>1. e \notin A /\ e \in DOMAIN ns
      BY <1>3, <2>2
    <3> QED
      BY <1>3, <2>2, <3>1, TotalAdd
  <2>6. BalanceAt(ns, e) = Balance(ms, m.loc) + m.qty
    BY <2>1, <2>3, <2>4, <2>5 DEF BalanceAt, Balance, UpTo, At
  <2> QED
    BY <1>3, <2>6
<1> QED
  BY <1>1, <1>3, <1>5, <1>6 DEF Running

-------------------------------------------------------------------------------
(* A row more or less.                                                      *)

\* Every balance is right, but for those of some locations.
RunningBut(ms, locs) ==
    \A i \in DOMAIN ms : ms[i].loc \notin locs => ms[i].bal = BalanceAt(ms, i)

\* Where a row of a table is when there is one more, at a.
Past(a, i) == IF i < a THEN i ELSE i + 1

\* ns is ms without its row a.
Without(ms, ns, a) ==
    /\ IsTable(ms) /\ IsTable(ns) /\ a \in DOMAIN ms
    /\ Len(ms) = Len(ns) + 1
    /\ \A i \in DOMAIN ns : ns[i] = ms[Past(a, i)]

LEMMA PastOrder ==
    \A a, i, j \in Int : /\ Past(a, i) \in Int /\ Past(a, i) # a
                         /\ i <= j <=> Past(a, i) <= Past(a, j)
                         /\ Past(a, i) = Past(a, j) => i = j
BY DEF Past

LEMMA PastRange ==
    ASSUME NEW n \in Nat, NEW a \in 1 .. (n + 1)
    PROVE  /\ \A i \in 1 .. n : Past(a, i) \in 1 .. (n + 1)
           /\ \A j \in 1 .. (n + 1) : j # a => \E i \in 1 .. n : j = Past(a, i)
<1>1. \A i \in 1 .. n : Past(a, i) \in 1 .. (n + 1)
  BY DEF Past
<1>2. ASSUME NEW j \in 1 .. (n + 1), j # a
      PROVE  \E i \in 1 .. n : j = Past(a, i)
  <2>1. CASE j < a
    <3>1. j \in 1 .. n /\ j = Past(a, j)
      BY <2>1 DEF Past
    <3> QED
      BY <3>1
  <2>2. CASE ~(j < a)
    <3>1. j - 1 \in 1 .. n /\ j = Past(a, j - 1)
      BY <1>2, <2>2 DEF Past
    <3> QED
      BY <3>1
  <2> QED
    BY <2>1, <2>2
<1> QED
  BY <1>1, <1>2

\* The rows of ns are those of ms but for a, in the same order.
LEMMA WithoutRows ==
    ASSUME NEW ms, NEW ns, NEW a, Without(ms, ns, a)
    PROVE  /\ IsTable(ms) /\ IsTable(ns)
           /\ DOMAIN ms \subseteq Int /\ DOMAIN ns \subseteq Int /\ a \in DOMAIN ms
           /\ \A i \in DOMAIN ns : /\ Past(a, i) \in DOMAIN ms /\ Past(a, i) # a
                                   /\ ns[i] = ms[Past(a, i)]
           /\ \A j \in DOMAIN ms : j # a => \E i \in DOMAIN ns : j = Past(a, i)
           /\ \A i, j \in DOMAIN ns : /\ i <= j <=> Past(a, i) <= Past(a, j)
                                      /\ Past(a, i) = Past(a, j) => i = j
<1>1. PICK n : n = Len(ns)
  OBVIOUS
<1>2. n \in Nat /\ DOMAIN ns = 1 .. n /\ DOMAIN ms = 1 .. (n + 1) /\ a \in 1 .. (n + 1)
  BY <1>1, Indices DEF Without
<1>3. DOMAIN ms \subseteq Int /\ DOMAIN ns \subseteq Int /\ a \in Int
  BY <1>2
<1>4. /\ \A i \in DOMAIN ns : Past(a, i) \in DOMAIN ms
      /\ \A j \in DOMAIN ms : j # a => \E i \in DOMAIN ns : j = Past(a, i)
  <2>1. /\ \A i \in 1 .. n : Past(a, i) \in 1 .. (n + 1)
        /\ \A j \in 1 .. (n + 1) : j # a => \E i \in 1 .. n : j = Past(a, i)
    BY <1>2, PastRange
  <2> QED
    BY <1>2, <2>1
<1>5. \A i \in DOMAIN ns : Past(a, i) # a
  BY <1>3, PastOrder
<1>6. \A i, j \in DOMAIN ns : /\ i <= j <=> Past(a, i) <= Past(a, j)
                              /\ Past(a, i) = Past(a, j) => i = j
  BY <1>3, PastOrder
<1>7. IsTable(ms) /\ IsTable(ns) /\ a \in DOMAIN ms
  BY DEF Without
<1>8. \A i \in DOMAIN ns : ns[i] = ms[Past(a, i)]
  BY DEF Without
<1>9. \A i \in DOMAIN ns : /\ Past(a, i) \in DOMAIN ms /\ Past(a, i) # a
                           /\ ns[i] = ms[Past(a, i)]
  BY <1>4, <1>5, <1>8
<1> QED
  BY <1>3, <1>4, <1>6, <1>7, <1>9

LEMMA Joined ==
    ASSUME NEW S, NEW s \in Seq(S), NEW t \in Seq(S), NEW ns, ns = s \o t
    PROVE  /\ ns \in Seq(S) /\ Len(ns) = Len(s) + Len(t)
           /\ \A i \in 1 .. Len(s) : ns[i] = s[i]
           /\ \A i \in 1 .. Len(t) : ns[Len(s) + i] = t[i]
OBVIOUS

LEMMA RemovedAt ==
    ASSUME NEW ms, IsTable(ms), NEW a \in DOMAIN ms
    PROVE  Without(ms, RemoveAt(ms, a), a)
<1>1. PICK S : ms \in Seq(S)
  BY DEF IsTable
<1>2. PICK n : n = Len(ms)
  OBVIOUS
<1>3. n \in Nat /\ DOMAIN ms = 1 .. n /\ a \in 1 .. n /\ \A i \in 1 .. n : ms[i] \in S
  BY <1>1, <1>2
<1>4. PICK l : l = SubSeq(ms, 1, a - 1)
  OBVIOUS
<1>5. PICK r : r = SubSeq(ms, a + 1, n)
  OBVIOUS
<1>6. l \in Seq(S) /\ Len(l) = a - 1 /\ \A i \in 1 .. (a - 1) : l[i] = ms[i]
  BY <1>1, <1>2, <1>3, <1>4
<1>7. r \in Seq(S) /\ Len(r) = n - a /\ \A i \in 1 .. (n - a) : r[i] = ms[a + i]
  BY <1>1, <1>2, <1>3, <1>5
<1>8. PICK ns : ns = l \o r
  OBVIOUS
<1>9. /\ ns \in Seq(S) /\ Len(ns) = n - 1
      /\ \A i \in 1 .. (a - 1) : ns[i] = l[i]
      /\ \A k \in 1 .. (n - a) : ns[(a - 1) + k] = r[k]
  <2>1. Len(ns) = Len(l) + Len(r) /\ Len(l) + Len(r) = n - 1
    BY <1>3, <1>6, <1>7, <1>8, Joined
  <2> QED
    BY <1>6, <1>7, <1>8, <2>1, Joined
<1>10. DOMAIN ns = 1 .. (n - 1)
  BY <1>3, <1>9
<1>11. ASSUME NEW i \in DOMAIN ns
       PROVE  ns[i] = ms[Past(a, i)] /\ Past(a, i) \in DOMAIN ms
  <2>1. i \in 1 .. (n - 1) /\ i \in Int /\ a \in Int /\ n \in Int
    BY <1>3, <1>10, <1>11
  <2>2. CASE i < a
    <3>1. i \in 1 .. (a - 1) /\ i <= a - 1 /\ i \in 1 .. n
      BY <2>1, <2>2
    <3>2. ns[i] = ms[i]
      BY <1>6, <1>9, <2>1, <3>1
    <3> QED
      BY <1>3, <2>2, <3>1, <3>2 DEF Past
  <2>3. CASE ~(i < a)
    <3>1. PICK k : k = i - (a - 1)
      OBVIOUS
    <3>2. k \in 1 .. (n - a) /\ a + k = i + 1 /\ (a - 1) + k = i /\ i + 1 \in 1 .. n
      BY <1>3, <2>1, <2>3, <3>1
    <3>3. ns[i] = r[k]
      BY <1>9, <3>2
    <3>4. r[k] = ms[a + k]
      BY <1>7, <3>2
    <3> QED
      BY <1>3, <2>3, <3>2, <3>3, <3>4 DEF Past
  <2> QED
    BY <2>2, <2>3
<1>12. IsTable(ns)
  BY <1>9, <1>11 DEF IsTable
<1>13. Len(ms) = Len(ns) + 1
  BY <1>2, <1>3, <1>9
<1>14. RemoveAt(ms, a) = ns
  BY <1>2, <1>4, <1>5, <1>8 DEF RemoveAt
<1> QED
  BY <1>11, <1>12, <1>13, <1>14 DEF Without

LEMMA InsertedAt ==
    ASSUME NEW ms, IsTable(ms), NEW m, IsMovement(m), NEW a \in 1 .. Len(ms) + 1
    PROVE  Without(InsertAt(ms, a, m), ms, a) /\ InsertAt(ms, a, m)[a] = m
<1>1. PICK S : ms \in Seq(S)
  BY DEF IsTable
<1>2. PICK T : T = S \cup {m}
  OBVIOUS
<1>3. PICK n : n = Len(ms)
  OBVIOUS
<1>4. n \in Nat /\ DOMAIN ms = 1 .. n /\ a \in 1 .. (n + 1)
  BY <1>1, <1>3
<1>5. ms \in Seq(T) /\ m \in T /\ <<m>> \in Seq(T)
  <2>1. \A i \in 1 .. n : ms[i] \in T
    BY <1>1, <1>2, <1>3, <1>4
  <2>2. ms = [i \in 1 .. n |-> ms[i]]
    BY <1>1, <1>3
  <2>3. m \in T
    BY <1>2
  <2>4. <<m>> \in Seq(T)
    BY <2>3
  <2> QED
    BY <1>4, <2>1, <2>2, <2>3, <2>4
<1>6. PICK l : l = SubSeq(ms, 1, a - 1)
  OBVIOUS
<1>7. PICK r : r = SubSeq(ms, a, n)
  OBVIOUS
<1>8. l \in Seq(T) /\ Len(l) = a - 1 /\ \A i \in 1 .. (a - 1) : l[i] = ms[i]
  BY <1>3, <1>4, <1>5, <1>6
<1>9. r \in Seq(T) /\ Len(r) = n - a + 1 /\ \A i \in 1 .. (n - a + 1) : r[i] = ms[a + i - 1]
  BY <1>3, <1>4, <1>5, <1>7
<1>10. PICK front : front = l \o <<m>>
  OBVIOUS
<1>11. /\ front \in Seq(T) /\ Len(front) = a /\ front[a] = m
       /\ \A i \in 1 .. (a - 1) : front[i] = l[i]
  <2>1. Len(<<m>>) = 1 /\ <<m>>[1] = m
    OBVIOUS
  <2>2. /\ front \in Seq(T) /\ Len(front) = (a - 1) + 1
        /\ \A i \in 1 .. (a - 1) : front[i] = l[i]
        /\ \A i \in 1 .. 1 : front[(a - 1) + i] = <<m>>[i]
    BY <1>5, <1>8, <1>10, <2>1, Joined
  <2>3. (a - 1) + 1 = a /\ 1 \in 1 .. 1
    BY <1>4
  <2> QED
    BY <2>1, <2>2, <2>3
<1>12. PICK ns : ns = front \o r
  OBVIOUS
<1>13. /\ ns \in Seq(T) /\ Len(ns) = n + 1
       /\ \A i \in 1 .. a : ns[i] = front[i]
       /\ \A k \in 1 .. (n - a + 1) : ns[a + k] = r[k]
  <2>1. /\ ns \in Seq(T) /\ Len(ns) = Len(front) + Len(r)
        /\ \A i \in 1 .. Len(front) : ns[i] = front[i]
        /\ \A k \in 1 .. Len(r) : ns[Len(front) + k] = r[k]
    <3>1. front \in Seq(T) /\ r \in Seq(T)
      BY <1>9, <1>11
    <3> QED
      BY <1>12, <3>1, Joined
  <2>2. Len(front) = a /\ Len(r) = n - a + 1 /\ a + (n - a + 1) = n + 1
    BY <1>4, <1>9, <1>11
  <2> QED
    BY <2>1, <2>2
<1>14. DOMAIN ns = 1 .. (n + 1)
  BY <1>4, <1>13
<1>15. ns[a] = m
  BY <1>4, <1>11, <1>13
<1>16. ASSUME NEW i \in DOMAIN ms PROVE ms[i] = ns[Past(a, i)]
  <2>1. i \in 1 .. n /\ i \in Int /\ a \in Int /\ n \in Int
    BY <1>4, <1>16
  <2>2. CASE i < a
    <3>1. i \in 1 .. (a - 1) /\ i \in 1 .. a
      BY <1>4, <2>1, <2>2
    <3>2. ns[i] = ms[i]
      BY <1>8, <1>11, <1>13, <3>1
    <3> QED
      BY <2>2, <3>2 DEF Past
  <2>3. CASE ~(i < a)
    <3>1. PICK j, k : j = i + 1 /\ k = j - a
      OBVIOUS
    <3>2. j = a + k /\ k \in 1 .. (n - a + 1) /\ a + k - 1 = i
      BY <1>4, <2>1, <2>3, <3>1
    <3>3. ns[j] = r[k]
      BY <1>13, <3>2
    <3>4. r[k] = ms[a + k - 1]
      BY <1>9, <3>2
    <3> QED
      BY <2>3, <3>1, <3>2, <3>3, <3>4 DEF Past
  <2> QED
    BY <2>2, <2>3
<1>17. IsTable(ns)
  <2>1. ASSUME NEW j \in DOMAIN ns PROVE IsMovement(ns[j])
    <3>1. CASE j = a
      BY <1>15, <3>1
    <3>2. CASE j # a
      <4>1. PICK i \in 1 .. n : j = Past(a, i)
        BY <1>4, <1>14, <2>1, <3>2, PastRange
      <4>2. ns[j] = ms[i] /\ i \in DOMAIN ms
        BY <1>4, <1>16, <4>1
      <4> QED
        BY <4>2 DEF IsTable
    <3> QED
      BY <3>1, <3>2
  <2> QED
    BY <1>13, <2>1 DEF IsTable
<1>18. InsertAt(ms, a, m) = ns
  BY <1>3, <1>6, <1>7, <1>10, <1>12 DEF InsertAt
<1>19. Len(ns) = Len(ms) + 1 /\ a \in DOMAIN ns
  BY <1>3, <1>4, <1>13, <1>14
<1> QED
  BY <1>15, <1>16, <1>17, <1>18, <1>19 DEF Without

\* Whatever is not about the row that comes or goes stays as it was.
LEMMA WithoutTotal ==
    ASSUME NEW ms, NEW ns, NEW a, Without(ms, ns, a), NEW A, A \subseteq DOMAIN ms,
           NEW B, B \subseteq DOMAIN ns,
           \A i \in B : Past(a, i) \in A, \A i \in DOMAIN ns : Past(a, i) \in A => i \in B,
           a \notin A
    PROVE  Total(ns, B) = Total(ms, A)
<1>1. PICK f : f = [i \in DOMAIN ms |-> ms[i].qty]
  OBVIOUS
<1>2. PICK g : g = [i \in DOMAIN ns |-> ns[i].qty]
  OBVIOUS
<1>3. PICK h : h = [i \in DOMAIN ns |-> Past(a, i)]
  OBVIOUS
<1>4. {h[i] : i \in B} = A
  <2>1. \A i \in B : h[i] \in A
    BY <1>3
  <2>2. ASSUME NEW j \in A PROVE \E i \in B : j = h[i]
    <3>1. PICK i \in DOMAIN ns : j = Past(a, i)
      BY <2>2, WithoutRows
    <3> QED
      BY <1>3, <3>1
  <2> QED
    BY <2>1, <2>2
<1>5. IsFiniteSet(B) /\ IsFiniteSet({h[i] : i \in B})
  BY <1>4, Indices DEF Without
<1>6. \A i \in B : g[i] \in Int
  BY <1>2 DEF Without, IsTable, IsMovement
<1>7. \A i, j \in B : h[i] = h[j] => i = j
  BY <1>3, WithoutRows
<1>8. \A i \in B : f[h[i]] = g[i]
  BY <1>1, <1>2, <1>3, WithoutRows
<1>9. SumFunctionOnSet(f, {h[i] : i \in B}) = SumFunctionOnSet(g, B)
  BY <1>5, <1>6, <1>7, <1>8, SumRenamed
<1> QED
  BY <1>1, <1>2, <1>4, <1>9 DEF Total

LEMMA WithoutMovedBy ==
    ASSUME NEW ms, NEW ns, NEW a, Without(ms, ns, a), NEW doc, ms[a].doc # doc, NEW loc
    PROVE  MovedBy(ns, doc, loc) = MovedBy(ms, doc, loc)
<1>1. PICK A, B : A = Of(ms, doc, loc) /\ B = Of(ns, doc, loc)
  OBVIOUS
<1>2. A \subseteq DOMAIN ms /\ B \subseteq DOMAIN ns /\ a \notin A
  BY <1>1 DEF Of
<1>3. \A i \in DOMAIN ns : i \in B <=> Past(a, i) \in A
  BY <1>1, WithoutRows DEF Of
<1>4. Total(ns, B) = Total(ms, A)
  BY <1>2, <1>3, WithoutTotal
<1> QED
  BY <1>1, <1>4 DEF MovedBy, Of

\* The balances outside the location of the row are the same.
LEMMA WithoutBalanceAt ==
    ASSUME NEW ms, NEW ns, NEW a, Without(ms, ns, a), NEW i \in DOMAIN ns,
           ns[i].loc # ms[a].loc
    PROVE  BalanceAt(ns, i) = BalanceAt(ms, Past(a, i))
<1>1. PICK j : j = Past(a, i)
  OBVIOUS
<1>2. j \in DOMAIN ms /\ ns[i] = ms[j]
  BY <1>1, WithoutRows
<1>3. PICK A, B : A = UpTo(ms, j) /\ B = UpTo(ns, i)
  OBVIOUS
<1>4. /\ 1 .. j = {k \in DOMAIN ms : k <= j} /\ 1 .. i = {k \in DOMAIN ns : k <= i}
  <2>1. /\ DOMAIN ms = 1 .. Len(ms) /\ Len(ms) \in Nat
        /\ DOMAIN ns = 1 .. Len(ns) /\ Len(ns) \in Nat
    BY Indices DEF Without
  <2> QED
    BY <1>2, <2>1
<1>5. /\ A = {k \in DOMAIN ms : k <= j /\ ms[k].loc = ms[j].loc}
      /\ B = {k \in DOMAIN ns : k <= i /\ ns[k].loc = ns[i].loc}
  BY <1>3, <1>4 DEF UpTo
<1>6. A \subseteq DOMAIN ms /\ B \subseteq DOMAIN ns /\ a \notin A
  BY <1>2, <1>5
<1>7. \A k \in DOMAIN ns : k \in B <=> Past(a, k) \in A
  BY <1>1, <1>2, <1>5, WithoutRows
<1>8. Total(ns, B) = Total(ms, A)
  BY <1>6, <1>7, WithoutTotal
<1> QED
  BY <1>1, <1>3, <1>8 DEF BalanceAt, UpTo

\* Which are right outside that location is right whether the row is there or not.
LEMMA WithoutRunning ==
    ASSUME NEW ms, NEW ns, NEW a, Without(ms, ns, a), NEW locs, NEW loc, loc = ms[a].loc
    PROVE  /\ RunningBut(ms, locs) => RunningBut(ns, locs \cup {loc})
           /\ RunningBut(ns, locs) => RunningBut(ms, locs \cup {loc})
<1>1. ASSUME RunningBut(ms, locs), NEW i \in DOMAIN ns, ns[i].loc \notin locs \cup {loc}
      PROVE  ns[i].bal = BalanceAt(ns, i)
  <2>1. PICK j : j = Past(a, i)
    OBVIOUS
  <2>2. j \in DOMAIN ms /\ ns[i] = ms[j]
    BY <2>1, WithoutRows
  <2>3. ms[j].bal = BalanceAt(ms, j)
    BY <1>1, <2>2 DEF RunningBut
  <2>4. BalanceAt(ns, i) = BalanceAt(ms, j)
    BY <1>1, <2>1, WithoutBalanceAt
  <2> QED
    BY <2>2, <2>3, <2>4
<1>2. ASSUME RunningBut(ns, locs), NEW j \in DOMAIN ms, ms[j].loc \notin locs \cup {loc}
      PROVE  ms[j].bal = BalanceAt(ms, j)
  <2>1. j # a
    BY <1>2
  <2>2. PICK i \in DOMAIN ns : j = Past(a, i)
    BY <1>2, <2>1, WithoutRows
  <2>3. ns[i] = ms[j]
    BY <2>2, WithoutRows
  <2>4. ns[i].bal = BalanceAt(ns, i)
    BY <1>2, <2>2, <2>3 DEF RunningBut
  <2>5. BalanceAt(ns, i) = BalanceAt(ms, j)
    BY <1>2, <2>2, <2>3, WithoutBalanceAt
  <2> QED
    BY <2>3, <2>4, <2>5
<1> QED
  BY <1>1, <1>2 DEF RunningBut

\* The last movement of another document stays its last.
LEMMA WithoutLatest ==
    ASSUME NEW ms, NEW ns, NEW a, Without(ms, ns, a), NEW doc, ms[a].doc # doc
    PROVE  /\ \A j : Latest(ms, j, doc) => \E i : Latest(ns, i, doc) /\ ns[i].cost = ms[j].cost
           /\ \A i : Latest(ns, i, doc) => \E j : Latest(ms, j, doc) /\ ms[j].cost = ns[i].cost
<1>1. ASSUME NEW j, Latest(ms, j, doc)
      PROVE  \E i : Latest(ns, i, doc) /\ ns[i].cost = ms[j].cost
  <2>1. j \in DOMAIN ms /\ ms[j].doc = doc /\ j # a
    BY <1>1 DEF Latest
  <2>2. PICK i \in DOMAIN ns : j = Past(a, i)
    BY <2>1, WithoutRows
  <2>3. ns[i] = ms[j]
    BY <2>2, WithoutRows
  <2>4. \A k \in DOMAIN ns : ns[k].doc = doc => k <= i
    BY <1>1, <2>2, WithoutRows DEF Latest
  <2> QED
    BY <2>1, <2>2, <2>3, <2>4 DEF Latest
<1>2. ASSUME NEW i, Latest(ns, i, doc)
      PROVE  \E j : Latest(ms, j, doc) /\ ms[j].cost = ns[i].cost
  <2>1. i \in DOMAIN ns /\ ns[i].doc = doc
    BY <1>2 DEF Latest
  <2>2. PICK j : j = Past(a, i)
    OBVIOUS
  <2>3. j \in DOMAIN ms /\ ns[i] = ms[j]
    BY <2>1, <2>2, WithoutRows
  <2>4. ASSUME NEW k \in DOMAIN ms, ms[k].doc = doc PROVE k <= j
    <3>1. k # a
      BY <2>4
    <3>2. PICK c \in DOMAIN ns : k = Past(a, c)
      BY <2>4, <3>1, WithoutRows
    <3>3. ns[c] = ms[k]
      BY <3>2, WithoutRows
    <3>4. c <= i
      BY <1>2, <2>4, <3>2, <3>3 DEF Latest
    <3> QED
      BY <2>1, <2>2, <3>2, <3>4, WithoutRows
  <2> QED
    BY <2>1, <2>3, <2>4 DEF Latest
<1> QED
  BY <1>1, <1>2

-------------------------------------------------------------------------------
(* What the operations on the table do.                                     *)

\* A movement of a document: it counts for that document alone, it is the document's
\* last, and it leaves the balance it says when the table that was read is still the
\* table.
LEMMA MovedEffects ==
    ASSUME NEW ms, IsTable(ms), NEW read, NEW doc, NEW loc, NEW qty \in Int, NEW cost,
           NEW ns, ns = Moved(ms, read, doc, loc, qty, cost)
    PROVE  /\ IsTable(ns)
           /\ Running(ms) /\ read = ms => Running(ns)
           /\ \A d, l : MovedBy(ns, d, l)
                          = MovedBy(ms, d, l) + (IF doc = d /\ loc = l THEN qty ELSE 0)
           /\ \A d, i : d # doc /\ Latest(ms, i, d)
                          => Latest(ns, i, d) /\ ns[i].cost = ms[i].cost
           /\ \E i : Latest(ns, i, doc) /\ ns[i].cost = cost
           /\ \A i \in DOMAIN ns : ns[i].doc # doc => i \in DOMAIN ms
           /\ \A i \in DOMAIN ms : i \in DOMAIN ns /\ ns[i] = ms[i]
<1>1. PICK m : m = [doc |-> doc, loc |-> loc, qty |-> qty, cost |-> cost,
                    bal |-> Balance(read, loc) + qty]
  OBVIOUS
<1>2. /\ IsMovement(m) /\ m.doc = doc /\ m.loc = loc /\ m.qty = qty /\ m.cost = cost
      /\ read = ms => m.bal = Balance(ms, m.loc) + m.qty
  BY <1>1 DEF IsMovement
<1>3. ns = Append(ms, m)
  BY <1>1 DEF Moved
<1>4. PICK e : e = Len(ms) + 1
  OBVIOUS
<1>5. /\ IsTable(ns) /\ DOMAIN ns = DOMAIN ms \cup {e} /\ e \notin DOMAIN ms
      /\ ns[e] = m /\ \A i \in DOMAIN ms : ns[i] = ms[i]
  BY <1>2, <1>3, <1>4, Appended
<1>6. DOMAIN ms = 1 .. Len(ms) /\ Len(ms) \in Nat
  BY Indices
<1>7. Running(ms) /\ read = ms => Running(ns)
  BY <1>2, <1>3, RunningAppend
<1>8. \A d, l : MovedBy(ns, d, l)
                  = MovedBy(ms, d, l) + (IF doc = d /\ loc = l THEN qty ELSE 0)
  <2>1. ASSUME NEW d, NEW l
        PROVE  MovedBy(ns, d, l)
                 = MovedBy(ms, d, l) + (IF m.doc = d /\ m.loc = l THEN m.qty ELSE 0)
    BY <1>2, <1>3, MovedByAppend
  <2> QED
    BY <1>2, <2>1
<1>9. \A d, i : d # doc /\ Latest(ms, i, d) => Latest(ns, i, d) /\ ns[i].cost = ms[i].cost
  BY <1>2, <1>5 DEF Latest
<1>10. Latest(ns, e, doc) /\ ns[e].cost = cost
  <2>1. \A j \in DOMAIN ns : j <= e
    BY <1>4, <1>5, <1>6
  <2> QED
    BY <1>2, <1>5, <2>1 DEF Latest
<1>11. \A i \in DOMAIN ns : ns[i].doc # doc => i \in DOMAIN ms
  BY <1>2, <1>5
<1>12. \A i \in DOMAIN ms : i \in DOMAIN ns /\ ns[i] = ms[i]
  BY <1>5
<1> QED
  BY <1>5, <1>7, <1>8, <1>9, <1>10, <1>11, <1>12

LEMMA RebalancedEffects ==
    ASSUME NEW ms, IsTable(ms), NEW locs, NEW ns, ns = Rebalanced(ms, locs)
    PROVE  /\ IsTable(ns) /\ DOMAIN ns = DOMAIN ms
           /\ \A i \in DOMAIN ms :
                 /\ ns[i].doc = ms[i].doc /\ ns[i].loc = ms[i].loc
                 /\ ns[i].qty = ms[i].qty /\ ns[i].cost = ms[i].cost
           /\ RunningBut(ms, locs) => Running(ns)
<1>1. DOMAIN ns = DOMAIN ms /\ ns = [i \in DOMAIN ms |-> ns[i]]
  BY DEF Rebalanced
<1>2. DOMAIN ms = 1 .. Len(ms) /\ Len(ms) \in Nat
  BY Indices
<1>3. ASSUME NEW i \in DOMAIN ms
      PROVE  /\ ns[i].doc = ms[i].doc /\ ns[i].loc = ms[i].loc
             /\ ns[i].qty = ms[i].qty /\ ns[i].cost = ms[i].cost
             /\ IsMovement(ns[i])
             /\ RunningBut(ms, locs) => ns[i].bal = BalanceAt(ms, i)
  <2>1. PICK m : m = ms[i]
    OBVIOUS
  <2>2. PICK b : b = BalanceAt(ms, i)
    OBVIOUS
  <2>3. m = [doc |-> m.doc, loc |-> m.loc, qty |-> m.qty, cost |-> m.cost, bal |-> m.bal]
        /\ m.qty \in Int
    BY <1>3, <2>1 DEF IsTable, IsMovement
  <2>4. CASE m.loc \in locs
    <3>1. ns[i] = [m EXCEPT !.bal = b]
      BY <1>3, <2>1, <2>2, <2>4 DEF Rebalanced
    <3>2. ns[i] = [doc |-> m.doc, loc |-> m.loc, qty |-> m.qty, cost |-> m.cost, bal |-> b]
      BY <2>3, <3>1
    <3> QED
      BY <2>1, <2>2, <2>3, <3>2 DEF IsMovement
  <2>5. CASE m.loc \notin locs
    <3>1. ns[i] = m
      BY <1>3, <2>1, <2>5 DEF Rebalanced
    <3>2. RunningBut(ms, locs) => m.bal = b
      BY <1>3, <2>1, <2>2, <2>5 DEF RunningBut
    <3> QED
      BY <2>1, <2>2, <2>3, <3>1, <3>2 DEF IsMovement
  <2> QED
    BY <2>4, <2>5
<1>4. IsTable(ns)
  <2>1. PICK T : T = {ns[i] : i \in DOMAIN ms}
    OBVIOUS
  <2>2. \A i \in 1 .. Len(ms) : ns[i] \in T
    BY <1>2, <2>1
  <2>3. ns = [i \in 1 .. Len(ms) |-> ns[i]]
    BY <1>1, <1>2
  <2>4. ns \in Seq(T)
    BY <1>2, <2>2, <2>3
  <2> QED
    BY <1>1, <1>3, <2>4 DEF IsTable
<1>5. ASSUME NEW i \in DOMAIN ms
      PROVE  BalanceAt(ns, i) = BalanceAt(ms, i)
  <2>1. 1 .. i \subseteq DOMAIN ms
    BY <1>2, <1>5
  <2>2. PICK A : A = UpTo(ms, i)
    OBVIOUS
  <2>3. UpTo(ns, i) = A
    BY <1>3, <1>5, <2>1, <2>2 DEF UpTo
  <2>4. A \subseteq DOMAIN ms /\ A \subseteq DOMAIN ns /\ \A j \in A : ms[j].qty = ns[j].qty
    BY <1>1, <1>3, <2>1, <2>2 DEF UpTo
  <2>5. Total(ns, A) = Total(ms, A)
    BY <1>4, <2>4, TotalSame
  <2> QED
    BY <2>2, <2>3, <2>5 DEF BalanceAt, UpTo
<1>6. RunningBut(ms, locs) => Running(ns)
  BY <1>1, <1>3, <1>5 DEF Running
<1> QED
  BY <1>1, <1>3, <1>4, <1>6

-------------------------------------------------------------------------------
(* What a change of the opening leaves of the documents.                    *)

Keeps(ms, ns) ==
    /\ IsTable(ns)
    /\ \A d, l : d # Item => MovedBy(ns, d, l) = MovedBy(ms, d, l)
    /\ \A d, i : d # Item /\ Latest(ms, i, d)
                   => \E j : Latest(ns, j, d) /\ ns[j].cost = ms[i].cost

LEMMA KeepsItself == \A ms : IsTable(ms) => Keeps(ms, ms)
BY DEF Keeps

LEMMA KeepsOn ==
    ASSUME NEW ms, NEW ns, NEW os, Keeps(ms, ns), Keeps(ns, os)
    PROVE  Keeps(ms, os)
<1>1. \A d, l : d # Item => MovedBy(os, d, l) = MovedBy(ms, d, l)
  BY DEF Keeps
<1>2. ASSUME NEW d, NEW i, d # Item, Latest(ms, i, d)
      PROVE  \E j : Latest(os, j, d) /\ os[j].cost = ms[i].cost
  <2>1. PICK j : Latest(ns, j, d) /\ ns[j].cost = ms[i].cost
    BY <1>2 DEF Keeps
  <2>2. PICK k : Latest(os, k, d) /\ os[k].cost = ns[j].cost
    BY <1>2, <2>1 DEF Keeps
  <2> QED
    BY <2>1, <2>2
<1> QED
  BY <1>1, <1>2 DEF Keeps

LEMMA KeepsWithout ==
    ASSUME NEW ms, NEW ns, NEW a, Without(ms, ns, a), ms[a].doc = Item
    PROVE  Keeps(ms, ns) /\ Keeps(ns, ms)
<1>1. \A d, l : d # Item => MovedBy(ns, d, l) = MovedBy(ms, d, l)
  BY WithoutMovedBy
<1>2. ASSUME NEW d, d # Item
      PROVE  /\ \A j : Latest(ms, j, d) => \E i : Latest(ns, i, d) /\ ns[i].cost = ms[j].cost
             /\ \A i : Latest(ns, i, d) => \E j : Latest(ms, j, d) /\ ms[j].cost = ns[i].cost
  BY <1>2, WithoutLatest
<1>3. IsTable(ms) /\ IsTable(ns)
  BY DEF Without
<1> QED
  BY <1>1, <1>2, <1>3 DEF Keeps

LEMMA KeepsRebalanced ==
    ASSUME NEW ms, IsTable(ms), NEW locs
    PROVE  Keeps(ms, Rebalanced(ms, locs))
<1>1. PICK ns : ns = Rebalanced(ms, locs)
  OBVIOUS
<1>2. /\ IsTable(ns) /\ DOMAIN ns = DOMAIN ms
      /\ \A i \in DOMAIN ms :
            /\ ns[i].doc = ms[i].doc /\ ns[i].loc = ms[i].loc
            /\ ns[i].qty = ms[i].qty /\ ns[i].cost = ms[i].cost
  BY <1>1, RebalancedEffects
<1>3. ASSUME NEW d, NEW l
      PROVE  MovedBy(ns, d, l) = MovedBy(ms, d, l)
  <2>1. PICK A : A = Of(ms, d, l)
    OBVIOUS
  <2>2. Of(ns, d, l) = A
    BY <1>2, <2>1 DEF Of
  <2>3. A \subseteq DOMAIN ms /\ A \subseteq DOMAIN ns /\ \A j \in A : ms[j].qty = ns[j].qty
    BY <1>2, <2>1 DEF Of
  <2>4. Total(ns, A) = Total(ms, A)
    BY <1>2, <2>3, TotalSame
  <2> QED
    BY <2>1, <2>2, <2>4 DEF MovedBy, Of
<1>4. \A d, i : Latest(ms, i, d) => Latest(ns, i, d) /\ ns[i].cost = ms[i].cost
  BY <1>2 DEF Latest
<1> QED
  BY <1>1, <1>2, <1>3, <1>4 DEF Keeps

-------------------------------------------------------------------------------
(* The opening.                                                             *)

OpeningRow(ms, i) == i \in DOMAIN ms /\ ms[i].doc = Item

LEMMA OpeningIsAt ==
    ASSUME NEW ms, Opened(ms)
    PROVE  OpeningRow(ms, OpeningAt(ms))
BY DEF Opened, OpeningAt, OpeningRow

\* What the opening did is what its one movement did.
LEMMA OpeningMoves ==
    ASSUME NEW ms, IsTable(ms), OnlyOne(ms), NEW loc
    PROVE  /\ ~Opened(ms) => MovedBy(ms, Item, loc) = 0
           /\ \A i : OpeningRow(ms, i)
                       => MovedBy(ms, Item, loc) = IF ms[i].loc = loc THEN ms[i].qty ELSE 0
<1>1. PICK A : A = Of(ms, Item, loc)
  OBVIOUS
<1>2. MovedBy(ms, Item, loc) = Total(ms, A)
  BY <1>1 DEF MovedBy, Of
<1>3. ASSUME NEW i, OpeningRow(ms, i), ms[i].loc = loc
      PROVE  Total(ms, A) = ms[i].qty
  <2>1. i \in DOMAIN ms /\ A = {} \cup {i} /\ {} \in SUBSET (DOMAIN ms) /\ i \notin {}
    BY <1>1, <1>3 DEF Of, OnlyOne, OpeningRow
  <2>2. Total(ms, {} \cup {i}) = Total(ms, {}) + ms[i].qty
    BY <2>1, TotalAdd
  <2>3. Total(ms, {}) = 0 /\ ms[i].qty \in Int
    BY <2>1, TotalEmpty DEF IsTable, IsMovement
  <2> QED
    BY <2>1, <2>2, <2>3
<1>4. ASSUME NEW i, OpeningRow(ms, i), ms[i].loc # loc
      PROVE  Total(ms, A) = 0
  <2>1. A = {}
    BY <1>1, <1>4 DEF Of, OnlyOne, OpeningRow
  <2> QED
    BY <2>1, TotalEmpty
<1>5. ASSUME ~Opened(ms)
      PROVE  Total(ms, A) = 0
  <2>1. A = {}
    BY <1>1, <1>5 DEF Of, Opened
  <2> QED
    BY <2>1, TotalEmpty
<1> QED
  BY <1>2, <1>3, <1>4, <1>5

NoOpening(ms) == \A i \in DOMAIN ms : ms[i].doc # Item

\* The table without the opening that there was, and the location it was in.
Rest(ms) == IF Opened(ms) THEN RemoveAt(ms, OpeningAt(ms)) ELSE ms
Left(ms) == IF Opened(ms) THEN {ms[OpeningAt(ms)].loc} ELSE {}

\* Where a new one can be.
Places(ms) == 1 .. Len(Rest(ms)) + 1

LEMMA OpeningDropped ==
    ASSUME NEW ms, IsTable(ms), OnlyOne(ms), NEW rest, rest = Rest(ms), NEW locs, locs = Left(ms)
    PROVE  /\ Keeps(ms, rest) /\ NoOpening(rest)
           /\ Running(ms) => RunningBut(rest, locs)
<1>1. CASE Opened(ms)
  <2>1. PICK a : a = OpeningAt(ms)
    OBVIOUS
  <2>2. a \in DOMAIN ms /\ ms[a].doc = Item
    BY <1>1, <2>1, OpeningIsAt DEF OpeningRow
  <2>3. rest = RemoveAt(ms, a) /\ locs = {ms[a].loc}
    BY <1>1, <2>1 DEF Rest, Left
  <2>4. Without(ms, rest, a)
    BY <2>2, <2>3, RemovedAt
  <2>5. Keeps(ms, rest)
    BY <2>2, <2>4, KeepsWithout
  <2>6. NoOpening(rest)
    BY <2>2, <2>4, WithoutRows DEF OnlyOne, NoOpening
  <2>7. Running(ms) => RunningBut(rest, locs)
    <3>1. PICK loc : loc = ms[a].loc
      OBVIOUS
    <3>2. RunningBut(ms, {}) => RunningBut(rest, {} \cup {loc})
      BY <2>4, <3>1, WithoutRunning
    <3>3. {} \cup {loc} = locs
      BY <2>3, <3>1
    <3>4. Running(ms) => RunningBut(ms, {})
      BY DEF Running, RunningBut
    <3> QED
      BY <3>2, <3>3, <3>4
  <2> QED
    BY <2>5, <2>6, <2>7
<1>2. CASE ~Opened(ms)
  <2>1. rest = ms /\ locs = {}
    BY <1>2 DEF Rest, Left
  <2>2. NoOpening(ms)
    BY <1>2 DEF Opened, NoOpening
  <2> QED
    BY <2>1, <2>2, KeepsItself DEF Running, RunningBut
<1> QED
  BY <1>1, <1>2

\* A new one is put in its place.
LEMMA OpeningPut ==
    ASSUME NEW rest, IsTable(rest), NoOpening(rest), NEW at \in 1 .. Len(rest) + 1,
           NEW row, IsMovement(row), row.doc = Item,
           NEW now, now = InsertAt(rest, at, row), NEW locs
    PROVE  /\ Keeps(rest, now) /\ OnlyOne(now) /\ OpeningRow(now, at) /\ now[at] = row
           /\ RunningBut(rest, locs) => RunningBut(now, locs \cup {row.loc})
<1>1. Without(now, rest, at) /\ now[at] = row
  BY InsertedAt
<1>2. Keeps(rest, now)
  BY <1>1, KeepsWithout
<1>3. RunningBut(rest, locs) => RunningBut(now, locs \cup {row.loc})
  BY <1>1, WithoutRunning
<1>4. \A i \in DOMAIN now : now[i].doc = Item => i = at
  <2>1. ASSUME NEW i \in DOMAIN now, i # at PROVE now[i].doc # Item
    <3>1. PICK k \in DOMAIN rest : i = Past(at, k)
      BY <1>1, <2>1, WithoutRows
    <3>2. rest[k] = now[i]
      BY <1>1, <3>1, WithoutRows
    <3> QED
      BY <3>1, <3>2 DEF NoOpening
  <2> QED
    BY <2>1
<1>5. OnlyOne(now)
  BY <1>4 DEF OnlyOne
<1>6. OpeningRow(now, at)
  BY <1>1 DEF OpeningRow, Without
<1> QED
  BY <1>1, <1>2, <1>3, <1>5, <1>6

\* The table after the opening was set: with a new one, or with none.
Put(ms, loc, qty, cost, at) ==
    InsertAt(Rest(ms), at, [doc |-> Item, loc |-> loc, qty |-> qty, cost |-> cost, bal |-> qty])

LEMMA PutEffects ==
    ASSUME NEW ms, IsTable(ms), OnlyOne(ms), NEW loc, NEW qty \in Int, NEW cost,
           NEW at \in Places(ms), NEW now, now = Put(ms, loc, qty, cost, at),
           NEW locs, locs = Left(ms) \cup {loc}
    PROVE  /\ Keeps(ms, now) /\ OnlyOne(now) /\ Opened(now)
           /\ \A i : OpeningRow(now, i) => now[i].loc = loc /\ now[i].qty = qty
           /\ Running(ms) => RunningBut(now, locs)
<1>1. PICK rest : rest = Rest(ms)
  OBVIOUS
<1>2. PICK left : left = Left(ms)
  OBVIOUS
<1>3. /\ Keeps(ms, rest) /\ NoOpening(rest)
      /\ Running(ms) => RunningBut(rest, left)
  BY <1>1, <1>2, OpeningDropped
<1>4. IsTable(rest)
  BY <1>3 DEF Keeps
<1>5. PICK row : row = [doc |-> Item, loc |-> loc, qty |-> qty, cost |-> cost, bal |-> qty]
  OBVIOUS
<1>6. IsMovement(row) /\ row.doc = Item /\ row.loc = loc /\ row.qty = qty
  BY <1>5 DEF IsMovement
<1>7. now = InsertAt(rest, at, row) /\ locs = left \cup {row.loc}
  BY <1>1, <1>2, <1>5, <1>6 DEF Put
<1>8. at \in 1 .. Len(rest) + 1
  BY <1>1 DEF Places
<1>9. /\ Keeps(rest, now) /\ OnlyOne(now) /\ OpeningRow(now, at) /\ now[at] = row
      /\ RunningBut(rest, left) => RunningBut(now, left \cup {row.loc})
  BY <1>3, <1>4, <1>6, <1>7, <1>8, OpeningPut
<1>10. Keeps(ms, now)
  BY <1>3, <1>9, KeepsOn
<1>11. \A i : OpeningRow(now, i) => now[i].loc = loc /\ now[i].qty = qty
  BY <1>6, <1>9 DEF OnlyOne, OpeningRow
<1>12. Opened(now)
  BY <1>9 DEF OpeningRow, Opened
<1> QED
  BY <1>3, <1>7, <1>9, <1>10, <1>11, <1>12

\* Balances aside, the table is the same after they were derived again.
LEMMA SettledAgain ==
    ASSUME NEW ms, NEW now, Keeps(ms, now), OnlyOne(now), NEW locs,
           NEW ns, ns = Rebalanced(now, locs)
    PROVE  /\ Keeps(ms, ns) /\ OnlyOne(ns)
           /\ Opened(now) => Opened(ns)
           /\ \A i : OpeningRow(ns, i)
                       => OpeningRow(now, i) /\ ns[i].loc = now[i].loc /\ ns[i].qty = now[i].qty
           /\ RunningBut(now, locs) => Running(ns)
<1>1. IsTable(now)
  BY DEF Keeps
<1>2. /\ DOMAIN ns = DOMAIN now
      /\ \A i \in DOMAIN now :
            ns[i].doc = now[i].doc /\ ns[i].loc = now[i].loc /\ ns[i].qty = now[i].qty
      /\ RunningBut(now, locs) => Running(ns)
  BY <1>1, RebalancedEffects
<1>3. Keeps(now, ns)
  BY <1>1, KeepsRebalanced
<1>4. Keeps(ms, ns)
  BY <1>3, KeepsOn
<1>5. OnlyOne(ns)
  BY <1>2 DEF OnlyOne
<1>6. Opened(now) => Opened(ns)
  BY <1>2 DEF Opened
<1>7. \A i : OpeningRow(ns, i)
               => OpeningRow(now, i) /\ ns[i].loc = now[i].loc /\ ns[i].qty = now[i].qty
  BY <1>2 DEF OpeningRow
<1> QED
  BY <1>2, <1>4, <1>5, <1>6, <1>7

\* What the table is like after an opening of qty in loc was set.
OpeningSaid(ms, ns, loc, qty) ==
    /\ Keeps(ms, ns) /\ OnlyOne(ns)
    /\ Opened(ns) \/ qty = 0
    /\ \A i : OpeningRow(ns, i) => ns[i].loc = loc /\ ns[i].qty = qty
    /\ Running(ms) => Running(ns)

LEMMA PutAgain ==
    ASSUME NEW ms, IsTable(ms), OnlyOne(ms), NEW loc, NEW qty \in Int, NEW cost,
           NEW at \in Places(ms),
           NEW ns, ns = Rebalanced(Put(ms, loc, qty, cost, at), Left(ms) \cup {loc})
    PROVE  OpeningSaid(ms, ns, loc, qty)
<1>1. PICK now : now = Put(ms, loc, qty, cost, at)
  OBVIOUS
<1>2. PICK locs : locs = Left(ms) \cup {loc}
  OBVIOUS
<1>3. /\ Keeps(ms, now) /\ OnlyOne(now) /\ Opened(now)
      /\ \A i : OpeningRow(now, i) => now[i].loc = loc /\ now[i].qty = qty
      /\ Running(ms) => RunningBut(now, locs)
  BY <1>1, <1>2, PutEffects
<1>4. ns = Rebalanced(now, locs)
  BY <1>1, <1>2
<1>5. /\ Keeps(ms, ns) /\ OnlyOne(ns) /\ Opened(ns)
      /\ \A i : OpeningRow(ns, i)
                  => OpeningRow(now, i) /\ ns[i].loc = now[i].loc /\ ns[i].qty = now[i].qty
      /\ RunningBut(now, locs) => Running(ns)
  BY <1>3, <1>4, SettledAgain
<1> QED
  BY <1>3, <1>5 DEF OpeningSaid

LEMMA TakenAway ==
    ASSUME NEW ms, IsTable(ms), OnlyOne(ms), NEW loc,
           NEW ns, ns = Rebalanced(Rest(ms), Left(ms))
    PROVE  OpeningSaid(ms, ns, loc, 0)
<1>1. PICK now : now = Rest(ms)
  OBVIOUS
<1>2. PICK locs : locs = Left(ms)
  OBVIOUS
<1>3. /\ Keeps(ms, now) /\ NoOpening(now)
      /\ Running(ms) => RunningBut(now, locs)
  BY <1>1, <1>2, OpeningDropped
<1>4. OnlyOne(now) /\ \A i : ~OpeningRow(now, i)
  BY <1>3 DEF NoOpening, OnlyOne, OpeningRow
<1>5. ns = Rebalanced(now, locs)
  BY <1>1, <1>2
<1>6. /\ Keeps(ms, ns) /\ OnlyOne(ns)
      /\ \A i : OpeningRow(ns, i) => OpeningRow(now, i)
      /\ RunningBut(now, locs) => Running(ns)
  BY <1>3, <1>4, <1>5, SettledAgain
<1> QED
  BY <1>3, <1>4, <1>6 DEF OpeningSaid

-------------------------------------------------------------------------------
(* The rows keep their shape.                                               *)

LEMMA FormShape ==
    ASSUME NEW f \in Form
    PROVE  f.qty \in Int /\ f.qty \in Quantities
BY StockAssumption DEF Form

LEMMA RowShape ==
    ASSUME NEW r \in DocRow
    PROVE  /\ r = [status |-> r.status, form |-> r.form]
           /\ r.form \in Form /\ r.status \in Statuses /\ r.status # "absent"
           /\ r.form.qty \in Int
BY FormShape DEF DocRow

\* A document that exists has a row, and a request in progress is a request.
LEMMA RowExists ==
    ASSUME RowsOK, NEW d \in Docs, docs[d].status # "absent"
    PROVE  docs[d] \in DocRow
BY DEF RowsOK, Absent

LEMMA InProgress ==
    ASSUME RowsOK, NEW p \in Procs, reqs[p] # Idle
    PROVE  /\ reqs[p] \in Request
           /\ reqs[p].id \in Docs /\ reqs[p].op \in Ops /\ reqs[p].form \in Form
           /\ reqs[p].row \in DocRow /\ reqs[p].row.form.qty \in Int
           /\ reqs[p].stage \in {"checked", "repost"}
<1>1. reqs[p] \in Request
  BY DEF RowsOK
<1>2. /\ reqs[p].id \in Docs /\ reqs[p].op \in Ops /\ reqs[p].form \in Form
      /\ reqs[p].row \in DocRow /\ reqs[p].stage \in {"checked", "repost"}
  BY <1>1 DEF Request
<1> QED
  BY <1>1, <1>2, RowShape

LEMMA AtWork ==
    ASSUME RowsOK, NEW p \in Procs, NEW op, Committing(p, op)
    PROVE  reqs[p] # Idle /\ docs[reqs[p].id] \in DocRow
<1>1. reqs[p] # Idle
  BY DEF Committing, Idle
<1>2. reqs[p].id \in Docs
  BY <1>1, InProgress
<1>3. docs[reqs[p].id].status # "absent"
  BY DEF Committing, Exists
<1> QED
  BY <1>1, <1>2, <1>3, RowExists

\* A row is replaced.
LEMMA RowReplaced ==
    ASSUME NEW ds \in [Docs -> {Absent} \cup DocRow], NEW d \in Docs, NEW r \in DocRow
    PROVE  /\ [ds EXCEPT ![d] = r] \in [Docs -> {Absent} \cup DocRow]
           /\ [ds EXCEPT ![d] = r][d] = r
           /\ \A e \in Docs : e # d => [ds EXCEPT ![d] = r][e] = ds[e]
OBVIOUS

LEMMA StatusIsSet ==
    ASSUME RowsOK, NEW d \in Docs, docs[d] \in DocRow, NEW status \in Statuses,
           status # "absent", SetStatus(d, status)
    PROVE  /\ docs' \in [Docs -> {Absent} \cup DocRow]
           /\ docs'[d] = [status |-> status, form |-> docs[d].form]
           /\ docs'[d] \in DocRow
           /\ \A e \in Docs : e # d => docs'[e] = docs[e]
<1>1. PICK r : r = docs[d]
  OBVIOUS
<1>2. PICK n : n = [status |-> status, form |-> r.form]
  OBVIOUS
<1>3. docs' = [docs EXCEPT ![d] = [r EXCEPT !.status = status]]
  BY <1>1 DEF SetStatus
<1>4. [r EXCEPT !.status = status] = n
  BY <1>1, <1>2, RowShape
<1>5. n \in DocRow
  BY <1>1, <1>2, RowShape DEF DocRow
<1>6. docs' = [docs EXCEPT ![d] = n]
  BY <1>3, <1>4
<1>7. docs \in [Docs -> {Absent} \cup DocRow]
  BY DEF RowsOK
<1> QED
  BY <1>1, <1>2, <1>5, <1>6, <1>7, RowReplaced

LEMMA Finished ==
    ASSUME RowsOK, NEW p \in Procs, Finish(p)
    PROVE  /\ reqs' \in [Procs -> {Idle} \cup Request]
           /\ reqs'[p] = Idle
           /\ \A q \in Procs : q # p => reqs'[q] = reqs[q]
BY DEF RowsOK, Finish

LEMMA FormOfForms ==
    ASSUME NEW q \in Forms
    PROVE  q[1] \in Docs /\ q[2] \in Form
BY StockAssumption

LEMMA CreateRows ==
    ASSUME RowsOK, NEW q \in Forms, Create(q[1], q[2])
    PROVE  /\ RowsOK'
           /\ docs'[q[1]] = [status |-> "draft", form |-> q[2]] /\ docs[q[1]].status = "absent"
           /\ \A e \in Docs : e # q[1] => docs'[e] = docs[e]
<1>1. PICK n : n = [status |-> "draft", form |-> q[2]]
  OBVIOUS
<1>2. n \in DocRow
  BY <1>1, FormOfForms DEF DocRow, Statuses
<1>3. docs' = [docs EXCEPT ![q[1]] = n]
  BY <1>1 DEF Create
<1>4. docs \in [Docs -> {Absent} \cup DocRow]
  BY DEF RowsOK
<1>5. /\ docs' \in [Docs -> {Absent} \cup DocRow]
      /\ docs'[q[1]] = n
      /\ \A e \in Docs : e # q[1] => docs'[e] = docs[e]
  BY <1>2, <1>3, <1>4, FormOfForms, RowReplaced
<1>6. UNCHANGED <<movements, item, booked, locked, reqs>> /\ docs[q[1]].status = "absent"
  BY DEF Create
<1>7. RowsOK'
  BY <1>5, <1>6 DEF RowsOK
<1> QED
  BY <1>1, <1>5, <1>6, <1>7

LEMMA ReadRows ==
    ASSUME RowsOK, NEW p \in Procs, NEW op, NEW d \in Docs, NEW form \in Form,
           Read(p, op, d, form)
    PROVE  /\ RowsOK' /\ UNCHANGED rows /\ reqs[p] = Idle /\ docs[d] \in DocRow
           /\ reqs'[p] = [stage |-> "checked", op |-> op, id |-> d, row |-> docs[d],
                          form |-> form]
           /\ \A q \in Procs : q # p => reqs'[q] = reqs[q]
<1>1. docs[d] \in DocRow
  BY RowExists DEF Read, Exists
<1>2. op \in Ops
  <2>1. <<op, d>> \in Ops \X Docs
    BY StockAssumption DEF Read
  <2> QED
    BY <2>1
<1>3. PICK n : n = [stage |-> "checked", op |-> op, id |-> d, row |-> docs[d], form |-> form]
  OBVIOUS
<1>4. n \in Request
  BY <1>1, <1>2, <1>3 DEF Request
<1>5. reqs' = [reqs EXCEPT ![p] = n] /\ reqs[p] = Idle /\ UNCHANGED rows
  BY <1>3 DEF Read
<1>6. reqs \in [Procs -> {Idle} \cup Request]
  BY DEF RowsOK
<1>7. /\ reqs' \in [Procs -> {Idle} \cup Request] /\ reqs'[p] = n
      /\ \A q \in Procs : q # p => reqs'[q] = reqs[q]
  BY <1>4, <1>5, <1>6
<1>8. RowsOK'
  BY <1>5, <1>7 DEF RowsOK, rows
<1> QED
  BY <1>1, <1>3, <1>5, <1>7, <1>8

-------------------------------------------------------------------------------
(* What a committed request leaves.                                         *)

\* The request p changed the document d, and no other document or request.
Committed(p, d) ==
    /\ docs' \in [Docs -> {Absent} \cup DocRow]
    /\ \A e \in Docs : e # d => SameLine(docs[e], docs'[e]) /\ booked'[e] = booked[e]
    /\ booked' = [e \in Docs |-> booked'[e]]
    /\ reqs' \in [Procs -> {Idle} \cup Request]
    /\ \A q \in Procs : q # p => reqs'[q] = reqs[q]

SameColumns ==
    /\ item'.loc = item.loc /\ item'.qty = item.qty
    /\ item' = [average |-> item'.average, loc |-> item'.loc, qty |-> item'.qty,
                cost |-> item'.cost]

LEMMA SameItem ==
    ASSUME RowsOK, UNCHANGED item
    PROVE  SameColumns
BY DEF RowsOK, SameColumns

LEMMA NewAverage ==
    ASSUME RowsOK, NEW a, item' = [item EXCEPT !.average = a]
    PROVE  SameColumns
<1>1. item = [average |-> item.average, loc |-> item.loc, qty |-> item.qty, cost |-> item.cost]
  BY DEF RowsOK
<1>2. item' = [average |-> a, loc |-> item.loc, qty |-> item.qty, cost |-> item.cost]
  BY <1>1
<1> QED
  BY <1>2 DEF SameColumns

LEMMA RowsAfter ==
    ASSUME RowsOK, NEW p, NEW d, Committed(p, d), SameColumns, IsTable(movements')
    PROVE  RowsOK'
BY DEF RowsOK, Committed, SameColumns

LEMMA Booking ==
    ASSUME RowsOK, NEW d \in Docs, NEW amounts, booked' = [booked EXCEPT ![d] = amounts]
    PROVE  /\ booked'[d] = amounts /\ \A e \in Docs : e # d => booked'[e] = booked[e]
           /\ booked' = [e \in Docs |-> booked'[e]]
BY DEF RowsOK

LEMMA NoBooking ==
    ASSUME RowsOK, booked' = booked
    PROVE  /\ \A e \in Docs : booked'[e] = booked[e]
           /\ booked' = [e \in Docs |-> booked'[e]]
BY DEF RowsOK

\* A request that sets the status of its document and returns.
LEMMA StatusCommitted ==
    ASSUME RowsOK, NEW p \in Procs, NEW op, Committing(p, op),
           NEW d, d = reqs[p].id, NEW status \in Statuses, status # "absent",
           SetStatus(d, status), Finish(p),
           \A e \in Docs : e # d => booked'[e] = booked[e],
           booked' = [e \in Docs |-> booked'[e]]
    PROVE  /\ d \in Docs /\ docs[d] \in DocRow /\ reqs[p] # Idle
           /\ Committed(p, d)
           /\ docs'[d] = [status |-> status, form |-> docs[d].form]
           /\ reqs'[p] = Idle
<1>1. reqs[p] # Idle /\ docs[d] \in DocRow
  BY AtWork
<1>2. d \in Docs
  BY <1>1, InProgress
<1>3. /\ docs' \in [Docs -> {Absent} \cup DocRow]
      /\ docs'[d] = [status |-> status, form |-> docs[d].form]
      /\ \A e \in Docs : e # d => docs'[e] = docs[e]
  BY <1>1, <1>2, StatusIsSet
<1>4. /\ reqs' \in [Procs -> {Idle} \cup Request]
      /\ reqs'[p] = Idle
      /\ \A q \in Procs : q # p => reqs'[q] = reqs[q]
  BY Finished
<1>5. Committed(p, d)
  BY <1>3, <1>4 DEF Committed, SameLine
<1> QED
  BY <1>1, <1>2, <1>3, <1>4, <1>5

\* The four postings and what they have in common.
Posted(p, d) ==
    /\ d \in Docs /\ docs[d] \in DocRow /\ reqs[p] # Idle
    /\ reqs[p].stage = "checked" /\ reqs[p].op = "post"
    /\ reqs[p].row.form.qty \in Int
    /\ RowsOK' /\ Committed(p, d) /\ SameColumns /\ reqs'[p] = Idle
    /\ docs'[d] = [status |-> "posted", form |-> docs[d].form]

LEMMA PostedSo ==
    ASSUME RowsOK, NEW p \in Procs, Committing(p, "post"), NEW d, d = reqs[p].id,
           SetStatus(d, "posted"), Finish(p), SameColumns, IsTable(movements'),
           \A e \in Docs : e # d => booked'[e] = booked[e],
           booked' = [e \in Docs |-> booked'[e]]
    PROVE  Posted(p, d)
<1>1. "posted" \in Statuses /\ "posted" # "absent"
  BY DEF Statuses
<1>2. /\ d \in Docs /\ docs[d] \in DocRow /\ reqs[p] # Idle
      /\ Committed(p, d)
      /\ docs'[d] = [status |-> "posted", form |-> docs[d].form]
      /\ reqs'[p] = Idle
  BY <1>1, StatusCommitted
<1>3. RowsOK'
  BY <1>2, RowsAfter
<1>4. reqs[p].row.form.qty \in Int
  BY <1>2, InProgress
<1>5. reqs[p].stage = "checked" /\ reqs[p].op = "post"
  BY DEF Committing
<1> QED
  BY <1>2, <1>3, <1>4, <1>5 DEF Posted

LEMMA RequestedQty ==
    ASSUME RowsOK, NEW p \in Procs, NEW op, Committing(p, op)
    PROVE  /\ reqs[p].id \in Docs /\ reqs[p].row.form.qty \in Int
           /\ 0 - reqs[p].row.form.qty \in Int /\ reqs[p].row \in DocRow
<1>1. reqs[p].id \in Docs /\ reqs[p].row.form.qty \in Int /\ reqs[p].row \in DocRow
  BY AtWork, InProgress
<1>2. \A n \in Int : 0 - n \in Int
  OBVIOUS
<1> QED
  BY <1>1, <1>2

LEMMA TableGrows ==
    ASSUME RowsOK, NEW read, NEW doc, NEW loc, NEW qty \in Int, NEW cost
    PROVE  IsTable(Moved(movements, read, doc, loc, qty, cost))
BY MovedEffects DEF RowsOK

LEMMA PurchasePosted ==
    ASSUME RowsOK, NEW p \in Procs, PurchasePost(p),
           NEW d, d = reqs[p].id, NEW form, form = reqs[p].row.form
    PROVE  /\ Posted(p, d) /\ d \in Purchases
           /\ movements' = Moved(movements, seen[p].table, d, form.loc, form.qty, form.cost)
           /\ booked'[d] = Append(booked[d], form.qty * form.cost)
<1>1. /\ Committing(p, "post") /\ d \in Purchases
      /\ movements' = Moved(movements, seen[p].table, d, form.loc, form.qty, form.cost)
      /\ booked' = [booked EXCEPT ![d] = Append(booked[d], form.qty * form.cost)]
      /\ SetStatus(d, "posted") /\ Finish(p)
  BY DEF PurchasePost
<1>2. PICK a : item' = [item EXCEPT !.average = a]
  <2>1. item' = [item EXCEPT !.average =
                   Averaged(seen[p].average, OnHand(seen[p].table), form.qty, form.cost)]
    BY DEF PurchasePost
  <2> QED
    BY <2>1
<1>3. SameColumns
  BY <1>2, NewAverage
<1>4. d \in Docs /\ form.qty \in Int
  BY <1>1, RequestedQty
<1>5. IsTable(movements')
  BY <1>1, <1>4, TableGrows
<1>6. PICK amounts : amounts = Append(booked[d], form.qty * form.cost)
  OBVIOUS
<1>7. /\ booked'[d] = amounts /\ \A e \in Docs : e # d => booked'[e] = booked[e]
      /\ booked' = [e \in Docs |-> booked'[e]]
  BY <1>1, <1>4, <1>6, Booking
<1>8. Posted(p, d)
  BY <1>1, <1>3, <1>5, <1>7, PostedSo
<1> QED
  BY <1>1, <1>6, <1>7, <1>8

LEMMA PurchaseReturnPosted ==
    ASSUME RowsOK, NEW p \in Procs, PurchaseReturnPost(p),
           NEW d, d = reqs[p].id, NEW form, form = reqs[p].row.form
    PROVE  /\ Posted(p, d) /\ d \in PurchaseReturns
           /\ movements' = Moved(movements, seen[p].table, d, form.loc, 0 - form.qty, form.cost)
           /\ booked'[d] = Append(booked[d], form.qty * form.cost)
<1>1. /\ Committing(p, "post") /\ d \in PurchaseReturns
      /\ movements' = Moved(movements, seen[p].table, d, form.loc, 0 - form.qty, form.cost)
      /\ booked' = [booked EXCEPT ![d] = Append(booked[d], form.qty * form.cost)]
      /\ SetStatus(d, "posted") /\ Finish(p)
      /\ item' = item
  BY DEF PurchaseReturnPost
<1>2. d \in Docs /\ 0 - form.qty \in Int
  BY <1>1, RequestedQty
<1>3. IsTable(movements')
  BY <1>1, <1>2, TableGrows
<1>4. PICK amounts : amounts = Append(booked[d], form.qty * form.cost)
  OBVIOUS
<1>5. /\ booked'[d] = amounts /\ \A e \in Docs : e # d => booked'[e] = booked[e]
      /\ booked' = [e \in Docs |-> booked'[e]]
  BY <1>1, <1>2, <1>4, Booking
<1>6. Posted(p, d)
  BY <1>1, <1>3, <1>5, SameItem, PostedSo
<1> QED
  BY <1>1, <1>4, <1>5, <1>6

LEMMA SalesReturnPosted ==
    ASSUME RowsOK, NEW p \in Procs, SalesReturnPost(p),
           NEW d, d = reqs[p].id, NEW form, form = reqs[p].row.form
    PROVE  /\ Posted(p, d) /\ d \in SalesReturns
           /\ movements' = Moved(movements, seen[p].table, d, form.loc, form.qty, seen[p].average)
           /\ booked'[d] = Append(booked[d], form.qty * seen[p].average)
<1>1. /\ Committing(p, "post") /\ d \in SalesReturns
      /\ movements' = Moved(movements, seen[p].table, d, form.loc, form.qty, seen[p].average)
      /\ booked' = [booked EXCEPT ![d] = Append(booked[d], form.qty * seen[p].average)]
      /\ SetStatus(d, "posted") /\ Finish(p)
  BY DEF SalesReturnPost
<1>2. PICK a : item' = [item EXCEPT !.average = a]
  <2>1. item' = [item EXCEPT !.average =
                   Averaged(seen[p].average, OnHand(seen[p].table), form.qty,
                            seen[p].average)]
    BY DEF SalesReturnPost
  <2> QED
    BY <2>1
<1>3. SameColumns
  BY <1>2, NewAverage
<1>4. d \in Docs /\ form.qty \in Int
  BY <1>1, RequestedQty
<1>5. IsTable(movements')
  BY <1>1, <1>4, TableGrows
<1>6. PICK amounts : amounts = Append(booked[d], form.qty * seen[p].average)
  OBVIOUS
<1>7. /\ booked'[d] = amounts /\ \A e \in Docs : e # d => booked'[e] = booked[e]
      /\ booked' = [e \in Docs |-> booked'[e]]
  BY <1>1, <1>4, <1>6, Booking
<1>8. Posted(p, d)
  BY <1>1, <1>3, <1>5, <1>7, PostedSo
<1> QED
  BY <1>1, <1>6, <1>7, <1>8

LEMMA TransferPosted ==
    ASSUME RowsOK, NEW p \in Procs, TransferPost(p),
           NEW d, d = reqs[p].id, NEW form, form = reqs[p].row.form,
           NEW read, read = seen[p].table,
           NEW out, out = Moved(movements, read, d, form.loc, 0 - form.qty, NoCost),
           NEW left, left = Moved(read, read, d, form.loc, 0 - form.qty, NoCost)
    PROVE  /\ Posted(p, d) /\ d \in Transfers
           /\ movements' = Moved(out, left, d, form.to, form.qty, NoCost)
           /\ UNCHANGED booked
<1>1. /\ Committing(p, "post") /\ d \in Transfers
      /\ movements' = Moved(out, left, d, form.to, form.qty, NoCost)
      /\ SetStatus(d, "posted") /\ Finish(p)
      /\ item' = item /\ booked' = booked
  BY DEF TransferPost
<1>2. form.qty \in Int /\ 0 - form.qty \in Int
  BY <1>1, RequestedQty
<1>3. IsTable(out)
  BY <1>2, TableGrows
<1>4. PICK both : both = Moved(out, left, d, form.to, form.qty, NoCost)
  OBVIOUS
<1>5. IsTable(both)
  BY <1>2, <1>3, <1>4, MovedEffects
<1>6. movements' = both
  BY <1>1, <1>4
<1>7. /\ \A e \in Docs : e # d => booked'[e] = booked[e]
      /\ booked' = [e \in Docs |-> booked'[e]]
  BY <1>1, NoBooking
<1>8. Posted(p, d)
  BY <1>1, <1>5, <1>6, <1>7, SameItem, PostedSo
<1> QED
  BY <1>1, <1>8

-------------------------------------------------------------------------------
(* Corrections, changes of status, sales and the opening.                   *)

\* Undoing moves goods of the document itself or none.
LEMMA ReversedIsMoved ==
    ASSUME NEW read, NEW d, NEW row \in DocRow, row.status = "posted"
    PROVE  \E qty \in Int : \E cost :
                Reversed(read, d, row) = Moved(movements, read, d, row.form.loc, qty, cost)
<1>1. row.form.qty \in Int /\ 0 - row.form.qty \in Int
  <2>1. row.form.qty \in Int
    BY RowShape
  <2>2. \A n \in Int : 0 - n \in Int
    OBVIOUS
  <2> QED
    BY <2>1, <2>2
<1>2. CASE d \in Purchases
  <2>1. Reversed(read, d, row)
          = Moved(movements, read, d, row.form.loc, 0 - row.form.qty, row.form.cost)
    BY <1>2 DEF Reversed, PurchaseReversed
  <2> QED
    BY <1>1, <2>1
<1>3. CASE d \notin Purchases /\ d \in PurchaseReturns
  <2>1. Reversed(read, d, row) = Moved(movements, read, d, row.form.loc, 0 - row.form.qty, 0)
    BY <1>3 DEF Reversed, PurchaseReturnReversed
  <2> QED
    BY <1>1, <2>1
<1>4. CASE d \notin Purchases /\ d \notin PurchaseReturns
  <2>1. Reversed(read, d, row) = Moved(movements, read, d, row.form.loc, row.form.qty, 0)
    BY <1>4 DEF Reversed, SalesReturnReversed
  <2> QED
    BY <1>1, <2>1
<1> QED
  BY <1>2, <1>3, <1>4

LEMMA ReversedTable ==
    ASSUME RowsOK, NEW read, NEW d, NEW row \in DocRow
    PROVE  /\ IsTable(Reversed(read, d, row))
           /\ Running(movements) /\ (row.status = "posted" => read = movements)
                => Running(Reversed(read, d, row))
<1>1. CASE row.status = "posted"
  <2>1. PICK qty \in Int : \E cost :
            Reversed(read, d, row) = Moved(movements, read, d, row.form.loc, qty, cost)
    BY <1>1, ReversedIsMoved
  <2>2. PICK cost : Reversed(read, d, row) = Moved(movements, read, d, row.form.loc, qty, cost)
    BY <2>1
  <2>3. PICK ns : ns = Reversed(read, d, row)
    OBVIOUS
  <2>4. IsTable(movements)
    BY DEF RowsOK
  <2>5. IsTable(ns) /\ (Running(movements) /\ read = movements => Running(ns))
    BY <2>2, <2>3, <2>4, MovedEffects
  <2> QED
    BY <1>1, <2>3, <2>5
<1>2. CASE row.status # "posted"
  BY <1>2 DEF Reversed, RowsOK
<1> QED
  BY <1>1, <1>2

LEMMA UnbookedSo ==
    ASSUME RowsOK, NEW d \in Docs, NEW row, booked' = Unbooked(d, row)
    PROVE  /\ booked'[d] = IF row.status = "posted" THEN <<>> ELSE booked[d]
           /\ \A e \in Docs : e # d => booked'[e] = booked[e]
           /\ booked' = [e \in Docs |-> booked'[e]]
<1>1. CASE row.status = "posted"
  <2>1. booked' = [booked EXCEPT ![d] = <<>>]
    BY <1>1 DEF Unbooked
  <2> QED
    BY <1>1, <2>1, Booking
<1>2. CASE row.status # "posted"
  <2>1. booked' = booked
    BY <1>2 DEF Unbooked
  <2> QED
    BY <1>2, <2>1, NoBooking
<1> QED
  BY <1>1, <1>2

LEMMA Edited ==
    ASSUME RowsOK, NEW p \in Procs, EditCommit(p),
           NEW d, d = reqs[p].id, NEW row, row = reqs[p].row
    PROVE  /\ d \in Docs /\ docs[d] \in DocRow /\ row \in DocRow /\ reqs[p] # Idle
           /\ reqs[p].stage = "checked" /\ reqs[p].op = "edit"
           /\ RowsOK' /\ Committed(p, d) /\ SameColumns
           /\ movements' = Reversed(seen[p].table, d, row)
           /\ booked'[d] = IF row.status = "posted" THEN <<>> ELSE booked[d]
           /\ docs'[d] = [status |-> IF row.status = "posted" THEN "draft" ELSE docs[d].status,
                          form |-> reqs[p].form]
           /\ IF row.status = "posted"
              THEN reqs'[p] # Idle /\ reqs'[p].id = d /\ reqs'[p].stage = "repost"
                                   /\ reqs'[p].op = "post"
              ELSE reqs'[p] = Idle
<1>1. /\ Committing(p, "edit")
      /\ movements' = Reversed(seen[p].table, d, row)
      /\ booked' = Unbooked(d, row)
      /\ docs' = [docs EXCEPT ![d].form = reqs[p].form,
                              ![d].status = IF row.status = "posted" THEN "draft" ELSE @]
      /\ row.status = "posted"
           => reqs' = [reqs EXCEPT ![p].stage = "repost", ![p].op = "post"]
      /\ row.status # "posted" => Finish(p)
      /\ item' = item
  BY DEF EditCommit
<1>2. reqs[p] # Idle /\ docs[d] \in DocRow
  BY <1>1, AtWork
<1>3. d \in Docs /\ row \in DocRow /\ reqs[p].form \in Form /\ reqs[p] \in Request
  BY <1>2, InProgress
<1>4. /\ booked'[d] = IF row.status = "posted" THEN <<>> ELSE booked[d]
      /\ \A e \in Docs : e # d => booked'[e] = booked[e]
      /\ booked' = [e \in Docs |-> booked'[e]]
  BY <1>1, <1>3, UnbookedSo
<1>5. PICK r : r = docs[d]
  OBVIOUS
<1>6. PICK s : s = IF row.status = "posted" THEN "draft" ELSE r.status
  OBVIOUS
<1>7. PICK f : f = reqs[p].form
  OBVIOUS
<1>8. PICK n : n = [status |-> s, form |-> f]
  OBVIOUS
<1>9. /\ r = [status |-> r.status, form |-> r.form]
      /\ r.status \in Statuses /\ r.status # "absent"
  BY <1>2, <1>5, RowShape
<1>10. n \in DocRow
  <2>1. "draft" \in Statuses /\ "draft" # "absent"
    BY DEF Statuses
  <2>2. s \in Statuses /\ s # "absent"
    BY <1>6, <1>9, <2>1
  <2> QED
    BY <1>3, <1>7, <1>8, <2>2 DEF DocRow
<1>11. docs' = [docs EXCEPT ![d] = n]
  <2>1. docs \in [Docs -> {Absent} \cup DocRow]
    BY DEF RowsOK
  <2>2. docs' = [docs EXCEPT ![d] = [[r EXCEPT !.form = f] EXCEPT !.status = s]]
    BY <1>1, <1>3, <1>5, <1>6, <1>7, <1>9, <2>1
  <2>3. PICK a : a = [r EXCEPT !.form = f]
    OBVIOUS
  <2>4. a = [status |-> r.status, form |-> f]
    BY <1>9, <2>3
  <2>5. [a EXCEPT !.status = s] = n
    BY <1>8, <2>4
  <2> QED
    BY <2>2, <2>3, <2>5
<1>12. /\ docs' \in [Docs -> {Absent} \cup DocRow] /\ docs'[d] = n
       /\ \A e \in Docs : e # d => docs'[e] = docs[e]
  <2>1. docs \in [Docs -> {Absent} \cup DocRow]
    BY DEF RowsOK
  <2> QED
    BY <1>3, <1>10, <1>11, <2>1, RowReplaced
<1>13. /\ reqs' \in [Procs -> {Idle} \cup Request]
       /\ \A q \in Procs : q # p => reqs'[q] = reqs[q]
       /\ IF row.status = "posted"
          THEN reqs'[p] # Idle /\ reqs'[p].id = d /\ reqs'[p].stage = "repost"
                               /\ reqs'[p].op = "post"
          ELSE reqs'[p] = Idle
  <2>1. CASE row.status = "posted"
    <3>1. PICK q : q = reqs[p]
      OBVIOUS
    <3>2. q = [stage |-> q.stage, op |-> q.op, id |-> q.id, row |-> q.row, form |-> q.form]
          /\ q.id \in Docs /\ q.row \in DocRow /\ q.form \in Form /\ q.id = d
      BY <1>3, <3>1 DEF Request
    <3>3. PICK m : m = [stage |-> "repost", op |-> "post", id |-> d, row |-> q.row,
                        form |-> q.form]
      OBVIOUS
    <3>4. m \in Request
      BY <1>3, <3>2, <3>3 DEF Request, Ops
    <3>5. reqs \in [Procs -> {Idle} \cup Request]
      BY DEF RowsOK
    <3>6. reqs' = [reqs EXCEPT ![p] = [[q EXCEPT !.stage = "repost"] EXCEPT !.op = "post"]]
      BY <1>1, <2>1, <3>1, <3>2, <3>5
    <3>7. [[q EXCEPT !.stage = "repost"] EXCEPT !.op = "post"] = m
      <4>1. PICK a : a = [q EXCEPT !.stage = "repost"]
        OBVIOUS
      <4>2. a = [stage |-> "repost", op |-> q.op, id |-> q.id, row |-> q.row, form |-> q.form]
        BY <3>2, <4>1
      <4>3. [a EXCEPT !.op = "post"] = m
        BY <3>2, <3>3, <4>2
      <4> QED
        BY <4>1, <4>3
    <3>8. /\ reqs' \in [Procs -> {Idle} \cup Request] /\ reqs'[p] = m
          /\ \A o \in Procs : o # p => reqs'[o] = reqs[o]
      BY <3>4, <3>5, <3>6, <3>7
    <3>9. m # Idle /\ m.id = d /\ m.stage = "repost" /\ m.op = "post"
      BY <3>3 DEF Idle
    <3> QED
      BY <2>1, <3>8, <3>9
  <2>2. CASE row.status # "posted"
    BY <1>1, <2>2, Finished
  <2> QED
    BY <2>1, <2>2
<1>14. Committed(p, d)
  BY <1>4, <1>12, <1>13 DEF Committed, SameLine
<1>15. SameColumns
  BY <1>1, SameItem
<1>16. IsTable(movements')
  BY <1>1, <1>3, ReversedTable
<1>17. RowsOK'
  BY <1>14, <1>15, <1>16, RowsAfter
<1>18. reqs[p].stage = "checked" /\ reqs[p].op = "edit"
  BY <1>1 DEF Committing
<1> QED
  BY <1>1, <1>2, <1>3, <1>4, <1>5, <1>6, <1>7, <1>8, <1>12, <1>13, <1>14, <1>15, <1>17, <1>18

LEMMA Removed ==
    ASSUME RowsOK, NEW p \in Procs, RemoveCommit(p),
           NEW d, d = reqs[p].id, NEW row, row = reqs[p].row
    PROVE  /\ d \in Docs /\ docs[d] \in DocRow /\ row \in DocRow /\ reqs[p] # Idle
           /\ reqs[p].stage = "checked" /\ reqs[p].op = "remove"
           /\ RowsOK' /\ Committed(p, d) /\ SameColumns /\ reqs'[p] = Idle
           /\ movements' = Reversed(seen[p].table, d, row)
           /\ booked'[d] = IF row.status = "posted" THEN <<>> ELSE booked[d]
           /\ docs'[d] = [status |-> "deleted", form |-> docs[d].form]
<1>1. /\ Committing(p, "remove")
      /\ movements' = Reversed(seen[p].table, d, row)
      /\ booked' = Unbooked(d, row)
      /\ docs' = [e \in Docs |->
                      IF e = d THEN [docs[d] EXCEPT !.status = "deleted"]
                      ELSE IF docs[e].status # "absent" /\ docs[e].form.of = d
                      THEN [docs[e] EXCEPT !.form.of = NoDoc]
                      ELSE docs[e]]
      /\ Finish(p) /\ item' = item
  BY DEF RemoveCommit
<1>2. reqs[p] # Idle /\ docs[d] \in DocRow
  BY <1>1, AtWork
<1>3. d \in Docs /\ row \in DocRow
  BY <1>2, InProgress
<1>4. /\ booked'[d] = IF row.status = "posted" THEN <<>> ELSE booked[d]
      /\ \A e \in Docs : e # d => booked'[e] = booked[e]
      /\ booked' = [e \in Docs |-> booked'[e]]
  BY <1>1, <1>3, UnbookedSo
<1>5. docs'[d] = [status |-> "deleted", form |-> docs[d].form] /\ docs'[d] \in DocRow
  <2>1. PICK r : r = docs[d]
    OBVIOUS
  <2>2. r = [status |-> r.status, form |-> r.form] /\ r.form \in Form
    BY <1>2, <2>1, RowShape
  <2>3. docs'[d] = [r EXCEPT !.status = "deleted"]
    BY <1>1, <1>3, <2>1
  <2>4. docs'[d] = [status |-> "deleted", form |-> r.form]
    BY <2>2, <2>3
  <2>5. "deleted" \in Statuses /\ "deleted" # "absent"
    BY DEF Statuses
  <2> QED
    BY <2>1, <2>2, <2>4, <2>5 DEF DocRow
<1>6. ASSUME NEW e \in Docs, e # d
      PROVE  SameLine(docs[e], docs'[e]) /\ docs'[e] \in {Absent} \cup DocRow
  <2>1. CASE docs[e].status # "absent" /\ docs[e].form.of = d
    <3>1. PICK r : r = docs[e]
      OBVIOUS
    <3>2. r \in DocRow
      BY <1>6, <2>1, <3>1, RowExists
    <3>3. PICK f : f = r.form
      OBVIOUS
    <3>4. r = [status |-> r.status, form |-> f] /\ f \in Form /\ r.status \in Statuses \ {"absent"}
      BY <3>2, <3>3, RowShape
    <3>5. f = [loc |-> f.loc, to |-> f.to, qty |-> f.qty, cost |-> f.cost, of |-> f.of]
          /\ f.loc \in Locations /\ f.to \in Locations /\ f.qty \in Quantities
          /\ f.cost \in Costs \cup {NoCost}
      BY <3>4 DEF Form
    <3>6. PICK g : g = [loc |-> f.loc, to |-> f.to, qty |-> f.qty, cost |-> f.cost,
                        of |-> NoDoc]
      OBVIOUS
    <3>7. g \in Form
      BY <3>5, <3>6 DEF Form
    <3>8. docs'[e] = [r EXCEPT !.form = [f EXCEPT !.of = NoDoc]]
      BY <1>1, <1>6, <2>1, <3>1, <3>3
    <3>9. docs'[e] = [status |-> r.status, form |-> g]
      BY <3>4, <3>5, <3>6, <3>8
    <3> QED
      BY <3>1, <3>3, <3>4, <3>6, <3>7, <3>9 DEF DocRow, SameLine
  <2>2. CASE ~(docs[e].status # "absent" /\ docs[e].form.of = d)
    <3>1. docs'[e] = docs[e]
      BY <1>1, <1>6, <2>2
    <3> QED
      BY <1>6, <3>1 DEF SameLine, RowsOK
  <2> QED
    BY <2>1, <2>2
<1>7. docs' \in [Docs -> {Absent} \cup DocRow]
  <2>1. \A e \in Docs : docs'[e] \in {Absent} \cup DocRow
    BY <1>5, <1>6
  <2>2. docs' = [e \in Docs |-> docs'[e]]
    BY <1>1
  <2> QED
    BY <2>1, <2>2
<1>8. /\ reqs' \in [Procs -> {Idle} \cup Request]
      /\ reqs'[p] = Idle
      /\ \A q \in Procs : q # p => reqs'[q] = reqs[q]
  BY <1>1, Finished
<1>9. Committed(p, d)
  BY <1>4, <1>6, <1>7, <1>8 DEF Committed
<1>10. SameColumns
  BY <1>1, SameItem
<1>11. IsTable(movements')
  BY <1>1, <1>3, ReversedTable
<1>12. RowsOK'
  BY <1>9, <1>10, <1>11, RowsAfter
<1>13. reqs[p].stage = "checked" /\ reqs[p].op = "remove"
  BY <1>1 DEF Committing
<1> QED
  BY <1>1, <1>2, <1>3, <1>4, <1>5, <1>8, <1>9, <1>10, <1>12, <1>13

\* What cancels, submits and rejects, and the status it sets.
Asks  == {"cancel", "submit", "reject"}
Given == {"cancelled", "pending", "draft"}

LEMMA StatusChanged ==
    ASSUME RowsOK, NEW p \in Procs, NEW op, NEW status \in Given,
           StatusCommit(p, op, status), NEW d, d = reqs[p].id
    PROVE  /\ d \in Docs /\ docs[d] \in DocRow /\ reqs[p] # Idle
           /\ reqs[p].stage = "checked" /\ reqs[p].op = op
           /\ RowsOK' /\ Committed(p, d) /\ SameColumns /\ reqs'[p] = Idle
           /\ UNCHANGED <<movements, booked>>
           /\ docs'[d] = [status |-> status, form |-> docs[d].form]
<1>1. /\ Committing(p, op) /\ SetStatus(d, status) /\ Finish(p)
      /\ movements' = movements /\ item' = item /\ booked' = booked
  BY DEF StatusCommit
<1>2. status \in Statuses /\ status # "absent"
  BY DEF Statuses, Given
<1>3. /\ \A e \in Docs : e # d => booked'[e] = booked[e]
      /\ booked' = [e \in Docs |-> booked'[e]]
  BY <1>1, NoBooking
<1>4. /\ d \in Docs /\ docs[d] \in DocRow /\ reqs[p] # Idle
      /\ Committed(p, d)
      /\ docs'[d] = [status |-> status, form |-> docs[d].form]
      /\ reqs'[p] = Idle
  BY <1>1, <1>2, <1>3, StatusCommitted
<1>5. SameColumns
  BY <1>1, SameItem
<1>6. IsTable(movements')
  BY <1>1 DEF RowsOK
<1>7. RowsOK'
  BY <1>4, <1>5, <1>6, RowsAfter
<1>8. reqs[p].stage = "checked" /\ reqs[p].op = op
  BY <1>1 DEF Committing
<1> QED
  BY <1>1, <1>4, <1>5, <1>7, <1>8

LEMMA Reposting ==
    ASSUME RowsOK, NEW p \in Procs, Repost(p), NEW d, d = reqs[p].id
    PROVE  /\ d \in Docs /\ reqs[p] # Idle /\ reqs[p].stage = "repost" /\ Unposted(d)
           /\ docs[d] \in DocRow
           /\ RowsOK' /\ UNCHANGED rows
           /\ reqs'[p] # Idle /\ reqs'[p].id = d /\ reqs'[p].op = reqs[p].op
           /\ reqs'[p].stage = "checked" /\ reqs'[p].row = docs[d]
           /\ \A q \in Procs : q # p => reqs'[q] = reqs[q]
<1>1. /\ reqs[p].stage = "repost" /\ Unposted(d) /\ UNCHANGED rows
      /\ reqs' = [reqs EXCEPT ![p].stage = "checked", ![p].row = docs[d]]
  BY DEF Repost
<1>2. reqs[p] # Idle
  BY <1>1 DEF Idle
<1>3. reqs[p] \in Request /\ d \in Docs
  BY <1>2, InProgress
<1>4. docs[d] \in DocRow
  BY <1>1, <1>3, RowExists DEF Unposted
<1>5. PICK q : q = reqs[p]
  OBVIOUS
<1>6. PICK r : r = docs[d]
  OBVIOUS
<1>7. q = [stage |-> q.stage, op |-> q.op, id |-> d, row |-> q.row, form |-> q.form]
      /\ q.op \in Ops /\ q.form \in Form
  BY <1>3, <1>5 DEF Request
<1>8. PICK m : m = [stage |-> "checked", op |-> q.op, id |-> d, row |-> r, form |-> q.form]
  OBVIOUS
<1>9. m \in Request
  BY <1>3, <1>4, <1>6, <1>7, <1>8 DEF Request
<1>10. reqs \in [Procs -> {Idle} \cup Request]
  BY DEF RowsOK
<1>11. reqs' = [reqs EXCEPT ![p] = [[q EXCEPT !.stage = "checked"] EXCEPT !.row = r]]
  BY <1>1, <1>5, <1>6, <1>7, <1>10
<1>12. [[q EXCEPT !.stage = "checked"] EXCEPT !.row = r] = m
  <2>1. PICK a : a = [q EXCEPT !.stage = "checked"]
    OBVIOUS
  <2>2. a = [stage |-> "checked", op |-> q.op, id |-> d, row |-> q.row, form |-> q.form]
    BY <1>7, <2>1
  <2>3. [a EXCEPT !.row = r] = m
    BY <1>8, <2>2
  <2> QED
    BY <2>1, <2>3
<1>13. /\ reqs' \in [Procs -> {Idle} \cup Request] /\ reqs'[p] = m
       /\ \A o \in Procs : o # p => reqs'[o] = reqs[o]
  BY <1>9, <1>10, <1>11, <1>12
<1>14. m # Idle /\ m.id = d /\ m.op = q.op /\ m.stage = "checked" /\ m.row = r
  BY <1>8 DEF Idle
<1>15. RowsOK'
  BY <1>1, <1>13 DEF RowsOK, rows
<1> QED
  BY <1>1, <1>2, <1>3, <1>4, <1>5, <1>6, <1>13, <1>14, <1>15

LEMMA Failed ==
    ASSUME RowsOK, NEW p \in Procs, Fail(p)
    PROVE  /\ RowsOK' /\ UNCHANGED rows /\ reqs'[p] = Idle
           /\ \A q \in Procs : q # p => reqs'[q] = reqs[q]
<1>1. Finish(p) /\ UNCHANGED rows
  BY DEF Fail
<1>2. /\ reqs' \in [Procs -> {Idle} \cup Request]
      /\ reqs'[p] = Idle
      /\ \A q \in Procs : q # p => reqs'[q] = reqs[q]
  BY <1>1, Finished
<1> QED
  BY <1>1, <1>2 DEF RowsOK, rows

\* Nothing happened to the documents and the requests.
Apart == UNCHANGED <<docs, booked, reqs>>

LEMMA Sold ==
    ASSUME RowsOK, NEW s \in Sales, Sell(s[1], s[2])
    PROVE  /\ RowsOK' /\ Apart /\ SameColumns
           /\ s[2] \in Int /\ 0 - s[2] \in Int
           /\ movements' = Moved(movements, seen[Invoice].table, Invoice, s[1], 0 - s[2], NoCost)
<1>1. movements' = Moved(movements, seen[Invoice].table, Invoice, s[1], 0 - s[2], NoCost)
      /\ UNCHANGED <<docs, item, booked, locked, reqs>>
  BY DEF Sell
<1>2. s[2] \in Int /\ 0 - s[2] \in Int
  <2>1. s[2] \in Quantities /\ Quantities \subseteq Nat
    BY StockAssumption
  <2>2. \A n \in Nat : n \in Int /\ 0 - n \in Int
    OBVIOUS
  <2> QED
    BY <2>1, <2>2
<1>3. IsTable(movements')
  BY <1>1, <1>2, TableGrows
<1>4. RowsOK'
  BY <1>1, <1>3 DEF RowsOK
<1>5. SameColumns
  BY <1>1, SameItem
<1> QED
  BY <1>1, <1>2, <1>4, <1>5 DEF Apart

LEMMA OpeningSet ==
    ASSUME RowsOK, OpeningHeld, NEW o \in Openings, NEW at, SetOpening(o[1], o[2], o[3], at)
    PROVE  /\ RowsOK' /\ Apart /\ Keeps(movements, movements') /\ OpeningHeld'
           /\ Running(movements) => Running(movements')
<1>1. PICK loc : loc = o[1]
  OBVIOUS
<1>2. PICK qty : qty = o[2]
  OBVIOUS
<1>3. PICK cost : cost = o[3]
  OBVIOUS
<1>4. qty \in Int
  <2>1. PICK C : Openings \subseteq Locations \X (Quantities \cup {0}) \X C
    BY StockAssumption
  <2>2. o[2] \in Quantities \cup {0}
    BY <2>1
  <2>3. Quantities \subseteq Nat
    BY StockAssumption
  <2>4. \A n \in Quantities \cup {0} : n \in Int
    BY <2>3
  <2> QED
    BY <1>2, <2>2, <2>4, Zenon
<1>5. /\ at \in Places(movements)
      /\ Apart /\ item'.loc = loc /\ item'.qty = qty
      /\ item' = [average |-> item'.average, loc |-> item'.loc, qty |-> item'.qty,
                  cost |-> item'.cost]
  <2>1. Apart
    BY DEF SetOpening, Apart
  <2>2. PICK a : item' = [average |-> a, loc |-> loc, qty |-> qty, cost |-> cost]
    BY <1>1, <1>2, <1>3 DEF SetOpening
  <2>3. at \in Places(movements)
    BY DEF SetOpening, Rest, Places
  <2> QED
    BY <2>1, <2>2, <2>3
<1>6. \/ movements' = Rebalanced(Put(movements, loc, qty, cost, at), Left(movements) \cup {loc})
      \/ qty = 0 /\ movements' = Rebalanced(Rest(movements), Left(movements))
  <2>1. CASE qty = 0 /\ (cost = NoCost \/ ~Opened(movements))
    <3>1. movements' = Rebalanced(Rest(movements), Left(movements) \cup {})
      BY <1>1, <1>2, <1>3, <2>1 DEF SetOpening, Rest, Left
    <3>2. Left(movements) \cup {} = Left(movements)
      OBVIOUS
    <3> QED
      BY <2>1, <3>1, <3>2
  <2>2. CASE ~(qty = 0 /\ (cost = NoCost \/ ~Opened(movements)))
    BY <1>1, <1>2, <1>3, <2>2 DEF SetOpening, Put, Rest, Left
  <2> QED
    BY <2>1, <2>2
<1>7. IsTable(movements) /\ OnlyOne(movements)
  BY DEF RowsOK, OpeningHeld
<1>8. PICK ns : ns = movements'
  OBVIOUS
<1>9. OpeningSaid(movements, ns, loc, qty)
  BY <1>4, <1>5, <1>6, <1>7, <1>8, PutAgain, TakenAway
<1>10. /\ Keeps(movements, ns) /\ OpeningHeld'
       /\ Running(movements) => Running(ns)
  BY <1>5, <1>8, <1>9 DEF OpeningHeld, OpeningSaid, OpeningRow
<1>11. RowsOK'
  <2>1. IsTable(ns)
    BY <1>10 DEF Keeps
  <2> QED
    BY <1>4, <1>5, <1>8, <2>1 DEF RowsOK, Apart
<1> QED
  BY <1>5, <1>8, <1>10, <1>11

-------------------------------------------------------------------------------
(* The steps.                                                               *)

\* A request starts with the form of its document, or with one that clients send for it.
Started(p, op, d, form) ==
    /\ Read(p, op, d, form) /\ Allowed(op, d, docs[d])
    /\ form = docs[d].form \/ <<d, form>> \in Forms

LEMMA Reads ==
    ASSUME RowsOK, NEW p \in Procs, NEW d \in Docs,
           \/ PostRead(p, d)
           \/ (d \notin Transfers /\ Discard(p, d)) \/ TransferRemove(p, d)
           \/ PurchaseCancel(p, d) \/ PurchaseReturnCancel(p, d)
           \/ SalesReturnCancel(p, d) \/ TransferCancel(p, d)
           \/ PurchaseApproval(p, d) \/ PurchaseReturnApproval(p, d)
           \/ SalesReturnApproval(p, d) \/ TransferApproval(p, d)
    PROVE  \E op \in Ops, form \in Form : Started(p, op, d, form)
<1>1. Exists(d) => docs[d] \in DocRow /\ docs[d].form \in Form
  BY RowExists, RowShape DEF Exists
<1>2. {"post", "edit", "remove", "cancel", "submit", "reject"} = Ops
  BY DEF Ops
<1>3. CASE PostRead(p, d)
  BY <1>1, <1>2, <1>3 DEF PostRead, Unposted, Read, Allowed, Started
<1>4. CASE Discard(p, d)
  BY <1>1, <1>2, <1>4 DEF Discard, Read, Allowed, Started
<1>5. CASE Cancel(p, d)
  BY <1>1, <1>2, <1>5 DEF Cancel, Unposted, Read, Allowed, Started
<1>6. CASE Approval(p, d)
  BY <1>1, <1>2, <1>6 DEF Approval, Read, Allowed, Started
<1> QED
  BY <1>3, <1>4, <1>5, <1>6
     DEF TransferRemove, PurchaseCancel, PurchaseReturnCancel, SalesReturnCancel,
         TransferCancel, PurchaseApproval, PurchaseReturnApproval, SalesReturnApproval,
         TransferApproval

LEMMA Edits ==
    ASSUME RowsOK, NEW p \in Procs, NEW q \in Forms,
           \/ PurchaseEdit(p, q[1], q[2]) \/ PurchaseReturnEdit(p, q[1], q[2])
           \/ SalesReturnEdit(p, q[1], q[2]) \/ TransferEdit(p, q[1], q[2])
    PROVE  Started(p, "edit", q[1], q[2])
<1>1. /\ Read(p, "edit", q[1], q[2])
      /\ docs[q[1]].status = "posted" => q[1] \in Purchases
  BY DEF PurchaseEdit, PurchaseReturnEdit, SalesReturnEdit, TransferEdit, Edit
<1>2. <<q[1], q[2]>> \in Forms
  BY StockAssumption
<1> QED
  BY <1>1, <1>2 DEF Started, Allowed

Posting(p) == PurchasePost(p) \/ PurchaseReturnPost(p) \/ SalesReturnPost(p) \/ TransferPost(p)

LEMMA PostingPosts ==
    ASSUME RowsOK, NEW p \in Procs, Posting(p)
    PROVE  Posted(p, reqs[p].id)
<1>1. CASE TransferPost(p)
  <2>1. PICK d, form : d = reqs[p].id /\ form = reqs[p].row.form
    OBVIOUS
  <2>2. PICK read : read = seen[p].table
    OBVIOUS
  <2>3. PICK out : out = Moved(movements, read, d, form.loc, 0 - form.qty, NoCost)
    OBVIOUS
  <2>4. PICK left : left = Moved(read, read, d, form.loc, 0 - form.qty, NoCost)
    OBVIOUS
  <2> QED
    BY <1>1, <2>1, <2>2, <2>3, <2>4, TransferPosted
<1> QED
  BY <1>1, PurchasePosted, PurchaseReturnPosted, SalesReturnPosted DEF Posting

\* The stock is read, or the period closed.
Quiet == UNCHANGED <<docs, movements, item, booked, reqs>>

\* The steps by what they do, which the proofs below go through.
LEMMA Steps ==
    ASSUME RowsOK, Next
    PROVE  \/ \E q \in Forms : Create(q[1], q[2])
           \/ \E p \in Procs, op \in Ops, d \in Docs, form \in Form :
                 Started(p, op, d, form)
           \/ \E p \in Procs :
                 \/ Posting(p)
                 \/ EditCommit(p) \/ Repost(p) \/ RemoveCommit(p)
                 \/ \E op \in Asks, status \in Given :
                       StatusCommit(p, op, status)
                 \/ Fail(p)
           \/ \E s \in Sales : Sell(s[1], s[2])
           \/ \E o \in Openings : \E at : SetOpening(o[1], o[2], o[3], at)
           \/ Quiet
<1>1. ASSUME NEW q \in Forms,
             \/ PurchaseCreate(q[1], q[2]) \/ PurchaseReturnCreate(q[1], q[2])
             \/ SalesReturnCreate(q[1], q[2]) \/ TransferCreate(q[1], q[2])
      PROVE  Create(q[1], q[2])
  BY <1>1 DEF PurchaseCreate, PurchaseReturnCreate, SalesReturnCreate, TransferCreate
<1>2. ASSUME NEW q \in Forms, NEW p \in Procs,
             \/ PurchaseEdit(p, q[1], q[2]) \/ PurchaseReturnEdit(p, q[1], q[2])
             \/ SalesReturnEdit(p, q[1], q[2]) \/ TransferEdit(p, q[1], q[2])
      PROVE  \E op \in Ops, d \in Docs, form \in Form :
                Started(p, op, d, form)
  <2>1. Started(p, "edit", q[1], q[2])
    BY <1>2, Edits
  <2>2. "edit" \in Ops /\ q[1] \in Docs /\ q[2] \in Form
    BY FormOfForms DEF Ops
  <2> QED
    BY <2>1, <2>2
<1>3. ASSUME NEW p \in Procs,
             \/ StatusCommit(p, "cancel", "cancelled") \/ StatusCommit(p, "submit", "pending")
             \/ StatusCommit(p, "reject", "draft")
      PROVE  \E op \in Asks, status \in Given :
                StatusCommit(p, op, status)
  <2>1. /\ "cancel" \in Asks /\ "submit" \in Asks /\ "reject" \in Asks
        /\ "cancelled" \in Given /\ "pending" \in Given /\ "draft" \in Given
    BY DEF Asks, Given
  <2> QED
    BY <1>3, <2>1
<1>4. ASSUME SetLock \/ SaleRead \/ SaleFails \/ \E p \in Procs : ReadStock(p)
      PROVE  Quiet
  BY <1>4 DEF SetLock, SaleRead, SaleFails, ReadStock, ReadBy, Quiet, rows
<1> QED
  BY <1>1, <1>2, <1>3, <1>4, Reads DEF Next, Posting

\* A request that other documents change around finds its own as it left it.
LEMMA ServedApart ==
    ASSUME RowsOK, Served, DocumentsApart, NEW p \in Procs, reqs[p] # Idle,
           \A e \in Docs : e # reqs[p].id => SameLine(docs[e], docs'[e]),
           docs' \in [Docs -> {Absent} \cup DocRow],
           NEW q \in Procs, q # p, reqs'[q] = reqs[q], reqs[q] # Idle
    PROVE  ServedBy(reqs[q])'
<1>1. PICK r : r = reqs[q] /\ r = reqs'[q]
  OBVIOUS
<1>2. /\ docs[r.id] \in DocRow /\ r.id \in Docs /\ r.id # reqs[p].id
      /\ r.stage = "checked" => SameLine(docs[r.id], r.row) /\ Allowed(r.op, r.id, docs[r.id])
      /\ r.stage = "repost" => r.op = "post" /\ docs[r.id].status = "draft"
  BY <1>1, InProgress DEF Served, ServedBy, DocumentsApart
<1>3. SameLine(docs[r.id], docs'[r.id]) /\ docs[r.id].status # "absent"
  BY <1>2, RowShape
<1>4. docs'[r.id] \in DocRow
  BY <1>2, <1>3 DEF SameLine, Absent
<1>5. SameLine(docs[r.id], r.row) => SameLine(docs'[r.id], r.row)
  BY <1>3 DEF SameLine
<1>6. Allowed(r.op, r.id, docs[r.id]) => Allowed(r.op, r.id, docs'[r.id])
  BY <1>3 DEF Allowed, SameLine
<1>7. r.stage = "checked" => SameLine(docs'[r.id], r.row) /\ Allowed(r.op, r.id, docs'[r.id])
  BY <1>2, <1>5, <1>6
<1>8. r.stage = "repost" => r.op = "post" /\ docs'[r.id].status = "draft"
  BY <1>2, <1>3 DEF SameLine
<1> QED
  BY <1>1, <1>4, <1>7, <1>8 DEF ServedBy

\* A request finds its document as it left it: no other is at work on it.
LEMMA StaysServed ==
    ASSUME DocumentsApart, RowsOK, Served, [Next]_vars
    PROVE  Served'
<1>1. CASE UNCHANGED vars
  BY <1>1 DEF vars, Served, ServedBy, Allowed, SameLine
<1>2. ASSUME NEW q \in Forms, Create(q[1], q[2])
      PROVE  Served'
  <2>1. /\ docs[q[1]].status = "absent" /\ reqs' = reqs
        /\ \A e \in Docs : e # q[1] => docs'[e] = docs[e]
    BY <1>2, CreateRows DEF Create
  <2>2. ASSUME NEW p \in Procs, reqs[p] # Idle
        PROVE  ServedBy(reqs[p])'
    <3>1. ServedBy(reqs[p]) /\ reqs[p].id \in Docs
      BY <2>2, InProgress DEF Served
    <3>2. docs[reqs[p].id].status # "absent"
      BY <3>1, RowShape DEF ServedBy
    <3>3. docs'[reqs[p].id] = docs[reqs[p].id]
      BY <2>1, <3>1, <3>2
    <3> QED
      BY <2>1, <3>1, <3>3 DEF ServedBy
  <2> QED
    BY <2>1, <2>2 DEF Served
<1>3. ASSUME NEW p \in Procs, \A q \in Procs : q # p => reqs'[q] = reqs[q],
             \/ docs' = docs
             \/ reqs[p] # Idle /\ Committed(p, reqs[p].id),
             reqs'[p] # Idle => ServedBy(reqs[p])'
      PROVE  Served'
  <2>1. ASSUME NEW q \in Procs, q # p, reqs[q] # Idle PROVE ServedBy(reqs[q])'
    <3>1. reqs'[q] = reqs[q] /\ ServedBy(reqs[q])
      BY <1>3, <2>1 DEF Served
    <3>2. CASE docs' = docs
      BY <3>1, <3>2 DEF ServedBy, Allowed, SameLine
    <3>3. CASE reqs[p] # Idle /\ Committed(p, reqs[p].id)
      BY <2>1, <3>1, <3>3, ServedApart DEF Committed
    <3> QED
      BY <1>3, <3>2, <3>3
  <2> QED
    BY <1>3, <2>1 DEF Served
<1>4. ASSUME NEW p \in Procs, NEW op \in Ops, NEW d \in Docs, NEW form \in Form,
             Read(p, op, d, form), Allowed(op, d, docs[d])
      PROVE  Served'
  <2>1. /\ UNCHANGED rows /\ docs[d] \in DocRow
        /\ reqs'[p] = [stage |-> "checked", op |-> op, id |-> d, row |-> docs[d],
                       form |-> form]
        /\ \A q \in Procs : q # p => reqs'[q] = reqs[q]
    BY <1>4, ReadRows
  <2>2. /\ reqs'[p].stage = "checked" /\ reqs'[p].op = op /\ reqs'[p].id = d
        /\ reqs'[p].row = docs[d] /\ docs' = docs
    BY <2>1 DEF rows
  <2>3. ServedBy(reqs[p])'
    BY <1>4, <2>1, <2>2 DEF ServedBy, Allowed, SameLine
  <2> QED
    BY <1>3, <2>1, <2>2, <2>3
<1>5. ASSUME NEW p \in Procs, Posting(p)
      PROVE  Served'
  <2>1. Posted(p, reqs[p].id)
    BY <1>5, PostingPosts
  <2> QED
    BY <1>3, <2>1 DEF Posted, Committed
<1>6. ASSUME NEW p \in Procs, EditCommit(p)
      PROVE  Served'
  <2>1. PICK d : d = reqs[p].id
    OBVIOUS
  <2>2. PICK row : row = reqs[p].row
    OBVIOUS
  <2>3. /\ d \in Docs /\ Committed(p, d) /\ RowsOK' /\ reqs[p] # Idle
        /\ docs'[d] = [status |-> IF row.status = "posted" THEN "draft" ELSE docs[d].status,
                       form |-> reqs[p].form]
        /\ IF row.status = "posted"
           THEN reqs'[p] # Idle /\ reqs'[p].id = d /\ reqs'[p].stage = "repost"
                                /\ reqs'[p].op = "post"
           ELSE reqs'[p] = Idle
    BY <1>6, <2>1, <2>2, Edited
  <2>4. ASSUME row.status = "posted" PROVE ServedBy(reqs[p])'
    <3>1. docs'[d].status = "draft"
      BY <2>3, <2>4
    <3>2. docs'[d] \in DocRow
      BY <2>3, <3>1 DEF RowsOK, Absent
    <3> QED
      BY <2>3, <2>4, <3>1, <3>2 DEF ServedBy
  <2> QED
    BY <1>3, <2>1, <2>3, <2>4 DEF Committed
<1>7. ASSUME NEW p \in Procs, Repost(p)
      PROVE  Served'
  <2>1. PICK d : d = reqs[p].id
    OBVIOUS
  <2>2. /\ d \in Docs /\ reqs[p] # Idle /\ reqs[p].stage = "repost" /\ Unposted(d)
        /\ docs[d] \in DocRow /\ UNCHANGED rows
        /\ reqs'[p] # Idle /\ reqs'[p].id = d /\ reqs'[p].op = reqs[p].op
        /\ reqs'[p].stage = "checked" /\ reqs'[p].row = docs[d]
        /\ \A q \in Procs : q # p => reqs'[q] = reqs[q]
    BY <1>7, <2>1, Reposting
  <2>3. reqs[p].op = "post" /\ docs[d].status \in {"draft", "pending"}
    BY <2>1, <2>2 DEF Served, ServedBy, Unposted
  <2>4. docs' = docs
    BY <2>2 DEF rows
  <2>5. Allowed("post", d, docs[d])
    BY <2>3 DEF Allowed
  <2>6. ServedBy(reqs[p])'
    BY <2>2, <2>3, <2>4, <2>5 DEF ServedBy, Allowed, SameLine
  <2> QED
    BY <1>3, <2>2, <2>4, <2>6
<1>8. ASSUME NEW p \in Procs, RemoveCommit(p)
      PROVE  Served'
  <2>1. PICK d, row : d = reqs[p].id /\ row = reqs[p].row
    OBVIOUS
  <2>2. reqs'[p] = Idle /\ Committed(p, d) /\ reqs[p] # Idle
    BY <1>8, <2>1, Removed
  <2> QED
    BY <1>3, <2>1, <2>2 DEF Committed
<1>9. ASSUME NEW p \in Procs, NEW op \in Asks, NEW status \in Given,
             StatusCommit(p, op, status)
      PROVE  Served'
  <2>1. PICK d : d = reqs[p].id
    OBVIOUS
  <2>2. reqs'[p] = Idle /\ Committed(p, d) /\ reqs[p] # Idle
    <3> HIDE <1>3
    <3> QED
      BY <1>9, <2>1, StatusChanged
  <2> QED
    BY <1>3, <2>1, <2>2 DEF Committed
<1>10. ASSUME NEW p \in Procs, Fail(p)
       PROVE  Served'
  <2>1. reqs'[p] = Idle /\ \A q \in Procs : q # p => reqs'[q] = reqs[q]
    BY <1>10, Failed
  <2>2. docs' = docs
    BY <1>10 DEF Fail, rows
  <2> QED
    BY <1>3, <2>1, <2>2
<1>11. ASSUME UNCHANGED <<docs, reqs>> PROVE Served'
  BY <1>11 DEF Served, ServedBy, Allowed, SameLine
<1>12. ASSUME NEW s \in Sales, Sell(s[1], s[2]) PROVE UNCHANGED <<docs, reqs>>
  BY <1>12 DEF Sell
<1>13. ASSUME NEW o \in Openings, NEW at, SetOpening(o[1], o[2], o[3], at)
       PROVE  UNCHANGED <<docs, reqs>>
  BY <1>13 DEF SetOpening
<1>14. ASSUME Quiet PROVE UNCHANGED <<docs, reqs>>
  BY <1>14 DEF Quiet
<1> QED
  BY <1>1, <1>2, <1>4, <1>5, <1>6, <1>7, <1>8, <1>9, <1>10, <1>11, <1>12, <1>13, <1>14, Steps
     DEF Started

-------------------------------------------------------------------------------
(* The table.                                                               *)

TableOK == RowsOK /\ OpeningHeld

LEMMA RunningIs == BalancesAreRunning <=> Running(movements)
BY DEF BalancesAreRunning, Running

\* Movements of documents leave the opening alone.
LEMMA OpeningStays ==
    ASSUME OpeningHeld, SameColumns, NEW d, d # Item, NEW ns, ns = movements',
           \A i \in DOMAIN ns : ns[i].doc # d => i \in DOMAIN movements,
           \A i \in DOMAIN movements : i \in DOMAIN ns /\ ns[i] = movements[i]
    PROVE  OpeningHeld'
<1>1. \A i \in DOMAIN ns : ns[i].doc = Item => i \in DOMAIN movements /\ movements[i] = ns[i]
  OBVIOUS
<1>2. OnlyOne(ns)
  BY <1>1 DEF OpeningHeld, OnlyOne
<1>3. Opened(movements) => Opened(ns)
  BY DEF Opened
<1> QED
  BY <1>1, <1>2, <1>3 DEF OpeningHeld, SameColumns

\* A movement of a document is not the opening's.
LEMMA GrowsOK ==
    ASSUME TableOK, NEW read, NEW d, d # Item, NEW loc, NEW qty \in Int, NEW cost,
           movements' = Moved(movements, read, d, loc, qty, cost), SameColumns
    PROVE  OpeningHeld'
<1>1. PICK ns : ns = movements'
  OBVIOUS
<1>2. /\ \A i \in DOMAIN ns : ns[i].doc # d => i \in DOMAIN movements
      /\ \A i \in DOMAIN movements : i \in DOMAIN ns /\ ns[i] = movements[i]
  <2>1. IsTable(movements)
    BY DEF TableOK, RowsOK
  <2> QED
    BY <1>1, <2>1, MovedEffects
<1> QED
  BY <1>1, <1>2, OpeningStays DEF TableOK

LEMMA DocIsNotItem == Item \notin Docs /\ Invoice \notin Docs /\ Item # Invoice
BY StockAssumption

LEMMA SameTable ==
    ASSUME TableOK, movements' = movements, SameColumns
    PROVE  OpeningHeld'
BY DEF TableOK, OpeningHeld, SameColumns

LEMMA ReversedOK ==
    ASSUME TableOK, NEW read, NEW d \in Docs, NEW row \in DocRow,
           movements' = Reversed(read, d, row), SameColumns
    PROVE  OpeningHeld'
<1>1. CASE row.status = "posted"
  <2>1. PICK qty \in Int : \E cost :
            Reversed(read, d, row) = Moved(movements, read, d, row.form.loc, qty, cost)
    BY <1>1, ReversedIsMoved
  <2>2. PICK cost : Reversed(read, d, row) = Moved(movements, read, d, row.form.loc, qty, cost)
    BY <2>1
  <2>3. d # Item
    BY DocIsNotItem
  <2> QED
    BY <2>2, <2>3, GrowsOK
<1>2. CASE row.status # "posted"
  <2>1. movements' = movements
    BY <1>2 DEF Reversed
  <2> QED
    BY <2>1, SameTable
<1> QED
  BY <1>1, <1>2

\* Of a transfer the second movement is written after the first.
LEMMA TransferOK ==
    ASSUME TableOK, NEW p \in Procs, TransferPost(p)
    PROVE  /\ OpeningHeld'
           /\ Running(movements) /\ seen[p].table = movements => Running(movements')
<1>1. PICK d, form : d = reqs[p].id /\ form = reqs[p].row.form
  OBVIOUS
<1>2. PICK read : read = seen[p].table
  OBVIOUS
<1>3. PICK out : out = Moved(movements, read, d, form.loc, 0 - form.qty, NoCost)
  OBVIOUS
<1>4. PICK left : left = Moved(read, read, d, form.loc, 0 - form.qty, NoCost)
  OBVIOUS
<1>5. /\ Posted(p, d) /\ d \in Transfers
      /\ movements' = Moved(out, left, d, form.to, form.qty, NoCost)
  BY <1>1, <1>2, <1>3, <1>4, TransferPosted DEF TableOK
<1>6. form.qty \in Int /\ 0 - form.qty \in Int /\ d # Item
  <2>1. Committing(p, "post")
    BY DEF TransferPost
  <2> QED
    BY <1>1, <2>1, RequestedQty, DocIsNotItem DEF TableOK
<1>7. IsTable(movements) /\ SameColumns
  BY <1>5 DEF TableOK, RowsOK, Posted
<1>8. /\ IsTable(out)
      /\ Running(movements) /\ read = movements => Running(out)
      /\ \A i \in DOMAIN out : out[i].doc # d => i \in DOMAIN movements
      /\ \A i \in DOMAIN movements : i \in DOMAIN out /\ out[i] = movements[i]
  BY <1>3, <1>6, <1>7, MovedEffects
<1>9. PICK ns : ns = movements'
  OBVIOUS
<1>10. /\ Running(out) /\ left = out => Running(ns)
       /\ \A i \in DOMAIN ns : ns[i].doc # d => i \in DOMAIN out
       /\ \A i \in DOMAIN out : i \in DOMAIN ns /\ ns[i] = out[i]
  BY <1>5, <1>6, <1>8, <1>9, MovedEffects
<1>11. OpeningHeld'
  <2>1. \A i \in DOMAIN ns : ns[i].doc # d => i \in DOMAIN movements
    BY <1>8, <1>10
  <2>2. \A i \in DOMAIN movements : i \in DOMAIN ns /\ ns[i] = movements[i]
    BY <1>8, <1>10
  <2> QED
    BY <1>6, <1>7, <1>9, <2>1, <2>2, OpeningStays DEF TableOK
<1>12. read = movements => left = out
  BY <1>3, <1>4
<1> QED
  BY <1>2, <1>8, <1>9, <1>10, <1>11, <1>12

LEMMA PostingOK ==
    ASSUME TableOK, NEW p \in Procs, Posting(p)
    PROVE  /\ TableOK'
           /\ Running(movements) /\ seen[p].table = movements => Running(movements')
<1>1. PICK d, form : d = reqs[p].id /\ form = reqs[p].row.form
  OBVIOUS
<1>2. RowsOK /\ IsTable(movements)
  BY DEF TableOK, RowsOK
<1>3. Posted(p, d)
  BY <1>1, <1>2, PostingPosts
<1>4. RowsOK' /\ SameColumns /\ d # Item /\ form.qty \in Int
  BY <1>1, <1>3, DocIsNotItem DEF Posted
<1>5. 0 - form.qty \in Int
  BY <1>4
<1>6. PICK read : read = seen[p].table
  OBVIOUS
<1>7. ASSUME NEW loc, NEW qty \in Int, NEW cost,
             movements' = Moved(movements, read, d, loc, qty, cost)
      PROVE  /\ TableOK'
             /\ Running(movements) /\ read = movements => Running(movements')
  <2>1. OpeningHeld'
    BY <1>4, <1>7, GrowsOK
  <2>2. Running(movements) /\ read = movements => Running(movements')
    <3>1. PICK ns : ns = movements'
      OBVIOUS
    <3>2. Running(movements) /\ read = movements => Running(ns)
      BY <1>2, <1>7, <3>1, MovedEffects
    <3> QED
      BY <3>1, <3>2
  <2> QED
    BY <1>4, <2>1, <2>2 DEF TableOK
<1>8. CASE PurchasePost(p)
  <2>1. movements' = Moved(movements, read, d, form.loc, form.qty, form.cost)
    BY <1>1, <1>2, <1>6, <1>8, PurchasePosted
  <2> QED
    BY <1>4, <1>6, <1>7, <2>1
<1>9. CASE PurchaseReturnPost(p)
  <2>1. movements' = Moved(movements, read, d, form.loc, 0 - form.qty, form.cost)
    BY <1>1, <1>2, <1>6, <1>9, PurchaseReturnPosted
  <2> QED
    BY <1>5, <1>6, <1>7, <2>1
<1>10. CASE SalesReturnPost(p)
  <2>1. movements' = Moved(movements, read, d, form.loc, form.qty, seen[p].average)
    BY <1>1, <1>2, <1>6, <1>10, SalesReturnPosted
  <2> QED
    BY <1>4, <1>6, <1>7, <2>1
<1>11. CASE TransferPost(p)
  BY <1>4, <1>11, TransferOK DEF TableOK
<1> QED
  BY <1>8, <1>9, <1>10, <1>11 DEF Posting

LEMMA Corrected ==
    ASSUME TableOK, NEW p \in Procs, EditCommit(p) \/ RemoveCommit(p)
    PROVE  /\ TableOK'
           /\ Running(movements) /\ (HasRead(p) => seen[p].table = movements)
                => Running(movements')
<1>1. PICK d : d = reqs[p].id
  OBVIOUS
<1>2. PICK row : row = reqs[p].row
  OBVIOUS
<1>3. PICK read : read = seen[p].table
  OBVIOUS
<1>4. RowsOK
  BY DEF TableOK
<1>5. /\ d \in Docs /\ row \in DocRow /\ RowsOK' /\ SameColumns
      /\ movements' = Reversed(read, d, row)
      /\ row.status = "posted" => HasRead(p)
  <2>1. CASE EditCommit(p)
    <3>1. d \in Docs /\ row \in DocRow /\ RowsOK' /\ SameColumns
      BY <1>1, <1>2, <1>4, <2>1, Edited
    <3>2. movements' = Reversed(read, d, row) /\ (row.status = "posted" => HasRead(p))
      BY <1>1, <1>2, <1>3, <2>1 DEF EditCommit
    <3> QED
      BY <3>1, <3>2
  <2>2. CASE RemoveCommit(p)
    <3>1. d \in Docs /\ row \in DocRow /\ RowsOK' /\ SameColumns
      BY <1>1, <1>2, <1>4, <2>2, Removed
    <3>2. movements' = Reversed(read, d, row) /\ (row.status = "posted" => HasRead(p))
      BY <1>1, <1>2, <1>3, <2>2 DEF RemoveCommit
    <3> QED
      BY <3>1, <3>2
  <2> QED
    BY <2>1, <2>2
<1>6. OpeningHeld'
  BY <1>5, ReversedOK
<1>7. Running(movements) /\ (row.status = "posted" => read = movements)
        => Running(Reversed(read, d, row))
  BY <1>4, <1>5, ReversedTable
<1> QED
  BY <1>3, <1>5, <1>6, <1>7 DEF TableOK

LEMMA SaleOK ==
    ASSUME TableOK, NEW s \in Sales, Sell(s[1], s[2])
    PROVE  /\ TableOK'
           /\ Running(movements) /\ seen[Invoice].table = movements => Running(movements')
<1>1. PICK read : read = seen[Invoice].table
  OBVIOUS
<1>2. PICK loc, qty : loc = s[1] /\ qty = 0 - s[2]
  OBVIOUS
<1>3. /\ RowsOK' /\ SameColumns /\ qty \in Int
      /\ movements' = Moved(movements, read, Invoice, loc, qty, NoCost)
  BY <1>1, <1>2, Sold DEF TableOK
<1>4. OpeningHeld'
  BY <1>3, DocIsNotItem, GrowsOK
<1>5. Running(movements) /\ read = movements => Running(movements')
  <2>1. PICK ns : ns = movements'
    OBVIOUS
  <2>2. IsTable(movements)
    BY DEF TableOK, RowsOK
  <2>3. Running(movements) /\ read = movements => Running(ns)
    BY <1>3, <2>1, <2>2, MovedEffects
  <2> QED
    BY <2>1, <2>3
<1> QED
  BY <1>1, <1>3, <1>4, <1>5 DEF TableOK

\* What every transaction on the stock read of it still holds when it writes.
ReadsHold ==
    \A x \in Procs \cup {Invoice} :
        seen[x] # Unread => seen[x] = [table |-> movements, average |-> item.average]

LEMMA ReadHolds ==
    ASSUME ReadsHold, NEW x \in Procs \cup {Invoice}, HasRead(x)
    PROVE  seen[x].table = movements /\ seen[x].average = item.average
BY DEF ReadsHold, HasRead

LEMMA TableStays ==
    ASSUME TableOK, [Next]_vars
    PROVE  /\ TableOK'
           /\ ReadsHold /\ Running(movements) => Running(movements')
<1>1. RowsOK
  BY DEF TableOK
<1>2. CASE UNCHANGED vars
  BY <1>2 DEF vars, TableOK, RowsOK, OpeningHeld
<1>3. ASSUME RowsOK', movements' = movements, item' = item
      PROVE  TableOK' /\ (Running(movements) => Running(movements'))
  BY <1>1, <1>3, SameItem, SameTable DEF TableOK
<1>4. ASSUME NEW q \in Forms, Create(q[1], q[2])
      PROVE  TableOK' /\ (Running(movements) => Running(movements'))
  <2>1. RowsOK'
    BY <1>1, <1>4, CreateRows
  <2> QED
    BY <1>3, <1>4, <2>1 DEF Create
<1>5. ASSUME NEW p \in Procs, NEW op \in Ops, NEW d \in Docs, NEW form \in Form,
             Read(p, op, d, form)
      PROVE  TableOK' /\ (Running(movements) => Running(movements'))
  <2>1. RowsOK' /\ UNCHANGED rows
    BY <1>1, <1>5, ReadRows
  <2> QED
    BY <1>3, <2>1 DEF rows
<1>6. ASSUME NEW p \in Procs, EditCommit(p) \/ RemoveCommit(p)
      PROVE  TableOK' /\ (ReadsHold /\ Running(movements) => Running(movements'))
  BY <1>6, Corrected, ReadHolds
<1>7. ASSUME NEW p \in Procs, Posting(p)
      PROVE  TableOK' /\ (ReadsHold /\ Running(movements) => Running(movements'))
  <2>1. HasRead(p)
    BY <1>7 DEF Posting, PurchasePost, PurchaseReturnPost, SalesReturnPost, TransferPost
  <2> QED
    BY <1>7, <2>1, PostingOK, ReadHolds
<1>8. ASSUME NEW p \in Procs, Repost(p)
      PROVE  TableOK' /\ (Running(movements) => Running(movements'))
  <2>1. RowsOK' /\ UNCHANGED rows
    BY <1>1, <1>8, Reposting
  <2> QED
    BY <1>3, <2>1 DEF rows
<1>9. ASSUME NEW p \in Procs, NEW op \in Asks, NEW status \in Given, StatusCommit(p, op, status)
      PROVE  TableOK' /\ (Running(movements) => Running(movements'))
  <2>1. PICK d : d = reqs[p].id
    OBVIOUS
  <2>2. RowsOK' /\ SameColumns /\ movements' = movements
    BY <1>1, <1>9, <2>1, StatusChanged
  <2> QED
    BY <2>2, SameTable DEF TableOK
<1>10. ASSUME NEW p \in Procs, Fail(p)
       PROVE  TableOK' /\ (Running(movements) => Running(movements'))
  <2>1. RowsOK' /\ UNCHANGED rows
    BY <1>1, <1>10, Failed
  <2> QED
    BY <1>3, <2>1 DEF rows
<1>11. ASSUME NEW s \in Sales, Sell(s[1], s[2])
       PROVE  TableOK' /\ (ReadsHold /\ Running(movements) => Running(movements'))
  <2>1. HasRead(Invoice)
    BY <1>11 DEF Sell
  <2> QED
    BY <1>11, <2>1, SaleOK, ReadHolds
<1>12. ASSUME NEW o \in Openings, NEW at, SetOpening(o[1], o[2], o[3], at)
       PROVE  TableOK' /\ (Running(movements) => Running(movements'))
  BY <1>1, <1>12, OpeningSet DEF TableOK
<1>13. CASE Quiet
  <2>1. UNCHANGED <<docs, movements, item, booked, reqs>>
    BY <1>13 DEF Quiet
  <2>2. RowsOK'
    BY <1>1, <2>1 DEF RowsOK
  <2> QED
    BY <1>3, <2>1, <2>2
<1> QED
  BY <1>1, <1>2, <1>4, <1>5, <1>6, <1>7, <1>8, <1>9, <1>10, <1>11, <1>12, <1>13, Steps
     DEF Started

LEMMA TableInit ==
    ASSUME Init
    PROVE  TableOK
<1>1. docs \in [Docs -> {Absent} \cup DocRow]
  BY DEF Init, Absent
<1>2. IsTable(movements) /\ DOMAIN movements = {}
  <2>1. movements = <<>>
    BY DEF Init
  <2>2. <<>> \in Seq({}) /\ DOMAIN <<>> = {}
    OBVIOUS
  <2> QED
    BY <2>1, <2>2 DEF IsTable
<1>3. item = [average |-> item.average, loc |-> item.loc, qty |-> item.qty, cost |-> item.cost]
      /\ item.qty = 0
  BY DEF Init
<1>4. booked = [d \in Docs |-> booked[d]] /\ reqs \in [Procs -> {Idle} \cup Request]
  BY DEF Init
<1>5. RowsOK
  BY <1>1, <1>2, <1>3, <1>4 DEF RowsOK
<1>6. ~Opened(movements)
  BY DEF Init, Opened
<1> QED
  BY <1>2, <1>3, <1>5, <1>6 DEF TableOK, OpeningHeld, OnlyOne

\* "Each movement stores the balance it left behind": for any documents and any changes
\* of the opening, wherever its date puts it, and any number of requests at once, as long
\* as what a transaction read of the stock still holds when it writes.
THEOREM BalancesStay == Spec /\ []ReadsHold => []BalancesAreRunning
<1>1. Init => TableOK /\ Running(movements)
  <2>1. ASSUME Init PROVE Running(movements)
    <3>1. DOMAIN movements = {}
      BY <2>1 DEF Init
    <3> QED
      BY <3>1 DEF Running
  <2> QED
    BY <2>1, TableInit
<1>2. TableOK /\ Running(movements) /\ ReadsHold /\ [Next]_vars
        => (TableOK /\ Running(movements))'
  BY TableStays
<1>3. Running(movements) => BalancesAreRunning
  BY RunningIs
<1> QED
  BY <1>1, <1>2, <1>3, PTL DEF Spec

-------------------------------------------------------------------------------
(* One transaction at a time.                                               *)

\* No other transaction has read the stock.
OnlyReader(x) == \A y \in Procs \cup {Invoice} : y # x => seen[y] = Unread
OneReader == \A x \in Procs \cup {Invoice} : HasRead(x) => OnlyReader(x)

LEMMA EndedReads ==
    ASSUME OneReader, NEW x \in Procs \cup {Invoice}, Ended(x),
           seen = [y \in Procs \cup {Invoice} |-> seen[y]]
    PROVE  /\ OneReader'
           /\ seen' = [y \in Procs \cup {Invoice} |-> seen'[y]]
           /\ HasRead(x) => ReadsHold'
           /\ ReadsHold /\ movements' = movements /\ item' = item => ReadsHold'
<1>1. /\ seen' = [y \in Procs \cup {Invoice} |-> seen'[y]]
      /\ seen'[x] = Unread
      /\ \A y \in Procs \cup {Invoice} : y # x => seen'[y] = seen[y]
  BY DEF Ended
<1> QED
  BY <1>1 DEF OneReader, OnlyReader, HasRead, ReadsHold

\* Where transactions on the stock do not overlap, what they read of it holds.
THEOREM ReadsHoldAlone == ~Overlap => (Spec => []ReadsHold)
<1> SUFFICES ASSUME ~Overlap PROVE Spec => []ReadsHold
  OBVIOUS
<1> DEFINE Readers == Procs \cup {Invoice}
           Shaped  == seen = [y \in Readers |-> seen[y]]
           Alone   == Shaped /\ OneReader /\ ReadsHold
<1>1. Init => Alone
  BY DEF Init, OneReader, HasRead, ReadsHold
<1>2. Alone /\ [Next]_vars => Alone'
  <2> SUFFICES ASSUME Alone, [Next]_vars PROVE Alone'
    OBVIOUS
  <2>1. ASSUME UNCHANGED <<movements, item, seen>> PROVE Alone'
    BY <2>1 DEF OneReader, OnlyReader, HasRead, ReadsHold
  <2>2. ASSUME NEW x \in Readers, ReadBy(x) PROVE Alone'
    <3>1. /\ \A y \in Readers : y # x => seen'[y] = Unread
          /\ seen'[x] = [table |-> movements, average |-> item.average]
          /\ seen' = [y \in Readers |-> seen'[y]]
          /\ movements' = movements /\ item' = item
      BY <2>2 DEF ReadBy, Undisturbed
    <3> QED
      BY <3>1 DEF OneReader, OnlyReader, HasRead, ReadsHold
  <2>3. ASSUME NEW x \in Readers, Ended(x), HasRead(x) \/ UNCHANGED <<movements, item>>
        PROVE  Alone'
    BY <2>3, EndedReads
  <2>4. ASSUME Undisturbed, UNCHANGED seen PROVE Alone'
    BY <2>4 DEF Undisturbed, OneReader, OnlyReader, HasRead, ReadsHold
  <2> HIDE DEF Alone, Readers
  <2>5. ASSUME NEW q \in Forms, Create(q[1], q[2]) PROVE Alone'
    BY <2>1, <2>5 DEF Create
  <2>6. ASSUME NEW p \in Procs, NEW op, NEW d, NEW form, Read(p, op, d, form)
        PROVE  Alone'
    BY <2>1, <2>6 DEF Read, rows
  <2>7. ASSUME NEW p \in Procs, Posting(p) PROVE Alone'
    <3>1. Ended(p) /\ HasRead(p)
      BY <2>7 DEF Posting, PurchasePost, PurchaseReturnPost, SalesReturnPost, TransferPost
    <3> QED
      BY <2>3, <3>1 DEF Readers
  <2>8. ASSUME NEW p \in Procs, EditCommit(p) \/ RemoveCommit(p) PROVE Alone'
    <3>1. Ended(p) /\ item' = item /\ (reqs[p].row.status = "posted" => HasRead(p))
      BY <2>8 DEF EditCommit, RemoveCommit
    <3>2. reqs[p].row.status # "posted" => movements' = movements
      BY <2>8 DEF EditCommit, RemoveCommit, Reversed
    <3> QED
      BY <2>3, <3>1, <3>2 DEF Readers
  <2>9. ASSUME NEW p \in Procs, Repost(p) PROVE Alone'
    BY <2>1, <2>9 DEF Repost, rows
  <2>10. ASSUME NEW p \in Procs, NEW op, NEW status, StatusCommit(p, op, status) PROVE Alone'
    BY <2>1, <2>10 DEF StatusCommit
  <2>11. ASSUME NEW p \in Procs, Fail(p) PROVE Alone'
    BY <2>3, <2>11 DEF Fail, rows, Readers
  <2>12. ASSUME NEW loc, NEW qty, Sell(loc, qty) PROVE Alone'
    BY <2>3, <2>12 DEF Sell, Readers
  <2>13. ASSUME NEW loc, NEW qty, NEW cost, NEW at, SetOpening(loc, qty, cost, at) PROVE Alone'
    BY <2>4, <2>13 DEF SetOpening
  <2>14. ASSUME SetLock PROVE Alone'
    BY <2>1, <2>14 DEF SetLock
  <2>15. ASSUME SaleRead \/ \E p \in Procs : ReadStock(p) PROVE Alone'
    BY <2>2, <2>15 DEF SaleRead, ReadStock, Readers
  <2>16. ASSUME SaleFails PROVE Alone'
    BY <2>3, <2>16 DEF SaleFails, Readers
  <2>17. CASE UNCHANGED vars
    BY <2>1, <2>17 DEF vars
  <2>18. ASSUME NEW p \in Procs, NEW d,
                \/ PostRead(p, d) \/ Discard(p, d) \/ TransferRemove(p, d)
                \/ PurchaseCancel(p, d) \/ PurchaseReturnCancel(p, d)
                \/ SalesReturnCancel(p, d) \/ TransferCancel(p, d)
                \/ PurchaseApproval(p, d) \/ PurchaseReturnApproval(p, d)
                \/ SalesReturnApproval(p, d) \/ TransferApproval(p, d)
         PROVE  Alone'
    BY <2>6, <2>18
       DEF PostRead, Discard, TransferRemove, PurchaseCancel, PurchaseReturnCancel,
           SalesReturnCancel, TransferCancel, Cancel, PurchaseApproval,
           PurchaseReturnApproval, SalesReturnApproval, TransferApproval, Approval
  <2>19. ASSUME NEW q \in Forms,
                \/ PurchaseCreate(q[1], q[2]) \/ PurchaseReturnCreate(q[1], q[2])
                \/ SalesReturnCreate(q[1], q[2]) \/ TransferCreate(q[1], q[2])
                \/ \E p \in Procs :
                      \/ PurchaseEdit(p, q[1], q[2]) \/ PurchaseReturnEdit(p, q[1], q[2])
                      \/ SalesReturnEdit(p, q[1], q[2]) \/ TransferEdit(p, q[1], q[2])
         PROVE  Alone'
    BY <2>5, <2>6, <2>19
       DEF PurchaseCreate, PurchaseReturnCreate, SalesReturnCreate, TransferCreate,
           PurchaseEdit, PurchaseReturnEdit, SalesReturnEdit, TransferEdit, Edit
  <2> QED
    BY <2>7, <2>8, <2>9, <2>10, <2>11, <2>12, <2>13, <2>14, <2>15, <2>16, <2>17, <2>18, <2>19
       DEF Next, Posting
<1>3. Alone => ReadsHold
  OBVIOUS
<1> QED
  BY <1>1, <1>2, <1>3, PTL DEF Spec

-------------------------------------------------------------------------------
(* The documents.                                                           *)

\* The movements of a document are what they were.
KeepsDoc(ms, ns, e) ==
    /\ \A l : MovedBy(ns, e, l) = MovedBy(ms, e, l)
    /\ \A i : Latest(ms, i, e) => \E j : Latest(ns, j, e) /\ ns[j].cost = ms[i].cost

LEMMA KeepsDocAndOn ==
    ASSUME NEW ms, NEW ns, NEW os, NEW e, KeepsDoc(ms, ns, e), KeepsDoc(ns, os, e)
    PROVE  KeepsDoc(ms, os, e)
<1>1. ASSUME NEW i, Latest(ms, i, e)
      PROVE  \E j : Latest(os, j, e) /\ os[j].cost = ms[i].cost
  <2>1. PICK j : Latest(ns, j, e) /\ ns[j].cost = ms[i].cost
    BY <1>1 DEF KeepsDoc
  <2>2. PICK k : Latest(os, k, e) /\ os[k].cost = ns[j].cost
    BY <2>1 DEF KeepsDoc
  <2> QED
    BY <2>1, <2>2
<1> QED
  BY <1>1 DEF KeepsDoc

LEMMA MovedKeepsOthers ==
    ASSUME NEW ms, IsTable(ms), NEW read, NEW doc, NEW loc, NEW qty \in Int, NEW cost,
           NEW e, e # doc
    PROVE  KeepsDoc(ms, Moved(ms, read, doc, loc, qty, cost), e)
<1>1. PICK ns : ns = Moved(ms, read, doc, loc, qty, cost)
  OBVIOUS
<1>2. /\ \A d, l : MovedBy(ns, d, l)
                     = MovedBy(ms, d, l) + (IF doc = d /\ loc = l THEN qty ELSE 0)
      /\ \A d, i : d # doc /\ Latest(ms, i, d)
                     => Latest(ns, i, d) /\ ns[i].cost = ms[i].cost
  BY <1>1, MovedEffects
<1>3. ASSUME NEW l PROVE MovedBy(ns, e, l) = MovedBy(ms, e, l)
  <2>1. MovedBy(ms, e, l) \in Int
    BY MovedByType
  <2>2. MovedBy(ns, e, l) = MovedBy(ms, e, l) + 0
    BY <1>2
  <2> QED
    BY <2>1, <2>2
<1> QED
  BY <1>1, <1>2, <1>3 DEF KeepsDoc

LEMMA ReversedKeepsOthers ==
    ASSUME RowsOK, NEW read, NEW d, NEW row \in DocRow, NEW e, e # d
    PROVE  KeepsDoc(movements, Reversed(read, d, row), e)
<1>1. IsTable(movements)
  BY DEF RowsOK
<1>2. CASE row.status = "posted"
  <2>1. PICK qty \in Int : \E cost :
            Reversed(read, d, row) = Moved(movements, read, d, row.form.loc, qty, cost)
    BY <1>2, ReversedIsMoved
  <2>2. PICK cost : Reversed(read, d, row) = Moved(movements, read, d, row.form.loc, qty, cost)
    BY <2>1
  <2> QED
    BY <1>1, <2>2, MovedKeepsOthers
<1>3. CASE row.status # "posted"
  BY <1>3 DEF Reversed, KeepsDoc
<1> QED
  BY <1>2, <1>3

\* A document that no step touches keeps its claims.
LEMMA ClaimsStay ==
    ASSUME NEW ms, NEW ns, NEW e, KeepsDoc(ms, ns, e), NEW r, NEW s, SameLine(r, s), NEW amounts
    PROVE  /\ Follows(ms, e, r) => Follows(ns, e, s)
           /\ BookedAs(ms, e, r, amounts) => BookedAs(ns, e, s, amounts)
<1>1. ASSUME NEW l PROVE Effect(e, r, l) = Effect(e, s, l)
  BY DEF Effect, SameLine
<1>2. Follows(ms, e, r) => Follows(ns, e, s)
  BY <1>1 DEF Follows, KeepsDoc
<1>3. CASE r.status = "posted"
  <2>1. s.status = "posted" /\ r.form.qty = s.form.qty
    BY <1>3 DEF SameLine
  <2>2. ASSUME BookedAs(ms, e, r, amounts) PROVE BookedAs(ns, e, s, amounts)
    <3>1. PICK i : Latest(ms, i, e) /\ amounts = <<r.form.qty * ms[i].cost>>
      BY <1>3, <2>2 DEF BookedAs
    <3>2. PICK j : Latest(ns, j, e) /\ ns[j].cost = ms[i].cost
      BY <3>1 DEF KeepsDoc
    <3>3. amounts = <<s.form.qty * ns[j].cost>> /\ j \in DOMAIN ns
      BY <2>1, <3>1, <3>2 DEF Latest
    <3> QED
      BY <2>1, <3>2, <3>3 DEF BookedAs
  <2> QED
    BY <1>2, <2>2
<1>4. CASE r.status # "posted"
  BY <1>2, <1>4 DEF BookedAs, SameLine
<1> QED
  BY <1>3, <1>4

LEMMA OthersStay ==
    ASSUME NEW p, NEW d, Committed(p, d),
           \A e \in Docs : e # d => KeepsDoc(movements, movements', e),
           NEW e \in Docs, e # d
    PROVE  /\ Follows(movements, e, docs[e]) => Follows(movements', e, docs'[e])
           /\ BookedAs(movements, e, docs[e], booked[e])
                => BookedAs(movements', e, docs'[e], booked'[e])
<1>1. SameLine(docs[e], docs'[e]) /\ booked'[e] = booked[e]
  BY DEF Committed
<1>2. KeepsDoc(movements, movements', e)
  OBVIOUS
<1> QED
  BY <1>1, <1>2, ClaimsStay

Booked(d) == BookedAs(movements, d, docs[d], booked[d])

\* What a form says of the stock.
SameForm(f, g) == f.loc = g.loc /\ f.to = g.to /\ f.qty = g.qty /\ f.cost = g.cost

\* What is read of a request that posts.
LEMMA PostServed ==
    ASSUME RowsOK, Served, NEW p \in Procs, NEW d, d = reqs[p].id, Posted(p, d)
    PROVE  /\ SameForm(docs[d].form, reqs[p].row.form) /\ docs[d].status \in {"draft", "pending"}
           /\ docs[d].form.qty \in Int
<1>1. ServedBy(reqs[p])
  BY DEF Served, Posted
<1>2. SameLine(docs[d], reqs[p].row) /\ Allowed("post", d, docs[d])
  BY <1>1 DEF ServedBy, Posted
<1>3. docs[d].form.qty \in Int
  BY RowShape DEF Posted
<1> QED
  BY <1>2, <1>3 DEF Allowed, SameLine, SameForm

LEMMA Kinds ==
    /\ \A d \in Purchases : d \notin PurchaseReturns /\ d \notin Transfers /\ d \notin SalesReturns
    /\ \A d \in PurchaseReturns : d \notin Transfers
    /\ \A d \in SalesReturns : d \notin Transfers /\ d \notin PurchaseReturns
    /\ \A d \in Transfers : d \notin PurchaseReturns
BY StockAssumption

\* Goods that come or go once.
LEMMA OneMovement ==
    ASSUME RowsOK, NEW read, NEW d, NEW row, NEW qty \in Int, NEW cost,
           Follows(movements, d, row), row.status # "posted", d \notin Transfers,
           NEW new, new.status = "posted",
           qty = IF d \in PurchaseReturns THEN 0 - new.form.qty ELSE new.form.qty,
           NEW ns, ns = Moved(movements, read, d, new.form.loc, qty, cost)
    PROVE  Follows(ns, d, new)
<1>1. IsTable(movements)
  BY DEF RowsOK
<1>2. \A a, l : MovedBy(ns, a, l)
                  = MovedBy(movements, a, l) + (IF d = a /\ new.form.loc = l THEN qty ELSE 0)
  <2>1. PICK loc : loc = new.form.loc
    OBVIOUS
  <2>2. ns = Moved(movements, read, d, loc, qty, cost)
    BY <2>1
  <2> QED
    BY <1>1, <2>1, <2>2, MovedEffects
<1>3. ASSUME NEW l \in Locations PROVE MovedBy(ns, d, l) = Effect(d, new, l)
  <2>1. MovedBy(movements, d, l) = 0
    BY DEF Follows, Effect
  <2>2. CASE l = new.form.loc
    <3>1. MovedBy(ns, d, l) = 0 + qty
      BY <1>2, <2>1, <2>2
    <3>2. MovedBy(ns, d, l) = qty
      BY <3>1
    <3> QED
      BY <2>2, <3>2 DEF Effect
  <2>3. CASE l # new.form.loc
    <3>1. MovedBy(ns, d, l) = 0 + 0
      BY <1>2, <2>1, <2>3
    <3>2. MovedBy(ns, d, l) = 0 /\ 0 - 0 = 0
      BY <3>1
    <3> QED
      BY <2>3, <3>2 DEF Effect
  <2> QED
    BY <2>2, <2>3
<1> QED
  BY <1>3 DEF Follows

\* The voucher of what moved.
LEMMA OneVoucher ==
    ASSUME RowsOK, NEW read, NEW d, NEW row, NEW loc, NEW qty \in Int, NEW cost, NEW amounts,
           BookedAs(movements, d, row, amounts), row.status # "posted",
           NEW new, new.status = "posted",
           NEW ns, ns = Moved(movements, read, d, loc, qty, cost)
    PROVE  BookedAs(ns, d, new, Append(amounts, new.form.qty * cost))
<1>1. amounts = <<>>
  BY DEF BookedAs
<1>2. PICK v : v = new.form.qty * cost
  OBVIOUS
<1>3. Append(amounts, v) = <<v>>
  BY <1>1
<1>4. IsTable(movements)
  BY DEF RowsOK
<1>5. PICK i : Latest(ns, i, d) /\ ns[i].cost = cost
  BY <1>4, MovedEffects
<1>6. i \in DOMAIN ns
  BY <1>5 DEF Latest
<1>7. <<v>> = <<new.form.qty * ns[i].cost>>
  BY <1>2, <1>5
<1> QED
  BY <1>2, <1>3, <1>5, <1>6, <1>7 DEF BookedAs

LEMMA PurchaseClaims ==
    ASSUME RowsOK, Served, NEW p \in Procs, PurchasePost(p), NEW d, d = reqs[p].id
    PROVE  /\ Follows(movements, d, docs[d]) => Follows(movements', d, docs'[d])
           /\ Booked(d) => Booked(d)'
           /\ \A e \in Docs : e # d => KeepsDoc(movements, movements', e)
<1>1. PICK form, read : form = reqs[p].row.form /\ read = seen[p].table
  OBVIOUS
<1>2. /\ Posted(p, d) /\ d \in Purchases
      /\ movements' = Moved(movements, read, d, form.loc, form.qty, form.cost)
      /\ booked'[d] = Append(booked[d], form.qty * form.cost)
  BY <1>1, PurchasePosted
<1>3. SameForm(docs[d].form, form) /\ docs[d].status # "posted" /\ form.qty \in Int
  BY <1>1, <1>2, PostServed DEF SameForm
<1>4. PICK new : new = docs'[d]
  OBVIOUS
<1>5. new.status = "posted" /\ new.form.loc = form.loc /\ new.form.qty = form.qty
  BY <1>2, <1>3, <1>4 DEF Posted, SameForm
<1>6. Follows(movements, d, docs[d]) => Follows(movements', d, new)
  BY <1>2, <1>3, <1>5, Kinds, OneMovement
<1>7. BookedAs(movements, d, docs[d], booked[d])
        => BookedAs(movements', d, new, Append(booked[d], new.form.qty * form.cost))
  BY <1>2, <1>3, <1>5, OneVoucher
<1>8. Booked(d) => Booked(d)'
  BY <1>2, <1>4, <1>5, <1>7 DEF Booked
<1>9. \A e \in Docs : e # d => KeepsDoc(movements, movements', e)
  BY <1>2, <1>3, MovedKeepsOthers DEF RowsOK
<1> QED
  BY <1>4, <1>6, <1>8, <1>9

LEMMA PurchaseReturnClaims ==
    ASSUME RowsOK, Served, NEW p \in Procs, PurchaseReturnPost(p), NEW d, d = reqs[p].id
    PROVE  /\ Follows(movements, d, docs[d]) => Follows(movements', d, docs'[d])
           /\ Booked(d) => Booked(d)'
           /\ \A e \in Docs : e # d => KeepsDoc(movements, movements', e)
<1>1. PICK form, read : form = reqs[p].row.form /\ read = seen[p].table
  OBVIOUS
<1>2. /\ Posted(p, d) /\ d \in PurchaseReturns
      /\ movements' = Moved(movements, read, d, form.loc, 0 - form.qty, form.cost)
      /\ booked'[d] = Append(booked[d], form.qty * form.cost)
  BY <1>1, PurchaseReturnPosted
<1>3. SameForm(docs[d].form, form) /\ docs[d].status # "posted" /\ form.qty \in Int
  BY <1>1, <1>2, PostServed DEF SameForm
<1>4. PICK new : new = docs'[d]
  OBVIOUS
<1>5. new.status = "posted" /\ new.form.loc = form.loc /\ new.form.qty = form.qty
  BY <1>2, <1>3, <1>4 DEF Posted, SameForm
<1>6. PICK less : less = 0 - form.qty /\ less \in Int
  BY <1>3
<1>7. Follows(movements, d, docs[d]) => Follows(movements', d, new)
  BY <1>2, <1>3, <1>5, <1>6, Kinds, OneMovement
<1>8. BookedAs(movements, d, docs[d], booked[d])
        => BookedAs(movements', d, new, Append(booked[d], new.form.qty * form.cost))
  BY <1>2, <1>3, <1>5, <1>6, OneVoucher
<1>9. Booked(d) => Booked(d)'
  BY <1>2, <1>4, <1>5, <1>8 DEF Booked
<1>10. \A e \in Docs : e # d => KeepsDoc(movements, movements', e)
  BY <1>2, <1>6, MovedKeepsOthers DEF RowsOK
<1> QED
  BY <1>4, <1>7, <1>9, <1>10

LEMMA SalesReturnClaims ==
    ASSUME RowsOK, Served, NEW p \in Procs, SalesReturnPost(p), NEW d, d = reqs[p].id
    PROVE  /\ Follows(movements, d, docs[d]) => Follows(movements', d, docs'[d])
           /\ Booked(d) => Booked(d)'
           /\ \A e \in Docs : e # d => KeepsDoc(movements, movements', e)
<1>1. PICK form, read : form = reqs[p].row.form /\ read = seen[p].table
  OBVIOUS
<1>2. /\ Posted(p, d) /\ d \in SalesReturns
      /\ movements' = Moved(movements, read, d, form.loc, form.qty, seen[p].average)
      /\ booked'[d] = Append(booked[d], form.qty * seen[p].average)
  BY <1>1, SalesReturnPosted
<1>3. SameForm(docs[d].form, form) /\ docs[d].status # "posted" /\ form.qty \in Int
  BY <1>1, <1>2, PostServed DEF SameForm
<1>4. PICK new : new = docs'[d]
  OBVIOUS
<1>5. new.status = "posted" /\ new.form.loc = form.loc /\ new.form.qty = form.qty
  BY <1>2, <1>3, <1>4 DEF Posted, SameForm
<1>6. PICK cost : cost = seen[p].average
  OBVIOUS
<1>7. Follows(movements, d, docs[d]) => Follows(movements', d, new)
  BY <1>2, <1>3, <1>5, <1>6, Kinds, OneMovement
<1>8. BookedAs(movements, d, docs[d], booked[d])
        => BookedAs(movements', d, new, Append(booked[d], new.form.qty * cost))
  BY <1>2, <1>3, <1>5, <1>6, OneVoucher
<1>9. Booked(d) => Booked(d)'
  BY <1>2, <1>4, <1>5, <1>6, <1>8 DEF Booked
<1>10. \A e \in Docs : e # d => KeepsDoc(movements, movements', e)
  BY <1>2, <1>3, MovedKeepsOthers DEF RowsOK
<1> QED
  BY <1>4, <1>7, <1>9, <1>10

LEMMA TransferClaims ==
    ASSUME RowsOK, Served, NEW p \in Procs, TransferPost(p), NEW d, d = reqs[p].id
    PROVE  /\ d \in Transfers
           /\ Follows(movements, d, docs[d]) => Follows(movements', d, docs'[d])
           /\ \A e \in Docs : e # d => KeepsDoc(movements, movements', e)
<1>1. PICK form : form = reqs[p].row.form
  OBVIOUS
<1>2. PICK less : less = 0 - form.qty
  OBVIOUS
<1>3. PICK read : read = seen[p].table
  OBVIOUS
<1>4. PICK out : out = Moved(movements, read, d, form.loc, less, NoCost)
  OBVIOUS
<1>5. PICK left : left = Moved(read, read, d, form.loc, less, NoCost)
  OBVIOUS
<1>6. PICK ns : ns = movements'
  OBVIOUS
<1>7. Posted(p, d) /\ d \in Transfers /\ ns = Moved(out, left, d, form.to, form.qty, NoCost)
  BY <1>1, <1>2, <1>3, <1>4, <1>5, <1>6, TransferPosted
<1>8. SameForm(docs[d].form, form) /\ docs[d].status # "posted" /\ form.qty \in Int /\ less \in Int
  BY <1>1, <1>2, <1>7, PostServed DEF SameForm
<1>9. PICK new : new = docs'[d]
  OBVIOUS
<1>10. new.status = "posted" /\ SameForm(new.form, form)
  BY <1>7, <1>8, <1>9 DEF Posted
<1>11. IsTable(movements)
  BY DEF RowsOK
<1>12. /\ IsTable(out)
       /\ \A a, l : MovedBy(out, a, l)
                      = MovedBy(movements, a, l) + (IF d = a /\ form.loc = l THEN less ELSE 0)
  <2>1. PICK loc : loc = form.loc
    OBVIOUS
  <2>2. PICK held : held = movements
    OBVIOUS
  <2>3. IsTable(held)
    BY <1>11, <2>2
  <2>4. less \in Int /\ out = Moved(held, read, d, loc, less, NoCost)
    BY <1>4, <1>8, <2>1, <2>2
  <2>5. /\ IsTable(out)
        /\ \A a, l : MovedBy(out, a, l)
                       = MovedBy(held, a, l) + (IF d = a /\ loc = l THEN less ELSE 0)
    BY <2>3, <2>4, MovedEffects
  <2> QED
    BY <2>1, <2>2, <2>5
<1>13. \A a, l : MovedBy(ns, a, l)
                   = MovedBy(out, a, l) + (IF d = a /\ form.to = l THEN form.qty ELSE 0)
  <2>1. PICK to : to = form.to
    OBVIOUS
  <2>2. PICK qty : qty = form.qty
    OBVIOUS
  <2>3. qty \in Int /\ ns = Moved(out, left, d, to, qty, NoCost)
    BY <1>7, <1>8, <2>1, <2>2
  <2>4. \A a, l : MovedBy(ns, a, l)
                    = MovedBy(out, a, l) + (IF d = a /\ to = l THEN qty ELSE 0)
    BY <1>12, <2>3, MovedEffects
  <2> QED
    BY <2>1, <2>2, <2>4
<1>14. ASSUME Follows(movements, d, docs[d]) PROVE Follows(ns, d, new)
  <2>1. ASSUME NEW l \in Locations PROVE MovedBy(ns, d, l) = Effect(d, new, l)
    <3>1. MovedBy(movements, d, l) = 0
      BY <1>8, <1>14 DEF Follows, Effect
    <3>2. PICK in : in = IF form.to = l THEN form.qty ELSE 0
      OBVIOUS
    <3>3. PICK gone : gone = IF form.loc = l THEN form.qty ELSE 0
      OBVIOUS
    <3>4. in \in Int /\ gone \in Int
      BY <1>8, <3>2, <3>3
    <3>5. MovedBy(out, d, l) = 0 + (0 - gone)
      <4>1. (IF form.loc = l THEN less ELSE 0) = 0 - gone
        BY <1>2, <1>8, <3>3
      <4> QED
        BY <1>12, <3>1, <4>1
    <3>6. MovedBy(ns, d, l) = MovedBy(out, d, l) + in
      BY <1>13, <3>2
    <3>7. MovedBy(ns, d, l) = in - gone
      BY <3>4, <3>5, <3>6
    <3>8. Effect(d, new, l) = in - gone
      <4>1. d \notin PurchaseReturns
        BY <1>7, Kinds
      <4> QED
        BY <1>7, <1>10, <3>2, <3>3, <4>1 DEF Effect, SameForm
    <3> QED
      BY <3>7, <3>8
  <2> QED
    BY <2>1 DEF Follows
<1>15. ASSUME NEW e \in Docs, e # d PROVE KeepsDoc(movements, ns, e)
  <2>1. KeepsDoc(movements, out, e)
    BY <1>4, <1>8, <1>11, <1>15, MovedKeepsOthers
  <2>2. KeepsDoc(out, ns, e)
    BY <1>7, <1>8, <1>12, <1>15, MovedKeepsOthers
  <2> QED
    BY <2>1, <2>2, KeepsDocAndOn
<1> QED
  BY <1>6, <1>7, <1>9, <1>14, <1>15

\* What a movement does to what the documents have moved, on its own.
LEMMA MovedCounts ==
    ASSUME NEW ms, IsTable(ms), NEW read, NEW doc, NEW loc, NEW qty \in Int, NEW cost,
           NEW ns, ns = Moved(ms, read, doc, loc, qty, cost)
    PROVE  \A d, l : MovedBy(ns, d, l)
                       = MovedBy(ms, d, l) + (IF doc = d /\ loc = l THEN qty ELSE 0)
BY MovedEffects

\* Undoing takes back what the posting of a purchase did.
LEMMA Undoing ==
    ASSUME RowsOK, NEW read, NEW d, NEW row \in DocRow, row.status = "posted" => d \in Purchases,
           NEW new, new.status # "posted", Follows(movements, d, row),
           NEW ns, ns = Reversed(read, d, row)
    PROVE  Follows(ns, d, new)
<1>1. CASE row.status # "posted"
  BY <1>1 DEF Reversed, Follows, Effect
<1>2. CASE row.status = "posted"
  <2>1. PICK less : less = 0 - row.form.qty
    OBVIOUS
  <2>2. row.form.qty \in Int /\ less \in Int
    BY <2>1, RowShape
  <2>3. ns = Moved(movements, read, d, row.form.loc, less, row.form.cost)
    BY <1>2, <2>1 DEF Reversed, PurchaseReversed
  <2>4. \A a, l : MovedBy(ns, a, l)
                    = MovedBy(movements, a, l)
                        + (IF d = a /\ row.form.loc = l THEN less ELSE 0)
    <3>1. IsTable(movements)
      BY DEF RowsOK
    <3>2. PICK loc, cost : loc = row.form.loc /\ cost = row.form.cost
      OBVIOUS
    <3>3. ns = Moved(movements, read, d, loc, less, cost)
      BY <2>3, <3>2
    <3>4. \A a, l : MovedBy(ns, a, l)
                      = MovedBy(movements, a, l) + (IF d = a /\ loc = l THEN less ELSE 0)
      BY <2>2, <3>1, <3>3, MovedCounts
    <3> QED
      BY <3>2, <3>4
  <2>5. ASSUME NEW l \in Locations PROVE MovedBy(ns, d, l) = 0
    <3>1. MovedBy(movements, d, l) = IF l = row.form.loc THEN row.form.qty ELSE 0
      BY <1>2, Kinds DEF Follows, Effect
    <3>2. CASE l = row.form.loc
      <4>1. MovedBy(ns, d, l) = row.form.qty + less
        BY <2>4, <3>1, <3>2
      <4> QED
        BY <2>1, <2>2, <4>1
    <3>3. CASE l # row.form.loc
      <4>1. MovedBy(ns, d, l) = 0 + 0
        BY <2>4, <3>1, <3>3
      <4> QED
        BY <4>1
    <3> QED
      BY <3>2, <3>3
  <2> QED
    BY <2>5 DEF Follows, Effect
<1> QED
  BY <1>1, <1>2

\* What a served correction read.
LEMMA CorrectionServed ==
    ASSUME RowsOK, Served, NEW p \in Procs, reqs[p] # Idle, reqs[p].stage = "checked",
           NEW d, d = reqs[p].id
    PROVE  /\ reqs[p].row.status = docs[d].status /\ Allowed(reqs[p].op, d, docs[d])
           /\ Follows(movements, d, docs[d]) <=> Follows(movements, d, reqs[p].row)
<1>1. SameLine(docs[d], reqs[p].row) /\ Allowed(reqs[p].op, d, docs[d]) /\ docs[d] \in DocRow
  BY DEF Served, ServedBy
<1>2. \A l : Effect(d, docs[d], l) = Effect(d, reqs[p].row, l)
  BY <1>1, RowShape DEF SameLine, Effect
<1> QED
  BY <1>1, <1>2 DEF SameLine, Follows

LEMMA EditClaims ==
    ASSUME RowsOK, Served, NEW p \in Procs, EditCommit(p), NEW d, d = reqs[p].id
    PROVE  /\ Follows(movements, d, docs[d]) => Follows(movements', d, docs'[d])
           /\ Booked(d) => Booked(d)'
           /\ \A e \in Docs : e # d => KeepsDoc(movements, movements', e)
<1>1. PICK row : row = reqs[p].row
  OBVIOUS
<1>2. PICK new : new = docs'[d]
  OBVIOUS
<1>3. PICK ns : ns = movements'
  OBVIOUS
<1>4. ns = Reversed(seen[p].table, d, row)
  BY <1>1, <1>3 DEF EditCommit
<1>5. /\ row \in DocRow /\ reqs[p] # Idle /\ reqs[p].stage = "checked" /\ reqs[p].op = "edit"
      /\ booked'[d] = IF row.status = "posted" THEN <<>> ELSE booked[d]
      /\ docs'[d] = [status |-> IF row.status = "posted" THEN "draft" ELSE docs[d].status,
                     form |-> reqs[p].form]
  BY <1>1, Edited
<1>6. /\ row.status = docs[d].status /\ (row.status = "posted" => d \in Purchases)
      /\ Follows(movements, d, docs[d]) <=> Follows(movements, d, row)
  BY <1>1, <1>5, CorrectionServed DEF Allowed
<1>7. new.status # "posted"
  BY <1>2, <1>5, <1>6
<1>8. Follows(movements, d, docs[d]) => Follows(ns, d, new)
  BY <1>4, <1>5, <1>6, <1>7, Undoing
<1>9. Booked(d) => Booked(d)'
  BY <1>2, <1>5, <1>6, <1>7 DEF Booked, BookedAs
<1>10. \A e \in Docs : e # d => KeepsDoc(movements, ns, e)
  BY <1>4, <1>5, ReversedKeepsOthers
<1> QED
  BY <1>2, <1>3, <1>8, <1>9, <1>10

LEMMA RemoveClaims ==
    ASSUME RowsOK, Served, NEW p \in Procs, RemoveCommit(p), NEW d, d = reqs[p].id
    PROVE  /\ (Undone \subseteq Purchases /\ Follows(movements, d, docs[d]))
                => Follows(movements', d, docs'[d])
           /\ Booked(d) => Booked(d)'
           /\ \A e \in Docs : e # d => KeepsDoc(movements, movements', e)
<1>1. PICK row : row = reqs[p].row
  OBVIOUS
<1>2. PICK new : new = docs'[d]
  OBVIOUS
<1>3. PICK ns : ns = movements'
  OBVIOUS
<1>4. ns = Reversed(seen[p].table, d, row)
  BY <1>1, <1>3 DEF RemoveCommit
<1>5. /\ row \in DocRow /\ reqs[p] # Idle /\ reqs[p].stage = "checked" /\ reqs[p].op = "remove"
      /\ booked'[d] = IF row.status = "posted" THEN <<>> ELSE booked[d]
      /\ docs'[d] = [status |-> "deleted", form |-> docs[d].form]
  BY <1>1, Removed
<1>6. /\ row.status = docs[d].status /\ (row.status = "posted" => d \in Undone)
      /\ Follows(movements, d, docs[d]) <=> Follows(movements, d, row)
  BY <1>1, <1>5, CorrectionServed DEF Allowed
<1>7. new.status # "posted"
  BY <1>2, <1>5
<1>8. (Undone \subseteq Purchases /\ Follows(movements, d, docs[d])) => Follows(ns, d, new)
  BY <1>4, <1>5, <1>6, <1>7, Undoing
<1>9. Booked(d) => Booked(d)'
  BY <1>2, <1>5, <1>6, <1>7 DEF Booked, BookedAs
<1>10. \A e \in Docs : e # d => KeepsDoc(movements, ns, e)
  BY <1>4, <1>5, ReversedKeepsOthers
<1> QED
  BY <1>2, <1>3, <1>8, <1>9, <1>10

LEMMA StatusClaims ==
    ASSUME RowsOK, Served, NEW p \in Procs, NEW op \in Asks, NEW status \in Given,
           StatusCommit(p, op, status),
           NEW d, d = reqs[p].id
    PROVE  /\ Follows(movements, d, docs[d]) => Follows(movements', d, docs'[d])
           /\ Booked(d) => Booked(d)'
           /\ \A e \in Docs : e # d => KeepsDoc(movements, movements', e)
<1>1. /\ reqs[p] # Idle /\ reqs[p].stage = "checked" /\ reqs[p].op = op
      /\ movements' = movements /\ booked' = booked
      /\ docs'[d] = [status |-> status, form |-> docs[d].form]
  BY StatusChanged
<1>2. docs[d].status # "posted"
  BY <1>1, CorrectionServed DEF Allowed, Asks
<1>3. docs'[d].status # "posted"
  BY <1>1 DEF Given
<1> QED
  BY <1>1, <1>2, <1>3 DEF Follows, Effect, Booked, BookedAs, KeepsDoc

-------------------------------------------------------------------------------
(* Every step.                                                              *)

\* What a step keeps of what is claimed of a document.
ClaimsKept(e) ==
    /\ (Undone \subseteq Purchases /\ Follows(movements, e, docs[e]))
          => Follows(movements', e, docs'[e])
    /\ e \in Transfers \/ (Booked(e) => Booked(e)')

LEMMA AllClaims ==
    ASSUME NEW p, NEW d, Committed(p, d), ClaimsKept(d),
           \A e \in Docs : e # d => KeepsDoc(movements, movements', e)
    PROVE  \A e \in Docs : ClaimsKept(e)
<1>1. ASSUME NEW e \in Docs PROVE ClaimsKept(e)
  <2>1. CASE e = d
    BY <2>1
  <2>2. CASE e # d
    BY <2>2, OthersStay DEF Booked, ClaimsKept
  <2> QED
    BY <2>1, <2>2
<1> QED
  BY <1>1

\* Documents nothing happened to.
LEMMA UnmovedClaims ==
    ASSUME \A e \in Docs : KeepsDoc(movements, movements', e) /\ SameLine(docs[e], docs'[e])
                             /\ booked'[e] = booked[e]
    PROVE  \A e \in Docs : ClaimsKept(e)
BY ClaimsStay DEF Booked, ClaimsKept

LEMMA NothingMoved ==
    ASSUME UNCHANGED <<docs, movements, booked>>
    PROVE  \A e \in Docs : ClaimsKept(e)
BY DEF ClaimsKept, Booked

LEMMA CreateClaims ==
    ASSUME TableOK, NEW q \in Forms, Create(q[1], q[2])
    PROVE  \A e \in Docs : ClaimsKept(e)
<1>1. /\ docs'[q[1]] = [status |-> "draft", form |-> q[2]] /\ docs[q[1]].status = "absent"
      /\ \A e \in Docs : e # q[1] => docs'[e] = docs[e]
  BY CreateRows DEF TableOK
<1>2. movements' = movements /\ booked' = booked
  BY DEF Create
<1>3. ASSUME NEW e \in Docs PROVE ClaimsKept(e)
  <2>1. CASE e = q[1]
    <3>1. docs[e].status # "posted" /\ docs'[e].status # "posted"
      BY <1>1, <2>1
    <3> QED
      BY <1>2, <3>1 DEF ClaimsKept, Follows, Effect, Booked, BookedAs
  <2>2. CASE e # q[1]
    BY <1>1, <1>2, <2>2 DEF ClaimsKept, Booked
  <2> QED
    BY <2>1, <2>2
<1> QED
  BY <1>3

LEMMA PostingClaims ==
    ASSUME TableOK, Served, NEW p \in Procs, Posting(p)
    PROVE  \A e \in Docs : ClaimsKept(e)
<1>1. PICK d : d = reqs[p].id
  OBVIOUS
<1>2. RowsOK
  BY DEF TableOK
<1>3. Posted(p, d)
  BY <1>1, <1>2, PostingPosts
<1>4. Committed(p, d)
  BY <1>3 DEF Posted
<1>5. CASE PurchasePost(p)
  <2>1. ClaimsKept(d) /\ \A e \in Docs : e # d => KeepsDoc(movements, movements', e)
    BY <1>1, <1>2, <1>5, PurchaseClaims DEF ClaimsKept
  <2> QED
    BY <1>4, <2>1, AllClaims
<1>6. CASE PurchaseReturnPost(p)
  <2>1. ClaimsKept(d) /\ \A e \in Docs : e # d => KeepsDoc(movements, movements', e)
    BY <1>1, <1>2, <1>6, PurchaseReturnClaims DEF ClaimsKept
  <2> QED
    BY <1>4, <2>1, AllClaims
<1>7. CASE SalesReturnPost(p)
  <2>1. ClaimsKept(d) /\ \A e \in Docs : e # d => KeepsDoc(movements, movements', e)
    BY <1>1, <1>2, <1>7, SalesReturnClaims DEF ClaimsKept
  <2> QED
    BY <1>4, <2>1, AllClaims
<1>8. CASE TransferPost(p)
  <2>1. ClaimsKept(d) /\ \A e \in Docs : e # d => KeepsDoc(movements, movements', e)
    BY <1>1, <1>2, <1>8, TransferClaims DEF ClaimsKept
  <2> QED
    BY <1>4, <2>1, AllClaims
<1> QED
  BY <1>5, <1>6, <1>7, <1>8 DEF Posting

LEMMA CorrectionClaims ==
    ASSUME TableOK, Served, NEW p \in Procs, EditCommit(p) \/ RemoveCommit(p)
    PROVE  \A e \in Docs : ClaimsKept(e)
<1>1. PICK d : d = reqs[p].id
  OBVIOUS
<1>2. RowsOK
  BY DEF TableOK
<1>3. PICK row : row = reqs[p].row
  OBVIOUS
<1>4. CASE EditCommit(p)
  <2>1. ClaimsKept(d) /\ \A e \in Docs : e # d => KeepsDoc(movements, movements', e)
    BY <1>1, <1>2, <1>4, EditClaims DEF ClaimsKept
  <2>2. Committed(p, d)
    BY <1>1, <1>2, <1>3, <1>4, Edited
  <2> QED
    BY <2>1, <2>2, AllClaims
<1>5. CASE RemoveCommit(p)
  <2>1. ClaimsKept(d) /\ \A e \in Docs : e # d => KeepsDoc(movements, movements', e)
    BY <1>1, <1>2, <1>5, RemoveClaims DEF ClaimsKept
  <2>2. Committed(p, d)
    BY <1>1, <1>2, <1>3, <1>5, Removed
  <2> QED
    BY <2>1, <2>2, AllClaims
<1> QED
  BY <1>4, <1>5

LEMMA StatusClaimsAll ==
    ASSUME TableOK, Served, NEW p \in Procs, NEW op \in Asks, NEW status \in Given,
           StatusCommit(p, op, status)
    PROVE  \A e \in Docs : ClaimsKept(e)
<1>1. PICK d : d = reqs[p].id
  OBVIOUS
<1>2. RowsOK
  BY DEF TableOK
<1>3. ClaimsKept(d) /\ \A e \in Docs : e # d => KeepsDoc(movements, movements', e)
  BY <1>1, <1>2, StatusClaims DEF ClaimsKept
<1>4. Committed(p, d)
  BY <1>1, <1>2, StatusChanged
<1> QED
  BY <1>3, <1>4, AllClaims

LEMMA SaleClaims ==
    ASSUME TableOK, NEW s \in Sales, Sell(s[1], s[2])
    PROVE  \A e \in Docs : ClaimsKept(e)
<1>1. /\ Apart /\ 0 - s[2] \in Int
      /\ movements' = Moved(movements, seen[Invoice].table, Invoice, s[1], 0 - s[2], NoCost)
  BY Sold DEF TableOK
<1>2. ASSUME NEW e \in Docs PROVE KeepsDoc(movements, movements', e)
  <2>1. e # Invoice
    BY DocIsNotItem
  <2>2. PICK less : less = 0 - s[2] /\ less \in Int
    BY <1>1
  <2>3. IsTable(movements)
    BY DEF TableOK, RowsOK
  <2> QED
    BY <1>1, <2>1, <2>2, <2>3, MovedKeepsOthers
<1> QED
  BY <1>1, <1>2, UnmovedClaims DEF Apart, SameLine

LEMMA OpeningClaims ==
    ASSUME TableOK, NEW o \in Openings, NEW at, SetOpening(o[1], o[2], o[3], at)
    PROVE  \A e \in Docs : ClaimsKept(e)
<1>1. Apart /\ Keeps(movements, movements')
  BY OpeningSet DEF TableOK
<1>2. ASSUME NEW e \in Docs PROVE KeepsDoc(movements, movements', e)
  BY <1>1, DocIsNotItem DEF Keeps, KeepsDoc
<1> QED
  BY <1>1, <1>2, UnmovedClaims DEF Apart, SameLine

LEMMA ClaimsStayKept ==
    ASSUME TableOK, Served, [Next]_vars
    PROVE  \A e \in Docs : ClaimsKept(e)
<1>1. RowsOK
  BY DEF TableOK
<1>2. CASE UNCHANGED vars
  BY <1>2, NothingMoved DEF vars
<1>3. ASSUME NEW p \in Procs, NEW op \in Ops, NEW d \in Docs, NEW form \in Form,
             Read(p, op, d, form)
      PROVE  \A e \in Docs : ClaimsKept(e)
  BY <1>3, NothingMoved DEF Read, rows
<1>4. ASSUME NEW p \in Procs, Repost(p) PROVE \A e \in Docs : ClaimsKept(e)
  BY <1>4, NothingMoved DEF Repost, rows
<1>5. ASSUME NEW p \in Procs, Fail(p) PROVE \A e \in Docs : ClaimsKept(e)
  BY <1>5, NothingMoved DEF Fail, rows
<1>6. CASE Quiet
  BY <1>6, NothingMoved DEF Quiet
<1> QED
  BY <1>1, <1>2, <1>3, <1>4, <1>5, <1>6, Steps, CreateClaims, PostingClaims, CorrectionClaims,
     StatusClaimsAll, SaleClaims, OpeningClaims DEF Started

ServedInv == TableOK /\ Served

LEMMA ServedInit ==
    ASSUME Init
    PROVE  /\ ServedInv /\ BookedOnce /\ DocsFollowed
<1>1. TableOK
  BY TableInit
<1>2. Served
  BY DEF Init, Served
<1>3. BookedOnce
  BY DEF Init, BookedOnce, BookedAs
<1>4. ASSUME NEW d \in Docs, NEW loc \in Locations
      PROVE  MovedBy(movements, d, loc) = Effect(d, docs[d], loc)
  <2>1. Of(movements, d, loc) = {}
    <3>1. movements = <<>>
      BY DEF Init
    <3>2. DOMAIN movements = {}
      BY <3>1
    <3> QED
      BY <3>2 DEF Of
  <2>2. MovedBy(movements, d, loc) = 0
    BY <2>1, TotalEmpty DEF MovedBy, Of
  <2>3. docs[d].status # "posted"
    BY DEF Init
  <2> QED
    BY <2>2, <2>3 DEF Effect
<1>5. DocsFollowed
  BY <1>4 DEF DocsFollowed, Follows
<1> QED
  BY <1>1, <1>2, <1>3, <1>5 DEF ServedInv

\* The value of a posted document is in one voucher, at the cost its goods moved at,
\* and an unposted one has none, through edits that stop half way and deletions.
THEOREM ValueBookedOnce == Spec /\ []DocumentsApart => []BookedOnce
<1>1. Init => ServedInv /\ BookedOnce
  BY ServedInit
<1>2. ServedInv /\ BookedOnce /\ DocumentsApart /\ [Next]_vars => (ServedInv /\ BookedOnce)'
  <2> SUFFICES ASSUME ServedInv, BookedOnce, DocumentsApart, [Next]_vars
               PROVE  (ServedInv /\ BookedOnce)'
    OBVIOUS
  <2>1. TableOK' /\ Served'
    BY TableStays, StaysServed DEF ServedInv, TableOK
  <2>2. \A d \in Docs \ Transfers : Booked(d)
    BY DEF BookedOnce, Booked
  <2>3. \A d \in Docs \ Transfers : Booked(d)'
    BY <2>2, ClaimsStayKept DEF ServedInv, ClaimsKept
  <2>4. BookedOnce'
    BY <2>3 DEF BookedOnce, Booked
  <2> QED
    BY <2>1, <2>4 DEF ServedInv
<1> QED
  BY <1>1, <1>2, PTL DEF Spec

\* The warehouse holds what the documents in force and the opening columns say, when
\* only purchases are undone after they were posted.
THEOREM StockFollows ==
    Undone \subseteq Purchases => (Spec /\ []DocumentsApart => []StockFollowsDocuments)
<1> SUFFICES ASSUME Undone \subseteq Purchases
             PROVE  Spec /\ []DocumentsApart => []StockFollowsDocuments
  OBVIOUS
<1>1. Init => ServedInv /\ DocsFollowed
  BY ServedInit
<1>2. ServedInv /\ DocsFollowed /\ DocumentsApart /\ [Next]_vars => (ServedInv /\ DocsFollowed)'
  <2> SUFFICES ASSUME ServedInv, DocsFollowed, DocumentsApart, [Next]_vars
               PROVE  (ServedInv /\ DocsFollowed)'
    OBVIOUS
  <2>1. TableOK' /\ Served'
    BY TableStays, StaysServed DEF ServedInv, TableOK
  <2>2. \A d \in Docs : Follows(movements', d, docs'[d])
    BY ClaimsStayKept DEF ServedInv, DocsFollowed, ClaimsKept
  <2> QED
    BY <2>1, <2>2 DEF ServedInv, DocsFollowed
<1>3. ServedInv /\ DocsFollowed => StockFollowsDocuments
  <2> SUFFICES ASSUME ServedInv, DocsFollowed, NEW loc \in Locations
               PROVE  /\ \A d \in Docs : MovedBy(movements, d, loc) = Effect(d, docs[d], loc)
                      /\ MovedBy(movements, Item, loc)
                           = IF loc = item.loc THEN item.qty ELSE 0
    BY DEF StockFollowsDocuments
  <2>1. \A d \in Docs : MovedBy(movements, d, loc) = Effect(d, docs[d], loc)
    BY DEF DocsFollowed, Follows
  <2>2. IsTable(movements) /\ OpeningHeld
    BY DEF ServedInv, TableOK, RowsOK
  <2>3. /\ ~Opened(movements) => MovedBy(movements, Item, loc) = 0
        /\ \A i : OpeningRow(movements, i)
                    => MovedBy(movements, Item, loc)
                         = IF movements[i].loc = loc THEN movements[i].qty ELSE 0
    BY <2>2, OpeningMoves DEF OpeningHeld
  <2>4. CASE ~Opened(movements)
    BY <2>1, <2>2, <2>3, <2>4 DEF OpeningHeld
  <2>5. CASE Opened(movements)
    <3>1. PICK i : OpeningRow(movements, i)
      BY <2>5, OpeningIsAt
    <3>2. movements[i].loc = item.loc /\ movements[i].qty = item.qty
      BY <2>2, <3>1 DEF OpeningHeld, OpeningRow
    <3> QED
      BY <2>1, <2>3, <3>1, <3>2
  <2> QED
    BY <2>4, <2>5
<1> QED
  BY <1>1, <1>2, <1>3, PTL DEF Spec

-------------------------------------------------------------------------------
(* The average along the history.                                           *)

\* Induction along a table, with the good places as a set.
LEMMA Counting ==
    ASSUME NEW N \in Nat, NEW G, 0 \in G, \A k \in 1 .. N : k - 1 \in G => k \in G
    PROVE  \A k \in 0 .. N : k \in G
<1> DEFINE S == 1 .. N
           H == {T \in SUBSET S : \A k \in 0 .. N : T = 1 .. k => k \in G}
<1>1. IsFiniteSet(S)
  BY FS_Interval
<1>2. {} \in H
  <2>1. \A k \in 0 .. N : {} = 1 .. k => k = 0
    <3>1. \A k \in 0 .. N : k # 0 => 1 \in 1 .. k
      OBVIOUS
    <3> QED
      BY <3>1
  <2> QED
    BY <2>1
<1>3. ASSUME NEW T \in SUBSET S, T # {}, \A x \in T : T \ {x} \in H PROVE T \in H
  <2> SUFFICES ASSUME NEW k \in 0 .. N, T = 1 .. k PROVE k \in G
    OBVIOUS
  <2>1. k \in 1 .. N /\ k \in T /\ k - 1 \in 0 .. N /\ T \ {k} = 1 .. (k - 1)
    BY <1>3
  <2>2. k - 1 \in G
    BY <1>3, <2>1
  <2> QED
    BY <2>1, <2>2
<1>4. \A k \in 0 .. N : 1 .. k \in H
  <2> SUFFICES ASSUME NEW k \in 0 .. N PROVE 1 .. k \in H
    OBVIOUS
  <2>1. 1 .. k \in SUBSET S
    OBVIOUS
  <2>2. IsFiniteSet(1 .. k)
    BY FS_Interval
  <2>3. \A T \in SUBSET (1 .. k) : T # {} /\ (\A x \in T : T \ {x} \in H) => T \in H
    BY <1>3, <2>1
  <2> HIDE DEF H, S
  <2> QED
    BY <1>2, <2>2, <2>3, SubsetInduction, Zenon
<1> QED
  BY <1>4

Start == [num |-> 0, den |-> 1, held |-> 0]
ChainStep(ms, h, n) == IF n = 0 THEN Start ELSE Extended(h[n - 1], ms[n])
IsChain(ms, N, h) == h = [n \in 0 .. N |-> ChainStep(ms, h, n)]

LEMMA HistoryIsChain ==
    ASSUME NEW ms
    PROVE  History(ms) = (CHOOSE h : IsChain(ms, Len(ms), h))[Len(ms)]
BY DEF History, IsChain, ChainStep, Start

\* Histories of rows that agree on quantities and costs agree.
LEMMA ChainsAgree ==
    ASSUME NEW ms, NEW ns, NEW N \in Nat, NEW M \in Nat, N <= M, NEW g, NEW h,
           IsChain(ms, N, g), IsChain(ns, M, h),
           \A i \in 1 .. N : ms[i].qty = ns[i].qty /\ ms[i].cost = ns[i].cost
    PROVE  \A k \in 0 .. N : g[k] = h[k]
<1> DEFINE G == {k \in 0 .. N : g[k] = h[k]}
<1>1. /\ \A n \in 0 .. N : g[n] = ChainStep(ms, g, n)
      /\ \A n \in 0 .. M : h[n] = ChainStep(ns, h, n)
  BY DEF IsChain
<1>2. 0 \in G
  BY <1>1 DEF ChainStep
<1>3. ASSUME NEW k \in 1 .. N, k - 1 \in G PROVE k \in G
  <2>1. g[k - 1] = h[k - 1]
    BY <1>3
  <2>2. k \in 0 .. N /\ k \in 0 .. M /\ k # 0
    BY <1>3
  <2>3. g[k] = Extended(g[k - 1], ms[k]) /\ h[k] = Extended(h[k - 1], ns[k])
    BY <1>1, <2>2 DEF ChainStep
  <2>4. Extended(g[k - 1], ms[k]) = Extended(g[k - 1], ns[k])
    BY DEF Extended
  <2> QED
    BY <2>1, <2>2, <2>3, <2>4
<1> HIDE DEF G
<1>4. \A k \in 0 .. N : k \in G
  BY <1>2, <1>3, Counting
<1> QED
  BY <1>4 DEF G

LEMMA ChainExists ==
    ASSUME NEW ms, NEW N \in Nat
    PROVE  \E h : IsChain(ms, N, h)
<1> DEFINE G == {k \in 0 .. N : \E h : IsChain(ms, k, h)}
<1>1. 0 \in G
  <2>1. PICK h : h = [n \in 0 .. 0 |-> Start]
    OBVIOUS
  <2>2. \A n \in 0 .. 0 : n = 0
    OBVIOUS
  <2>3. IsChain(ms, 0, h)
    BY <2>1, <2>2 DEF IsChain, ChainStep
  <2> QED
    BY <2>3
<1>2. ASSUME NEW k \in 1 .. N, k - 1 \in G PROVE k \in G
  <2>1. PICK g : IsChain(ms, k - 1, g)
    BY <1>2
  <2>2. PICK h : h = [n \in 0 .. k |-> IF n = k THEN Extended(g[k - 1], ms[k]) ELSE g[n]]
    OBVIOUS
  <2>3. \A n \in 0 .. (k - 1) : g[n] = ChainStep(ms, g, n) /\ h[n] = g[n]
    BY <2>1, <2>2 DEF IsChain
  <2>4. ASSUME NEW n \in 0 .. k PROVE h[n] = ChainStep(ms, h, n)
    <3>1. CASE n = k
      <4>1. h[n] = Extended(g[k - 1], ms[k]) /\ h[k - 1] = g[k - 1]
        BY <2>2, <2>3, <3>1
      <4> QED
        BY <3>1, <4>1 DEF ChainStep
    <3>2. CASE n # k
      <4>1. n \in 0 .. (k - 1) /\ (n # 0 => n - 1 \in 0 .. (k - 1))
        BY <3>2
      <4>2. h[n] = ChainStep(ms, g, n) /\ (n # 0 => h[n - 1] = g[n - 1])
        BY <2>3, <4>1
      <4> QED
        BY <4>2 DEF ChainStep
    <3> QED
      BY <3>1, <3>2
  <2>5. IsChain(ms, k, h)
    BY <2>2, <2>4 DEF IsChain
  <2>6. k \in 0 .. N
    BY <1>2
  <2> QED
    BY <2>5, <2>6
<1> HIDE DEF G
<1>3. \A k \in 0 .. N : k \in G
  BY <1>1, <1>2, Counting
<1> QED
  BY <1>3 DEF G

LEMMA HistoryAlong ==
    ASSUME NEW ms, IsTable(ms), NEW N, N = Len(ms)
    PROVE  \E h : IsChain(ms, N, h) /\ History(ms) = h[N]
<1>1. N \in Nat
  BY Indices
<1>2. IsChain(ms, N, CHOOSE h : IsChain(ms, N, h))
  BY <1>1, ChainExists
<1> QED
  BY <1>2, HistoryIsChain

LEMMA SameLength ==
    ASSUME NEW L \in Nat, NEW N \in Nat, 1 .. L = 1 .. N
    PROVE  L = N
<1>1. CASE L < N
  <2>1. N \in 1 .. N /\ N \notin 1 .. L
    BY <1>1
  <2> QED
    BY <2>1
<1>2. CASE N < L
  <2>1. L \in 1 .. L /\ L \notin 1 .. N
    BY <1>2
  <2> QED
    BY <2>1
<1> QED
  BY <1>1, <1>2

\* One more row is one more step.
LEMMA HistoryAppend ==
    ASSUME NEW ms, IsTable(ms), NEW m, IsMovement(m)
    PROVE  History(Append(ms, m)) = Extended(History(ms), m)
<1>1. PICK ns : ns = Append(ms, m)
  OBVIOUS
<1>2. PICK N : N = Len(ms)
  OBVIOUS
<1>3. /\ IsTable(ns) /\ DOMAIN ns = DOMAIN ms \cup {N + 1}
      /\ ns[N + 1] = m /\ \A i \in DOMAIN ms : ns[i] = ms[i]
  BY <1>1, <1>2, Appended
<1>4. N \in Nat /\ DOMAIN ms = 1 .. N /\ Len(ns) = N + 1
  <2>1. N \in Nat /\ DOMAIN ms = 1 .. N
    BY <1>2, Indices
  <2>2. Len(ns) \in Nat /\ DOMAIN ns = 1 .. Len(ns)
    BY <1>3, Indices
  <2>3. DOMAIN ns = 1 .. (N + 1) /\ N + 1 \in Nat
    BY <1>3, <2>1
  <2>4. Len(ns) = N + 1
    BY <2>2, <2>3, SameLength
  <2> QED
    BY <2>1, <2>4
<1>5. PICK g : IsChain(ms, N, g) /\ History(ms) = g[N]
  BY <1>2, HistoryAlong
<1>6. PICK h : IsChain(ns, N + 1, h) /\ History(ns) = h[N + 1]
  BY <1>3, <1>4, HistoryAlong
<1>7. g[N] = h[N]
  <2>1. \A i \in 1 .. N : ms[i].qty = ns[i].qty /\ ms[i].cost = ns[i].cost
    BY <1>3, <1>4
  <2>2. N + 1 \in Nat /\ N <= N + 1 /\ N \in 0 .. N
    BY <1>4
  <2> QED
    BY <1>4, <1>5, <1>6, <2>1, <2>2, ChainsAgree
<1>8. h[N + 1] = Extended(h[N], m)
  <2>1. N + 1 \in 0 .. (N + 1) /\ N + 1 # 0 /\ (N + 1) - 1 = N
    BY <1>4
  <2>2. h[N + 1] = ChainStep(ns, h, N + 1)
    BY <1>6, <2>1 DEF IsChain
  <2> QED
    BY <1>3, <2>1, <2>2 DEF ChainStep
<1> QED
  BY <1>1, <1>5, <1>6, <1>7, <1>8

\* Balances do not enter the history.
LEMMA HistorySame ==
    ASSUME NEW ms, IsTable(ms), NEW ns, IsTable(ns), DOMAIN ns = DOMAIN ms,
           \A i \in DOMAIN ms : ms[i].qty = ns[i].qty /\ ms[i].cost = ns[i].cost
    PROVE  History(ns) = History(ms)
<1>1. PICK N : N = Len(ms)
  OBVIOUS
<1>2. N \in Nat /\ DOMAIN ms = 1 .. N /\ Len(ns) = N
  <2>1. N \in Nat /\ DOMAIN ms = 1 .. N /\ Len(ns) \in Nat /\ DOMAIN ns = 1 .. Len(ns)
    BY <1>1, Indices
  <2>2. 1 .. Len(ns) = 1 .. N
    BY <2>1
  <2>3. Len(ns) = N
    BY <2>1, <2>2, SameLength
  <2> QED
    BY <2>1, <2>3
<1>3. PICK g : IsChain(ms, N, g) /\ History(ms) = g[N]
  BY <1>1, HistoryAlong
<1>4. PICK h : IsChain(ns, N, h) /\ History(ns) = h[N]
  BY <1>2, HistoryAlong
<1>5. g[N] = h[N]
  <2>1. \A i \in 1 .. N : ms[i].qty = ns[i].qty /\ ms[i].cost = ns[i].cost
    BY <1>2
  <2>2. N <= N /\ N \in 0 .. N /\ N \in Nat
    BY <1>2
  <2>3. \A k \in 0 .. N : g[k] = h[k]
    BY <1>3, <1>4, <2>1, <2>2, ChainsAgree
  <2> QED
    BY <2>2, <2>3
<1> QED
  BY <1>3, <1>4, <1>5

LEMMA HistoryEmpty ==
    ASSUME NEW ms, IsTable(ms), ms = <<>>
    PROVE  History(ms) = Start
<1>1. PICK h : IsChain(ms, 0, h) /\ History(ms) = h[0]
  <2>1. Len(ms) = 0
    OBVIOUS
  <2> QED
    BY <2>1, HistoryAlong
<1> QED
  BY <1>1 DEF IsChain, ChainStep

-------------------------------------------------------------------------------
(* What the history gives.                                                  *)

Prices == Int \cup {NoCost}
Priced(ms) == \A i \in DOMAIN ms : ms[i].cost \in Prices

IsFraction(h) ==
    /\ h = [num |-> h.num, den |-> h.den, held |-> h.held]
    /\ h.num \in Int /\ h.den \in Int /\ h.held \in Int
    /\ h.den > 0

LEMMA ProductPositive == \A a, b \in Int : (a > 0 /\ b > 0) => a * b > 0
OBVIOUS

LEMMA ProductType == \A a, b \in Int : a * b \in Int
OBVIOUS

LEMMA ExtendedShape ==
    ASSUME NEW h, IsFraction(h), NEW m, m.qty \in Int, m.cost \in Prices
    PROVE  IsFraction(Extended(h, m)) /\ Extended(h, m).held = h.held + m.qty
<1>1. PICK e : e = Extended(h, m)
  OBVIOUS
<1>2. PICK after : after = h.held + m.qty /\ after \in Int
  BY DEF IsFraction
<1>3. h = [num |-> h.num, den |-> h.den, held |-> h.held]
  BY DEF IsFraction
<1>4. CASE m.qty <= 0 \/ m.cost = NoCost
  <2>1. e = [h EXCEPT !.held = after]
    BY <1>1, <1>2, <1>4 DEF Extended
  <2>2. e = [num |-> h.num, den |-> h.den, held |-> after]
    BY <1>3, <2>1
  <2> QED
    BY <1>1, <1>2, <2>2 DEF IsFraction
<1>5. CASE ~(m.qty <= 0 \/ m.cost = NoCost) /\ after <= 0
  <2>1. e = [num |-> m.cost, den |-> 1, held |-> after]
    BY <1>1, <1>2, <1>5 DEF Extended
  <2> QED
    BY <1>1, <1>2, <1>5, <2>1 DEF IsFraction, Prices
<1>6. CASE ~(m.qty <= 0 \/ m.cost = NoCost) /\ ~(after <= 0)
  <2>1. PICK n : n = h.num * h.held + m.cost * m.qty * h.den
    OBVIOUS
  <2>2. PICK d : d = h.den * after
    OBVIOUS
  <2>3. e = [num |-> n, den |-> d, held |-> after]
    BY <1>1, <1>2, <1>6, <2>1, <2>2 DEF Extended
  <2>4. m.cost \in Int
    BY <1>6 DEF Prices
  <2>5. n \in Int
    <3>1. h.num * h.held \in Int /\ m.cost * m.qty \in Int
      BY <2>4, ProductType DEF IsFraction
    <3>2. m.cost * m.qty * h.den \in Int
      BY <3>1, ProductType DEF IsFraction
    <3> QED
      BY <2>1, <3>1, <3>2
  <2>6. d \in Int /\ d > 0
    BY <1>2, <1>6, <2>2, ProductType, ProductPositive DEF IsFraction
  <2> QED
    BY <1>1, <1>2, <2>3, <2>5, <2>6 DEF IsFraction
<1> QED
  BY <1>4, <1>5, <1>6

LEMMA HistoryShape ==
    ASSUME NEW ms, IsTable(ms), Priced(ms)
    PROVE  IsFraction(History(ms)) /\ History(ms).held = OnHand(ms)
<1>1. PICK N : N = Len(ms)
  OBVIOUS
<1>2. N \in Nat /\ DOMAIN ms = 1 .. N
  BY <1>1, Indices
<1>3. PICK h : IsChain(ms, N, h) /\ History(ms) = h[N]
  BY <1>1, HistoryAlong
<1> DEFINE G == {k \in 0 .. N : IsFraction(h[k]) /\ h[k].held = Total(ms, 1 .. k)}
<1>4. 0 \in G
  <2>1. h[0] = Start
    BY <1>2, <1>3 DEF IsChain, ChainStep
  <2>2. 1 .. 0 = {}
    OBVIOUS
  <2>3. Total(ms, 1 .. 0) = 0
    BY <2>2, TotalEmpty
  <2> QED
    BY <1>2, <2>1, <2>3 DEF Start, IsFraction
<1>5. ASSUME NEW k \in 1 .. N, k - 1 \in G PROVE k \in G
  <2>1. k \in 0 .. N /\ k # 0
    BY <1>5
  <2>2. h[k] = Extended(h[k - 1], ms[k])
    BY <1>3, <2>1 DEF IsChain, ChainStep
  <2>3. ms[k].qty \in Int /\ ms[k].cost \in Prices
    BY <1>2, <1>5 DEF IsTable, IsMovement, Priced
  <2>4. IsFraction(h[k - 1]) /\ h[k - 1].held = Total(ms, 1 .. (k - 1))
    BY <1>5
  <2>5. IsFraction(h[k]) /\ h[k].held = h[k - 1].held + ms[k].qty
    BY <2>2, <2>3, <2>4, ExtendedShape
  <2>6. Total(ms, 1 .. k) = Total(ms, 1 .. (k - 1)) + ms[k].qty
    <3>1. PICK A : A = 1 .. (k - 1)
      OBVIOUS
    <3>2. A \in SUBSET (DOMAIN ms) /\ k \in DOMAIN ms /\ k \notin A /\ 1 .. k = A \cup {k}
      BY <1>2, <1>5, <3>1
    <3>3. Total(ms, A \cup {k}) = Total(ms, A) + ms[k].qty
      BY <3>2, TotalAdd
    <3> QED
      BY <3>1, <3>2, <3>3
  <2> QED
    BY <2>1, <2>4, <2>5, <2>6
<1> HIDE DEF G
<1>6. \A k \in 0 .. N : k \in G
  BY <1>2, <1>4, <1>5, Counting
<1>7. N \in G
  BY <1>2, <1>6
<1> QED
  BY <1>2, <1>3, <1>7 DEF G, OnHand

\* A table that was never short anywhere holds no less than nothing.
LEMMA OnHandNotShort ==
    ASSUME NEW ms, IsTable(ms), Running(ms), \A i \in DOMAIN ms : ms[i].bal >= 0
    PROVE  OnHand(ms) \in Nat
<1>1. PICK N : N = Len(ms)
  OBVIOUS
<1>2. N \in Nat /\ DOMAIN ms = 1 .. N /\ IsFiniteSet(DOMAIN ms)
  BY <1>1, Indices
<1> DEFINE Before(k, l) == {j \in 1 .. k : ms[j].loc = l}
<1>3. ASSUME NEW l PROVE Balance(ms, l) \in Nat
  <2> DEFINE G == {k \in 0 .. N : Total(ms, Before(k, l)) \in Nat}
  <2>1. 0 \in G
    <3>1. Before(0, l) = {}
      OBVIOUS
    <3> QED
      BY <1>2, <3>1, TotalEmpty
  <2>2. ASSUME NEW k \in 1 .. N, k - 1 \in G PROVE k \in G
    <3>1. k \in 0 .. N /\ k \in DOMAIN ms
      BY <1>2, <2>2
    <3>2. CASE ms[k].loc = l
      <4>1. Before(k, l) = UpTo(ms, k)
        BY <3>2 DEF UpTo
      <4>2. Total(ms, Before(k, l)) = ms[k].bal
        BY <3>1, <4>1 DEF Running, BalanceAt, UpTo
      <4>3. Total(ms, Before(k, l)) \in Int
        <5>1. Before(k, l) \in SUBSET (DOMAIN ms)
          BY <1>2, <2>2
        <5> QED
          BY <5>1, TotalType
      <4> QED
        BY <3>1, <4>2, <4>3
    <3>3. CASE ms[k].loc # l
      <4>1. Before(k, l) = Before(k - 1, l)
        BY <2>2, <3>3
      <4> QED
        BY <2>2, <3>1, <4>1
    <3> QED
      BY <3>2, <3>3
  <2>3. N \in G
    <3> HIDE DEF G
    <3>1. \A k \in 0 .. N : k \in G
      BY <1>2, <2>1, <2>2, Counting
    <3> QED
      BY <1>2, <3>1
  <2>4. Before(N, l) = At(ms, l)
    BY <1>2 DEF At
  <2> QED
    BY <2>3, <2>4 DEF Balance, At
<1>4. PICK f : f = [i \in DOMAIN ms |-> ms[i].qty]
  OBVIOUS
<1>5. PICK r : r = [i \in DOMAIN ms |-> ms[i].loc]
  OBVIOUS
<1>6. PICK E : E = {r[i] : i \in DOMAIN ms}
  OBVIOUS
<1>7. IsFiniteSet(E)
  <2>1. r \in Surjection(DOMAIN ms, E)
    BY <1>5, <1>6 DEF Surjection
  <2> QED
    BY <1>2, <2>1, FS_Surjection
<1>8. \A i \in DOMAIN ms : f[i] \in Int /\ r[i] \in E
  BY <1>4, <1>6 DEF IsTable, IsMovement
<1>9. PICK g : g = [e \in E |-> SumFunctionOnSet(f, {i \in DOMAIN ms : r[i] = e})]
  OBVIOUS
<1>10. SumFunctionOnSet(f, DOMAIN ms) = SumFunctionOnSet(g, E)
  <2>1. PICK D : D = DOMAIN ms
    OBVIOUS
  <2>2. IsFiniteSet(D) /\ \A i \in D : f[i] \in Int /\ r[i] \in E
    BY <1>2, <1>8, <2>1
  <2>3. SumFunctionOnSet(f, D)
          = SumFunctionOnSet([e \in E |-> SumFunctionOnSet(f, {i \in D : r[i] = e})], E)
    BY <1>7, <2>2, SumParts
  <2> QED
    BY <1>9, <2>1, <2>3
<1>11. \A e \in E : g[e] \in Nat
  <2> SUFFICES ASSUME NEW e \in E PROVE g[e] \in Nat
    OBVIOUS
  <2>1. {i \in DOMAIN ms : r[i] = e} = At(ms, e)
    BY <1>5 DEF At
  <2>2. g[e] = Balance(ms, e)
    BY <1>4, <1>9, <2>1 DEF Balance, Total, At
  <2> QED
    BY <1>3, <2>2
<1>12. SumFunctionOnSet(g, E) \in Nat
  BY <1>7, <1>11, SumNotNegative
<1> QED
  BY <1>4, <1>10, <1>12 DEF OnHand, Total

-------------------------------------------------------------------------------
(* Rounding.                                                                *)

\* What the column stores is within half an amount of the quotient.
LEMMA RoundedIsNear ==
    ASSUME NEW n \in Int, NEW d \in Int, d > 0, NEW r, r = Rounded(n, d)
    PROVE  r \in Int /\ 2 * (r * d - n) <= d /\ 2 * (n - r * d) <= d
<1>1. CASE n >= 0
  <2>1. PICK x \in Int : x = 2 * n + d
    OBVIOUS
  <2>2. PICK y \in Int : y = 2 * d /\ y > 0
    OBVIOUS
  <2>3. r = x \div y
    BY <1>1, <2>1, <2>2 DEF Rounded
  <2>4. r \in Int /\ y * r <= x /\ x < y * r + y
    BY <2>2, <2>3
  <2>5. y * r = 2 * (r * d)
    BY <2>2, <2>4
  <2>6. r * d \in Int
    BY <2>4
  <2> QED
    BY <2>1, <2>2, <2>4, <2>5, <2>6
<1>2. CASE ~(n >= 0)
  <2>1. PICK x \in Int : x = d - 2 * n
    OBVIOUS
  <2>2. PICK y \in Int : y = 2 * d /\ y > 0
    OBVIOUS
  <2>3. PICK s : s = x \div y
    OBVIOUS
  <2>4. r = 0 - s
    BY <1>2, <2>1, <2>2, <2>3 DEF Rounded
  <2>5. s \in Int /\ y * s <= x /\ x < y * s + y
    BY <2>2, <2>3
  <2>6. y * s = 0 - 2 * (r * d)
    BY <2>2, <2>4, <2>5
  <2>7. r \in Int /\ r * d \in Int
    BY <2>4, <2>5
  <2> QED
    BY <2>1, <2>2, <2>5, <2>6, <2>7
<1> QED
  BY <1>1, <1>2

LEMMA TimesMonotone == \A a, b, c \in Int : (a <= b /\ c >= 0) => c * a <= c * b
OBVIOUS

\* The error a new average has: its own rounding and what the old one brings.
LEMMA ErrorIdentity ==
    \A a, b, c, d, n, q, r \in Int :
        r * (d * (b + q)) - (n * b + c * q * d)
          = d * (r * (b + q) - (a * b + c * q)) + b * (a * d - n)
OBVIOUS

\* An error of at most N + 1 halves of d, spread over what is held and diluted, and half
\* a unit more.
LEMMA ErrorGrows ==
    ASSUME NEW x \in Int, NEW e \in Int, NEW b \in Int, NEW w \in Int, NEW d \in Int,
           NEW N \in Nat, d > 0, b >= 0, w >= b,
           2 * x <= w, 2 * e <= (N + 1) * d
    PROVE  2 * (d * x + b * e) <= (N + 2) * (d * w)
<1>1. d * (2 * x) <= d * w
  <2>1. 2 * x \in Int
    OBVIOUS
  <2> QED
    BY <2>1, TimesMonotone
<1>2. PICK k \in Int : k = (N + 1) * d /\ k >= 0
  <2>1. (N + 1) * d \in Int /\ (N + 1) * d >= 0
    OBVIOUS
  <2> QED
    BY <2>1
<1>3. b * (2 * e) <= b * k
  <2>1. 2 * e \in Int
    OBVIOUS
  <2> QED
    BY <1>2, <2>1, TimesMonotone
<1>4. b * k <= w * k
  <2>1. k * b <= k * w
    BY <1>2, TimesMonotone
  <2>2. k * b = b * k /\ k * w = w * k
    BY <1>2
  <2> QED
    BY <2>1, <2>2
<1>5. w * k = (N + 1) * (d * w)
  BY <1>2
<1>6. d * (2 * x) = 2 * (d * x) /\ b * (2 * e) = 2 * (b * e)
  OBVIOUS
<1>7. d * x \in Int /\ b * e \in Int /\ d * w \in Int /\ b * k \in Int /\ w * k \in Int
  BY <1>2, ProductType
<1>8. 2 * (d * x) + 2 * (b * e) <= d * w + w * k
  BY <1>1, <1>3, <1>4, <1>6, <1>7
<1>9. d * w + (N + 1) * (d * w) = (N + 2) * (d * w)
  BY <1>7
<1> QED
  BY <1>5, <1>7, <1>8, <1>9

\* a is the average of the history h, up to n + 1 halves of an amount.
Close(a, h, n) ==
    /\ 2 * (a * h.den - h.num) <= (n + 1) * h.den
    /\ 2 * (h.num - a * h.den) <= (n + 1) * h.den

LEMMA CloseStep ==
    ASSUME NEW h, IsFraction(h), h.held >= 0, NEW a \in Int, NEW N \in Nat, Close(a, h, N),
           NEW m, m.qty \in Int, m.qty > 0, m.cost \in Int
    PROVE  /\ Averaged(a, h.held, m.qty, m.cost) \in Int
           /\ Close(Averaged(a, h.held, m.qty, m.cost), Extended(h, m), N + 1)
<1>1. PICK b \in Int : b = h.held /\ b >= 0
  BY DEF IsFraction
<1>2. PICK d \in Int : d = h.den /\ d > 0
  BY DEF IsFraction
<1>3. PICK n \in Int : n = h.num
  BY DEF IsFraction
<1>4. PICK q \in Int : q = m.qty /\ q > 0
  OBVIOUS
<1>5. PICK c \in Int : c = m.cost
  OBVIOUS
<1>6. PICK w \in Int : w = b + q /\ w > 0 /\ w >= b
  BY <1>1, <1>4
<1>7. PICK v \in Int : v = a * b + c * q
  <2>1. a * b \in Int /\ c * q \in Int
    BY ProductType
  <2> QED
    BY <2>1
<1>8. PICK r : r = Rounded(v, w)
  OBVIOUS
<1>9. Averaged(a, h.held, m.qty, m.cost) = r
  BY <1>1, <1>4, <1>5, <1>6, <1>7, <1>8 DEF Averaged
<1>10. r \in Int /\ 2 * (r * w - v) <= w /\ 2 * (v - r * w) <= w
  BY <1>6, <1>8, RoundedIsNear
<1>11. PICK f : f = Extended(h, m)
  OBVIOUS
<1>12. f.den = d * w /\ f.num = n * b + c * q * d
  <2>1. m.cost # NoCost
    BY StockAssumption
  <2>2. ~(m.qty <= 0 \/ m.cost = NoCost) /\ ~(h.held + m.qty <= 0)
    BY <1>1, <1>4, <1>6, <2>1
  <2>3. f = [num |-> h.num * h.held + m.cost * m.qty * h.den, den |-> h.den * (h.held + m.qty),
             held |-> h.held + m.qty]
    BY <1>11, <2>2 DEF Extended
  <2> QED
    BY <1>1, <1>2, <1>3, <1>4, <1>5, <1>6, <2>3
<1>13. PICK x \in Int : x = r * w - v
  <2>1. r * w \in Int
    BY <1>10, ProductType
  <2> QED
    BY <2>1
<1>14. PICK e \in Int : e = a * d - n
  <2>1. a * d \in Int
    BY ProductType
  <2> QED
    BY <2>1
<1>15. r * f.den - f.num = d * x + b * e
  BY <1>6, <1>7, <1>10, <1>12, <1>13, <1>14, ErrorIdentity
<1>16. 2 * x <= w /\ 2 * (0 - x) <= w
  <2>1. r * w \in Int
    BY <1>10, ProductType
  <2> QED
    BY <1>10, <1>13, <2>1
<1>17. 2 * e <= (N + 1) * d /\ 2 * (0 - e) <= (N + 1) * d
  <2>1. a * d \in Int
    BY ProductType
  <2>2. 2 * (a * d - n) <= (N + 1) * d /\ 2 * (n - a * d) <= (N + 1) * d
    BY <1>2, <1>3 DEF Close
  <2> QED
    BY <1>14, <2>1, <2>2
<1>18. 2 * (d * x + b * e) <= (N + 2) * (d * w)
  BY <1>1, <1>2, <1>6, <1>16, <1>17, ErrorGrows
<1>19. 2 * (d * (0 - x) + b * (0 - e)) <= (N + 2) * (d * w)
  <2>1. 0 - x \in Int /\ 0 - e \in Int
    OBVIOUS
  <2> QED
    BY <1>1, <1>2, <1>6, <1>16, <1>17, <2>1, ErrorGrows
<1>20. d * (0 - x) = 0 - d * x /\ b * (0 - e) = 0 - b * e /\ d * x \in Int /\ b * e \in Int
  OBVIOUS
<1>21. PICK k \in Int : k = d * x + b * e
  BY <1>20
<1>22. 2 * k <= (N + 2) * (d * w) /\ 2 * (0 - k) <= (N + 2) * (d * w)
  BY <1>18, <1>19, <1>20, <1>21
<1>23. r * f.den - f.num = k /\ f.num - r * f.den = 0 - k
  <2>1. f.num \in Int /\ r * f.den \in Int
    <3>1. IsFraction(f)
      BY <1>11, ExtendedShape DEF Prices
    <3> QED
      BY <1>10, <3>1, ProductType DEF IsFraction
  <2> QED
    BY <1>15, <1>21, <2>1
<1>24. Close(r, f, N + 1)
  <2>1. (N + 1) + 1 = N + 2
    OBVIOUS
  <2> QED
    BY <1>12, <1>22, <1>23, <2>1 DEF Close
<1> QED
  BY <1>9, <1>10, <1>11, <1>24

-------------------------------------------------------------------------------
(* What one movement does to the average.                                   *)

\* The movements that brought goods at a cost.
Brought(ms) == {i \in DOMAIN ms : ms[i].qty > 0 /\ ms[i].cost # NoCost}

\* AverageFollowsHistory, of any table and any average.
Averages(ms, a) ==
    (\A i \in DOMAIN ms : ms[i].bal >= 0) => Close(a, History(ms), Cardinality(Brought(ms)))

LEMMA AveragesIs == AverageFollowsHistory <=> Averages(movements, item.average)
BY DEF AverageFollowsHistory, NeverShort, Averages, Close, Brought

LEMMA BroughtCount ==
    ASSUME NEW ms, IsTable(ms)
    PROVE  IsFiniteSet(Brought(ms)) /\ Cardinality(Brought(ms)) \in Nat
<1>1. Brought(ms) \in SUBSET (DOMAIN ms)
  BY DEF Brought
<1>2. IsFiniteSet(Brought(ms))
  BY <1>1, Indices
<1> QED
  BY <1>2, FS_CardinalityType

LEMMA BroughtAppend ==
    ASSUME NEW ms, IsTable(ms), NEW m, IsMovement(m), NEW ns, ns = Append(ms, m)
    PROVE  Cardinality(Brought(ns))
             = Cardinality(Brought(ms)) + (IF m.qty > 0 /\ m.cost # NoCost THEN 1 ELSE 0)
<1>1. PICK e : e = Len(ms) + 1
  OBVIOUS
<1>2. /\ DOMAIN ns = DOMAIN ms \cup {e} /\ e \notin DOMAIN ms
      /\ ns[e] = m /\ \A i \in DOMAIN ms : ns[i] = ms[i]
  BY <1>1, Appended
<1>3. IsFiniteSet(Brought(ms)) /\ Cardinality(Brought(ms)) \in Nat
  BY BroughtCount
<1>4. CASE m.qty > 0 /\ m.cost # NoCost
  <2>1. Brought(ns) = Brought(ms) \cup {e} /\ e \notin Brought(ms)
    BY <1>2, <1>4 DEF Brought
  <2>2. Cardinality(Brought(ms) \cup {e}) = Cardinality(Brought(ms)) + 1
    BY <1>3, <2>1, FS_AddElement
  <2> QED
    BY <1>4, <2>1, <2>2
<1>5. CASE ~(m.qty > 0 /\ m.cost # NoCost)
  <2>1. Brought(ns) = Brought(ms)
    BY <1>2, <1>5 DEF Brought
  <2> QED
    BY <1>3, <1>5, <2>1
<1> QED
  BY <1>4, <1>5

\* What brings no goods at a cost leaves the average; what does is averaged in.
Follow(ms, a, qty, cost) ==
    IF qty > 0 /\ cost # NoCost THEN Averaged(a, OnHand(ms), qty, cost) ELSE a

LEMMA MovedAverages ==
    ASSUME NEW ms, IsTable(ms), Running(ms), Priced(ms), NEW a \in Int, Averages(ms, a),
           NEW doc, NEW loc, NEW qty \in Int, NEW cost \in Prices,
           NEW ns, ns = Moved(ms, ms, doc, loc, qty, cost),
           NEW b, b = Follow(ms, a, qty, cost)
    PROVE  b \in Int /\ Priced(ns) /\ Averages(ns, b)
<1>1. PICK m : m = [doc |-> doc, loc |-> loc, qty |-> qty, cost |-> cost,
                    bal |-> Balance(ms, loc) + qty]
  OBVIOUS
<1>2. IsMovement(m) /\ ns = Append(ms, m) /\ m.qty = qty /\ m.cost = cost
  BY <1>1 DEF IsMovement, Moved
<1>3. PICK e : e = Len(ms) + 1
  OBVIOUS
<1>4. /\ DOMAIN ns = DOMAIN ms \cup {e} /\ e \notin DOMAIN ms
      /\ ns[e] = m /\ \A i \in DOMAIN ms : ns[i] = ms[i]
  BY <1>2, <1>3, Appended
<1>5. Priced(ns)
  BY <1>2, <1>4 DEF Priced
<1>6. PICK h : h = History(ms)
  OBVIOUS
<1>7. IsFraction(h) /\ h.held = OnHand(ms)
  BY <1>6, HistoryShape
<1>8. PICK f : f = Extended(h, m)
  OBVIOUS
<1>9. History(ns) = f
  BY <1>2, <1>6, <1>8, HistoryAppend
<1>10. PICK n \in Nat : n = Cardinality(Brought(ms))
  BY BroughtCount
<1>11. CASE qty > 0 /\ cost # NoCost
  <2>1. cost \in Int
    BY <1>11 DEF Prices
  <2>2. b = Averaged(a, h.held, qty, cost)
    BY <1>7, <1>11 DEF Follow
  <2>3. b \in Int
    <3>1. CASE h.held + qty <= 0
      BY <2>1, <2>2, <3>1 DEF Averaged
    <3>2. CASE ~(h.held + qty <= 0)
      <4>1. PICK x : x = a * h.held + cost * qty
        OBVIOUS
      <4>2. x \in Int
        <5>1. a * h.held \in Int /\ cost * qty \in Int
          BY <1>7, <2>1, ProductType DEF IsFraction
        <5> QED
          BY <4>1, <5>1
      <4>3. PICK w : w = h.held + qty /\ w \in Int /\ w > 0
        BY <1>7, <3>2 DEF IsFraction
      <4>4. b = Rounded(x, w)
        BY <2>2, <3>2, <4>1, <4>3 DEF Averaged
      <4> QED
        BY <4>2, <4>3, <4>4, RoundedIsNear
    <3> QED
      BY <3>1, <3>2
  <2>4. ASSUME \A i \in DOMAIN ns : ns[i].bal >= 0
        PROVE  Close(b, f, Cardinality(Brought(ns)))
    <3>1. \A i \in DOMAIN ms : ms[i].bal >= 0
      BY <1>4, <2>4
    <3>2. h.held >= 0
      <4>1. OnHand(ms) \in Nat
        BY <3>1, OnHandNotShort
      <4> QED
        BY <1>7, <4>1
    <3>3. Close(a, h, n)
      BY <1>6, <1>10, <3>1 DEF Averages
    <3>4. Close(b, f, n + 1)
      BY <1>2, <1>7, <1>8, <1>11, <2>1, <2>2, <3>2, <3>3, CloseStep
    <3>5. Cardinality(Brought(ns)) = n + 1
      BY <1>2, <1>10, <1>11, BroughtAppend
    <3> QED
      BY <3>4, <3>5
  <2> QED
    BY <1>5, <1>9, <2>3, <2>4 DEF Averages
<1>12. CASE ~(qty > 0 /\ cost # NoCost)
  <2>1. b = a
    BY <1>12 DEF Follow
  <2>2. f.num = h.num /\ f.den = h.den
    <3>1. m.qty <= 0 \/ m.cost = NoCost
      BY <1>2, <1>12
    <3>2. f = [h EXCEPT !.held = h.held + m.qty]
      BY <1>8, <3>1 DEF Extended
    <3>3. h = [num |-> h.num, den |-> h.den, held |-> h.held]
      BY <1>7 DEF IsFraction
    <3> QED
      BY <3>2, <3>3
  <2>3. Cardinality(Brought(ns)) = n
    <3>1. Cardinality(Brought(ns)) = n + 0
      BY <1>2, <1>10, <1>12, BroughtAppend
    <3> QED
      BY <3>1
  <2>4. ASSUME \A i \in DOMAIN ns : ns[i].bal >= 0
        PROVE  Close(b, f, n)
    <3>1. \A i \in DOMAIN ms : ms[i].bal >= 0
      BY <1>4, <2>4
    <3>2. Close(a, h, n)
      BY <1>6, <1>10, <3>1 DEF Averages
    <3> QED
      BY <2>1, <2>2, <3>2 DEF Close
  <2> QED
    BY <1>5, <1>9, <2>1, <2>3, <2>4 DEF Averages
<1> QED
  BY <1>11, <1>12

\* The opening is not averaged in: the average is computed again from the history.
LEMMA RecomputedAverages ==
    ASSUME NEW now, IsTable(now), Priced(now),
           NEW ns, IsTable(ns), DOMAIN ns = DOMAIN now,
           \A i \in DOMAIN now : now[i].qty = ns[i].qty /\ now[i].cost = ns[i].cost,
           NEW a, a = Recomputed(now)
    PROVE  a \in Int /\ Priced(ns) /\ Averages(ns, a)
<1>1. PICK h : h = History(now)
  OBVIOUS
<1>2. IsFraction(h)
  BY <1>1, HistoryShape
<1>3. History(ns) = h
  BY <1>1, HistorySame
<1>4. PICK n \in Int : n = h.num
  BY <1>2 DEF IsFraction
<1>5. PICK d \in Int : d = h.den /\ d > 0
  BY <1>2 DEF IsFraction
<1>6. a = Rounded(n, d)
  BY <1>1, <1>4, <1>5 DEF Recomputed
<1>7. a \in Int /\ 2 * (a * d - n) <= d /\ 2 * (n - a * d) <= d
  BY <1>5, <1>6, RoundedIsNear
<1>8. PICK k \in Nat : k = Cardinality(Brought(ns))
  BY BroughtCount
<1>9. d <= (k + 1) * d
  <2>1. k * d >= 0
    BY <1>5
  <2>2. (k + 1) * d = k * d + d /\ k * d \in Int
    OBVIOUS
  <2> QED
    BY <2>1, <2>2
<1>10. Close(a, h, k)
  <2>1. a * d \in Int /\ (k + 1) * d \in Int
    BY <1>7, ProductType
  <2>2. 2 * (a * d - n) <= (k + 1) * d /\ 2 * (n - a * d) <= (k + 1) * d
    BY <1>7, <1>9, <2>1
  <2> QED
    BY <1>4, <1>5, <2>2 DEF Close
<1>11. Priced(ns)
  BY DEF Priced
<1> QED
  BY <1>3, <1>7, <1>8, <1>10, <1>11 DEF Averages

LEMMA RestPriced ==
    ASSUME NEW ms, IsTable(ms), OnlyOne(ms), Priced(ms), NEW rest, rest = Rest(ms)
    PROVE  IsTable(rest) /\ Priced(rest)
<1>1. CASE Opened(ms)
  <2>1. PICK a : a = OpeningAt(ms)
    OBVIOUS
  <2>2. a \in DOMAIN ms /\ rest = RemoveAt(ms, a)
    BY <1>1, <2>1, OpeningIsAt DEF OpeningRow, Rest
  <2>3. Without(ms, rest, a)
    BY <2>2, RemovedAt
  <2> QED
    BY <2>3, WithoutRows DEF Priced
<1>2. CASE ~Opened(ms)
  BY <1>2 DEF Rest
<1> QED
  BY <1>1, <1>2

LEMMA PutPriced ==
    ASSUME NEW ms, IsTable(ms), OnlyOne(ms), Priced(ms),
           NEW loc, NEW qty \in Int, NEW cost \in Prices, NEW at \in Places(ms),
           NEW now, now = Put(ms, loc, qty, cost, at)
    PROVE  IsTable(now) /\ Priced(now)
<1>1. PICK rest : rest = Rest(ms)
  OBVIOUS
<1>2. IsTable(rest) /\ Priced(rest)
  BY <1>1, RestPriced
<1>3. PICK row : row = [doc |-> Item, loc |-> loc, qty |-> qty, cost |-> cost, bal |-> qty]
  OBVIOUS
<1>4. IsMovement(row) /\ row.cost \in Prices
  BY <1>3 DEF IsMovement
<1>5. at \in 1 .. Len(rest) + 1 /\ now = InsertAt(rest, at, row)
  BY <1>1, <1>3 DEF Places, Put
<1>6. Without(now, rest, at) /\ now[at] = row
  BY <1>2, <1>4, <1>5, InsertedAt
<1>7. ASSUME NEW i \in DOMAIN now PROVE now[i].cost \in Prices
  <2>1. CASE i = at
    BY <1>4, <1>6, <2>1
  <2>2. CASE i # at
    <3>1. PICK k \in DOMAIN rest : i = Past(at, k)
      BY <1>6, <1>7, <2>2, WithoutRows
    <3>2. rest[k] = now[i]
      BY <1>6, <3>1, WithoutRows
    <3> QED
      BY <1>2, <3>1, <3>2 DEF Priced
  <2> QED
    BY <2>1, <2>2
<1> QED
  BY <1>6, <1>7, WithoutRows DEF Priced

-------------------------------------------------------------------------------
(* The prices of purchases.                                                 *)

PurchasesPriced ==
    \A d \in Purchases : docs[d].status # "absent" => docs[d].form.cost # NoCost

\* Requests about purchases have prices, and only purchases are taken out again.
RequestPriced(q) ==
    /\ q.id \in Purchases => q.row.form.cost # NoCost /\ q.form.cost # NoCost
    /\ (q.row.status = "posted" /\ q.op \in {"edit", "remove"}) => q.id \in Purchases
RequestsPriced == \A p \in Procs : reqs[p] # Idle => RequestPriced(reqs[p])

PricesOK == PurchasesPriced /\ RequestsPriced

LEMMA FormPriced ==
    ASSUME NEW d, NEW form, <<d, form>> \in Forms, d \in Purchases
    PROVE  form.cost # NoCost
BY StockAssumption

LEMMA IsPair == \A q \in Forms : <<q[1], q[2]>> \in Forms
BY StockAssumption

LEMMA RequestStays ==
    ASSUME PricesOK, NEW p \in Procs,
           reqs'[p] # Idle => RequestPriced(reqs'[p]),
           \A q \in Procs : q # p => reqs'[q] = reqs[q]
    PROVE  RequestsPriced'
<1>1. ASSUME NEW q \in Procs, reqs'[q] # Idle PROVE RequestPriced(reqs'[q])
  <2>1. CASE q = p
    BY <1>1, <2>1
  <2>2. CASE q # p
    BY <1>1, <2>2 DEF PricesOK, RequestsPriced
  <2> QED
    BY <2>1, <2>2
<1> QED
  BY <1>1 DEF RequestsPriced, RequestPriced

LEMMA CommittedPrices ==
    ASSUME PricesOK, NEW p \in Procs, NEW d, Committed(p, d), d \in Docs,
           d \in Purchases => docs'[d].form.cost # NoCost,
           reqs'[p] # Idle => RequestPriced(reqs'[p])
    PROVE  PricesOK'
<1>1. ASSUME NEW e \in Purchases, docs'[e].status # "absent" PROVE docs'[e].form.cost # NoCost
  <2>1. CASE e = d
    BY <1>1, <2>1
  <2>2. CASE e # d
    <3>1. SameLine(docs[e], docs'[e])
      BY <1>1, <2>2 DEF Committed, Docs
    <3> QED
      BY <1>1, <3>1 DEF SameLine, PricesOK, PurchasesPriced
  <2> QED
    BY <2>1, <2>2
<1>2. RequestsPriced'
  BY RequestStays DEF Committed
<1> QED
  BY <1>1, <1>2 DEF PricesOK, PurchasesPriced

LEMMA PriceOf ==
    ASSUME PricesOK, NEW d \in Purchases, docs[d] \in DocRow
    PROVE  docs[d].form.cost # NoCost
BY RowShape DEF PricesOK, PurchasesPriced

LEMMA PostingPrices ==
    ASSUME TableOK, PricesOK, NEW p \in Procs, Posting(p)
    PROVE  PricesOK'
<1>1. PICK d : d = reqs[p].id
  OBVIOUS
<1>2. Posted(p, d)
  BY <1>1, PostingPosts DEF TableOK
<1>3. /\ d \in Docs /\ docs[d] \in DocRow /\ Committed(p, d) /\ reqs'[p] = Idle
      /\ docs'[d] = [status |-> "posted", form |-> docs[d].form]
  BY <1>2 DEF Posted
<1>4. d \in Purchases => docs'[d].form.cost # NoCost
  BY <1>3, PriceOf
<1> QED
  BY <1>3, <1>4, CommittedPrices

LEMMA EditPrices ==
    ASSUME TableOK, PricesOK, NEW p \in Procs, EditCommit(p)
    PROVE  PricesOK'
<1>1. PICK d : d = reqs[p].id
  OBVIOUS
<1>2. PICK row : row = reqs[p].row
  OBVIOUS
<1>3. /\ d \in Docs /\ reqs[p] # Idle /\ Committed(p, d)
      /\ docs'[d] = [status |-> IF row.status = "posted" THEN "draft" ELSE docs[d].status,
                     form |-> reqs[p].form]
      /\ row.status # "posted" => reqs'[p] = Idle
  BY <1>1, <1>2, Edited DEF TableOK
<1>4. RequestPriced(reqs[p])
  BY <1>3 DEF PricesOK, RequestsPriced
<1>5. d \in Purchases => docs'[d].form.cost # NoCost
  BY <1>1, <1>3, <1>4 DEF RequestPriced
<1>6. ASSUME reqs'[p] # Idle PROVE RequestPriced(reqs'[p])
  <2>1. reqs[p] \in Request /\ reqs \in [Procs -> {Idle} \cup Request]
    BY <1>3, InProgress DEF TableOK, RowsOK
  <2>2. reqs' = [reqs EXCEPT ![p].stage = "repost", ![p].op = "post"]
    BY <1>2, <1>3, <1>6 DEF EditCommit
  <2>3. /\ reqs'[p].id = reqs[p].id /\ reqs'[p].row = reqs[p].row
        /\ reqs'[p].form = reqs[p].form /\ reqs'[p].op = "post"
    BY <2>1, <2>2 DEF Request
  <2> QED
    BY <1>4, <2>3 DEF RequestPriced
<1> QED
  BY <1>3, <1>5, <1>6, CommittedPrices

LEMMA RemovePrices ==
    ASSUME TableOK, PricesOK, NEW p \in Procs, RemoveCommit(p)
    PROVE  PricesOK'
<1>1. PICK d : d = reqs[p].id
  OBVIOUS
<1>2. PICK row : row = reqs[p].row
  OBVIOUS
<1>3. /\ d \in Docs /\ docs[d] \in DocRow /\ Committed(p, d) /\ reqs'[p] = Idle
      /\ docs'[d] = [status |-> "deleted", form |-> docs[d].form]
  BY <1>1, <1>2, Removed DEF TableOK
<1>4. d \in Purchases => docs'[d].form.cost # NoCost
  BY <1>3, PriceOf
<1> QED
  BY <1>3, <1>4, CommittedPrices

LEMMA StatusPrices ==
    ASSUME TableOK, PricesOK, NEW p \in Procs, NEW op \in Asks, NEW status \in Given,
           StatusCommit(p, op, status)
    PROVE  PricesOK'
<1>1. PICK d : d = reqs[p].id
  OBVIOUS
<1>2. /\ d \in Docs /\ docs[d] \in DocRow /\ Committed(p, d) /\ reqs'[p] = Idle
      /\ docs'[d] = [status |-> status, form |-> docs[d].form]
  BY <1>1, StatusChanged DEF TableOK
<1>3. d \in Purchases => docs'[d].form.cost # NoCost
  BY <1>2, PriceOf
<1> QED
  BY <1>2, <1>3, CommittedPrices

LEMMA RepostPrices ==
    ASSUME TableOK, PricesOK, NEW p \in Procs, Repost(p)
    PROVE  PricesOK'
<1>1. PICK d : d = reqs[p].id
  OBVIOUS
<1>2. /\ d \in Docs /\ reqs[p] # Idle /\ docs[d] \in DocRow /\ Unposted(d) /\ docs' = docs
      /\ reqs'[p].id = d /\ reqs'[p].op = reqs[p].op /\ reqs'[p].row = docs[d]
      /\ \A q \in Procs : q # p => reqs'[q] = reqs[q]
  BY <1>1, Reposting DEF TableOK, rows
<1>3. RequestPriced(reqs[p])
  BY <1>2 DEF PricesOK, RequestsPriced
<1>4. RequestPriced(reqs'[p])
  <2>1. reqs'[p].form = reqs[p].form
    <3>1. reqs[p] \in Request /\ reqs \in [Procs -> {Idle} \cup Request]
      BY <1>2, InProgress DEF TableOK, RowsOK
    <3>2. reqs' = [reqs EXCEPT ![p].stage = "checked", ![p].row = docs[reqs[p].id]]
      BY DEF Repost
    <3> QED
      BY <3>1, <3>2 DEF Request
  <2>2. docs[d].status # "posted"
    BY <1>2 DEF Unposted
  <2>3. d \in Purchases => docs[d].form.cost # NoCost
    BY <1>2, PriceOf
  <2> QED
    BY <1>1, <1>2, <1>3, <2>1, <2>2, <2>3 DEF RequestPriced
<1>5. RequestsPriced'
  BY <1>2, <1>4, RequestStays
<1> QED
  BY <1>2, <1>5 DEF PricesOK, PurchasesPriced

LEMMA StartedPrices ==
    ASSUME TableOK, PricesOK, Undone \subseteq Purchases,
           NEW p \in Procs, NEW op \in Ops, NEW d \in Docs, NEW form \in Form,
           Started(p, op, d, form)
    PROVE  PricesOK'
<1>1. /\ Read(p, op, d, form) /\ Allowed(op, d, docs[d])
      /\ form = docs[d].form \/ <<d, form>> \in Forms
  BY DEF Started
<1>2. /\ docs[d] \in DocRow /\ docs' = docs
      /\ reqs'[p] = [stage |-> "checked", op |-> op, id |-> d, row |-> docs[d], form |-> form]
      /\ \A q \in Procs : q # p => reqs'[q] = reqs[q]
  BY <1>1, ReadRows DEF TableOK, rows
<1>3. d \in Purchases => docs[d].form.cost # NoCost /\ form.cost # NoCost
  BY <1>1, <1>2, PriceOf, FormPriced
<1>4. (docs[d].status = "posted" /\ op \in {"edit", "remove"}) => d \in Purchases
  BY <1>1 DEF Allowed
<1>5. RequestPriced(reqs'[p])
  BY <1>2, <1>3, <1>4 DEF RequestPriced
<1>6. RequestsPriced'
  BY <1>2, <1>5, RequestStays
<1> QED
  BY <1>2, <1>6 DEF PricesOK, PurchasesPriced

LEMMA PricesStay ==
    ASSUME TableOK, PricesOK, Undone \subseteq Purchases, [Next]_vars
    PROVE  PricesOK'
<1>1. CASE UNCHANGED <<docs, reqs>>
  BY <1>1 DEF PricesOK, PurchasesPriced, RequestsPriced, RequestPriced
<1>2. ASSUME NEW q \in Forms, Create(q[1], q[2]) PROVE PricesOK'
  <2>1. /\ docs'[q[1]] = [status |-> "draft", form |-> q[2]]
        /\ \A e \in Docs : e # q[1] => docs'[e] = docs[e]
    BY <1>2, CreateRows DEF TableOK
  <2>2. reqs' = reqs
    BY <1>2 DEF Create
  <2>3. q[1] \in Purchases => q[2].cost # NoCost
    BY IsPair, FormPriced
  <2>4. ASSUME NEW e \in Purchases, docs'[e].status # "absent"
        PROVE  docs'[e].form.cost # NoCost
    <3>1. e \in Docs
      BY DEF Docs
    <3> QED
      BY <2>1, <2>3, <2>4, <3>1 DEF PricesOK, PurchasesPriced
  <2> QED
    BY <2>2, <2>4 DEF PricesOK, PurchasesPriced, RequestsPriced, RequestPriced
<1>3. ASSUME NEW p \in Procs, Fail(p) PROVE PricesOK'
  <2>1. docs' = docs /\ reqs'[p] = Idle /\ \A q \in Procs : q # p => reqs'[q] = reqs[q]
    BY <1>3, Failed DEF TableOK, rows
  <2>2. RequestsPriced'
    BY <2>1, RequestStays
  <2> QED
    BY <2>1, <2>2 DEF PricesOK, PurchasesPriced
<1>4. UNCHANGED vars => UNCHANGED <<docs, reqs>>
  BY DEF vars
<1>5. ASSUME NEW s \in Sales, Sell(s[1], s[2]) PROVE UNCHANGED <<docs, reqs>>
  BY <1>5 DEF Sell
<1>6. ASSUME NEW o \in Openings, NEW at, SetOpening(o[1], o[2], o[3], at)
      PROVE  UNCHANGED <<docs, reqs>>
  BY <1>6 DEF SetOpening
<1>7. Quiet => UNCHANGED <<docs, reqs>>
  BY DEF Quiet
<1>8. RowsOK
  BY DEF TableOK
<1> QED
  BY <1>1, <1>2, <1>3, <1>4, <1>5, <1>6, <1>7, <1>8, Steps, StartedPrices, PostingPrices,
     EditPrices, RemovePrices, StatusPrices, RepostPrices

-------------------------------------------------------------------------------
(* Every step keeps to the history.                                         *)

Values ==
    /\ Priced(movements) /\ item.average \in Int
    /\ Averages(movements, item.average)

\* One movement, and the average follows it.
LEMMA MovedValues ==
    ASSUME TableOK, Running(movements), Values,
           NEW doc, NEW loc, NEW qty \in Int, NEW cost \in Prices,
           movements' = Moved(movements, movements, doc, loc, qty, cost),
           item'.average = Follow(movements, item.average, qty, cost)
    PROVE  Values'
<1>1. IsTable(movements)
  BY DEF TableOK, RowsOK
<1>2. Priced(movements) /\ item.average \in Int /\ Averages(movements, item.average)
  BY DEF Values
<1>3. PICK ns : ns = movements'
  OBVIOUS
<1>4. PICK b : b = item'.average
  OBVIOUS
<1>5. ns = Moved(movements, movements, doc, loc, qty, cost)
  BY <1>3
<1>6. b = Follow(movements, item.average, qty, cost)
  BY <1>4
<1>7. b \in Int /\ Priced(ns) /\ Averages(ns, b)
  BY <1>1, <1>2, <1>5, <1>6, MovedAverages
<1> QED
  BY <1>3, <1>4, <1>7 DEF Values

LEMMA UnmovedValues ==
    ASSUME Values, UNCHANGED <<movements, item>>
    PROVE  Values'
BY DEF Values

\* Goods that leave.
LEMMA LessValues ==
    ASSUME TableOK, Running(movements), Values,
           NEW doc, NEW loc, NEW qty \in Int, qty <= 0, NEW cost \in Prices,
           movements' = Moved(movements, movements, doc, loc, qty, cost),
           item'.average = item.average
    PROVE  Values'
<1>1. item'.average = Follow(movements, item.average, qty, cost)
  BY DEF Follow
<1> QED
  BY <1>1, MovedValues

LEMMA SomeQuantity ==
    ASSUME NEW row \in DocRow
    PROVE  /\ row.form.qty \in Int /\ row.form.qty > 0
           /\ 0 - row.form.qty \in Int /\ 0 - row.form.qty <= 0
<1>1. row.form.qty \in Quantities
  BY RowShape, FormShape
<1>2. \A n \in Quantities : n \in Int /\ n > 0
  BY StockAssumption
<1>3. \A n \in Int : n > 0 => 0 - n \in Int /\ 0 - n <= 0
  OBVIOUS
<1> QED
  BY <1>1, <1>2, <1>3

LEMMA SomeCost ==
    ASSUME NEW row \in DocRow
    PROVE  row.form.cost \in Prices
<1>1. row.form.cost \in Costs \cup {NoCost}
  BY RowShape DEF Form
<1>2. \A n \in Costs : n \in Int
  BY StockAssumption
<1> QED
  BY <1>1, <1>2 DEF Prices

LEMMA PurchasePostValues ==
    ASSUME TableOK, Running(movements), ReadsHold, PricesOK, Values,
           NEW p \in Procs, PurchasePost(p)
    PROVE  Values'
<1>1. PICK d : d = reqs[p].id
  OBVIOUS
<1>2. PICK form : form = reqs[p].row.form
  OBVIOUS
<1>3. seen[p].table = movements /\ seen[p].average = item.average
  BY ReadHolds DEF PurchasePost
<1>4. Posted(p, d) /\ d \in Purchases
      /\ movements' = Moved(movements, movements, d, form.loc, form.qty, form.cost)
  BY <1>1, <1>2, <1>3, PurchasePosted DEF TableOK
<1>5. reqs[p] # Idle /\ reqs[p].row \in DocRow
  BY <1>4, InProgress DEF Posted, TableOK
<1>6. form.qty \in Int /\ form.qty > 0 /\ form.cost \in Prices
  BY <1>2, <1>5, SomeQuantity, SomeCost
<1>7. form.cost # NoCost
  BY <1>1, <1>2, <1>4, <1>5 DEF PricesOK, RequestsPriced, RequestPriced
<1>8. item'.average = Averaged(item.average, OnHand(movements), form.qty, form.cost)
  <2>1. item = [average |-> item.average, loc |-> item.loc, qty |-> item.qty,
                cost |-> item.cost]
    BY DEF TableOK, RowsOK
  <2>2. item' = [item EXCEPT !.average =
                   Averaged(item.average, OnHand(movements), form.qty, form.cost)]
    BY <1>2, <1>3 DEF PurchasePost
  <2> QED
    BY <2>1, <2>2
<1>9. item'.average = Follow(movements, item.average, form.qty, form.cost)
  BY <1>6, <1>7, <1>8 DEF Follow
<1>10. PICK loc, qty, cost : loc = form.loc /\ qty = form.qty /\ cost = form.cost
  OBVIOUS
<1> QED
  BY <1>4, <1>6, <1>9, <1>10, MovedValues

LEMMA SalesReturnPostValues ==
    ASSUME TableOK, Running(movements), ReadsHold, Values,
           NEW p \in Procs, SalesReturnPost(p)
    PROVE  Values'
<1>1. PICK d : d = reqs[p].id
  OBVIOUS
<1>2. PICK form : form = reqs[p].row.form
  OBVIOUS
<1>3. seen[p].table = movements /\ seen[p].average = item.average
  BY ReadHolds DEF SalesReturnPost
<1>4. Posted(p, d) /\ movements' = Moved(movements, movements, d, form.loc, form.qty,
                                         item.average)
  BY <1>1, <1>2, <1>3, SalesReturnPosted DEF TableOK
<1>5. reqs[p] # Idle /\ reqs[p].row \in DocRow
  BY <1>4, InProgress DEF Posted, TableOK
<1>6. form.qty \in Int /\ form.qty > 0
  BY <1>2, <1>5, SomeQuantity
<1>7. item.average \in Prices /\ item.average # NoCost
  BY StockAssumption DEF Values, Prices
<1>8. item'.average = Averaged(item.average, OnHand(movements), form.qty, item.average)
  <2>1. item = [average |-> item.average, loc |-> item.loc, qty |-> item.qty,
                cost |-> item.cost]
    BY DEF TableOK, RowsOK
  <2>2. item' = [item EXCEPT !.average =
                   Averaged(item.average, OnHand(movements), form.qty, item.average)]
    BY <1>2, <1>3 DEF SalesReturnPost
  <2> QED
    BY <2>1, <2>2
<1>9. PICK loc, qty, cost : loc = form.loc /\ qty = form.qty /\ cost = item.average
  OBVIOUS
<1>10. item'.average = Follow(movements, item.average, qty, cost)
  BY <1>6, <1>7, <1>8, <1>9 DEF Follow
<1> QED
  BY <1>4, <1>6, <1>7, <1>9, <1>10, MovedValues

LEMMA PurchaseReturnPostValues ==
    ASSUME TableOK, Running(movements), ReadsHold, Values,
           NEW p \in Procs, PurchaseReturnPost(p)
    PROVE  Values'
<1>1. PICK d : d = reqs[p].id
  OBVIOUS
<1>2. PICK form : form = reqs[p].row.form
  OBVIOUS
<1>3. seen[p].table = movements
  BY ReadHolds DEF PurchaseReturnPost
<1>4. Posted(p, d)
      /\ movements' = Moved(movements, movements, d, form.loc, 0 - form.qty, form.cost)
  BY <1>1, <1>2, <1>3, PurchaseReturnPosted DEF TableOK
<1>5. reqs[p] # Idle /\ reqs[p].row \in DocRow
  BY <1>4, InProgress DEF Posted, TableOK
<1>6. PICK loc, qty, cost : loc = form.loc /\ qty = 0 - form.qty /\ cost = form.cost
  OBVIOUS
<1>7. qty \in Int /\ qty <= 0 /\ cost \in Prices
  BY <1>2, <1>5, <1>6, SomeQuantity, SomeCost
<1>8. item'.average = item.average
  BY DEF PurchaseReturnPost
<1> QED
  BY <1>4, <1>6, <1>7, <1>8, LessValues

LEMMA TransferPostValues ==
    ASSUME TableOK, Running(movements), ReadsHold, Values,
           NEW p \in Procs, TransferPost(p)
    PROVE  Values'
<1>1. PICK d : d = reqs[p].id
  OBVIOUS
<1>2. PICK form : form = reqs[p].row.form
  OBVIOUS
<1>3. PICK qty, less : qty = form.qty /\ less = 0 - form.qty
  OBVIOUS
<1>4. PICK from, to : from = form.loc /\ to = form.to
  OBVIOUS
<1>5. seen[p].table = movements
  BY ReadHolds DEF TransferPost
<1>6. PICK out : out = Moved(movements, movements, d, from, less, NoCost)
  OBVIOUS
<1>7. PICK both : both = Moved(out, out, d, to, qty, NoCost)
  OBVIOUS
<1>8. Posted(p, d) /\ movements' = both
  <2>1. out = Moved(movements, movements, d, form.loc, 0 - form.qty, NoCost)
    BY <1>3, <1>4, <1>6
  <2>2. Posted(p, d) /\ movements' = Moved(out, out, d, form.to, form.qty, NoCost)
    BY <1>1, <1>2, <1>5, <2>1, TransferPosted DEF TableOK
  <2> QED
    BY <1>3, <1>4, <1>7, <2>2
<1>9. reqs[p] # Idle /\ reqs[p].row \in DocRow
  BY <1>8, InProgress DEF Posted, TableOK
<1>10. qty \in Int /\ less \in Int /\ NoCost \in Prices
  BY <1>2, <1>3, <1>9, SomeQuantity DEF Prices
<1>11. PICK a \in Int : a = item.average
  BY DEF Values
<1>12. IsTable(movements) /\ Priced(movements) /\ Averages(movements, a)
  BY <1>11 DEF TableOK, RowsOK, Values
<1>13. Priced(out) /\ Averages(out, a)
  <2>1. a = Follow(movements, a, less, NoCost)
    BY DEF Follow
  <2> QED
    BY <1>6, <1>10, <1>12, <2>1, MovedAverages
<1>14. IsTable(out) /\ Running(out)
  BY <1>6, <1>10, <1>12, MovedEffects
<1>15. Priced(both) /\ Averages(both, a)
  <2>1. a = Follow(out, a, qty, NoCost)
    BY DEF Follow
  <2> QED
    BY <1>7, <1>10, <1>13, <1>14, <2>1, MovedAverages
<1>16. item'.average = a
  BY <1>11 DEF TransferPost
<1> QED
  BY <1>8, <1>15, <1>16 DEF Values

\* Undoing a purchase, or nothing.
LEMMA ReversedValues ==
    ASSUME TableOK, Running(movements), Values, NEW read, NEW d, NEW row \in DocRow,
           row.status = "posted" => d \in Purchases /\ read = movements,
           movements' = Reversed(read, d, row), item' = item
    PROVE  Values'
<1>1. CASE row.status # "posted"
  BY <1>1, UnmovedValues DEF Reversed
<1>2. CASE row.status = "posted"
  <2>1. movements' = Moved(movements, movements, d, row.form.loc, 0 - row.form.qty,
                           row.form.cost)
    BY <1>2 DEF Reversed, PurchaseReversed
  <2>2. PICK loc, qty, cost :
            loc = row.form.loc /\ qty = 0 - row.form.qty /\ cost = row.form.cost
    OBVIOUS
  <2>3. qty \in Int /\ qty <= 0 /\ cost \in Prices
    BY <2>2, SomeQuantity, SomeCost
  <2> QED
    BY <2>1, <2>2, <2>3, LessValues
<1> QED
  BY <1>1, <1>2

LEMMA CorrectionValues ==
    ASSUME TableOK, Running(movements), ReadsHold, PricesOK, Values,
           NEW p \in Procs, EditCommit(p) \/ RemoveCommit(p)
    PROVE  Values'
<1>1. PICK d : d = reqs[p].id
  OBVIOUS
<1>2. PICK row : row = reqs[p].row
  OBVIOUS
<1>3. PICK read : read = seen[p].table
  OBVIOUS
<1>4. /\ movements' = Reversed(read, d, row) /\ item' = item
      /\ row.status = "posted" => HasRead(p)
  BY <1>1, <1>2, <1>3 DEF EditCommit, RemoveCommit
<1>5. reqs[p] # Idle /\ row \in DocRow /\ reqs[p].op \in {"edit", "remove"}
  <2>1. RowsOK
    BY DEF TableOK
  <2>2. Committing(p, reqs[p].op) /\ reqs[p].op \in {"edit", "remove"}
    BY DEF EditCommit, RemoveCommit, Committing
  <2> QED
    BY <1>2, <2>1, <2>2, AtWork, RequestedQty
<1>6. row.status = "posted" => d \in Purchases
  BY <1>1, <1>2, <1>5 DEF PricesOK, RequestsPriced, RequestPriced
<1>7. row.status = "posted" => read = movements
  BY <1>3, <1>4, ReadHolds
<1> QED
  BY <1>4, <1>5, <1>6, <1>7, ReversedValues

LEMMA SaleValues ==
    ASSUME TableOK, Running(movements), ReadsHold, Values,
           NEW s \in Sales, Sell(s[1], s[2])
    PROVE  Values'
<1>1. PICK loc, qty : loc = s[1] /\ qty = 0 - s[2]
  OBVIOUS
<1>2. seen[Invoice].table = movements
  BY ReadHolds DEF Sell
<1>3. qty \in Int /\ movements' = Moved(movements, movements, Invoice, loc, qty, NoCost)
  BY <1>1, <1>2, Sold DEF TableOK
<1>4. NoCost \in Prices
  BY DEF Prices
<1>5. item' = item
  BY DEF Sell
<1>6. item'.average = Follow(movements, item.average, qty, NoCost)
  BY <1>5 DEF Follow
<1> QED
  BY <1>3, <1>4, <1>6, MovedValues

\* The average after the opening is that of the table before its balances are derived.
LEMMA OpeningValues ==
    ASSUME TableOK, Values, NEW o \in Openings, NEW at, SetOpening(o[1], o[2], o[3], at)
    PROVE  Values'
<1>1. PICK loc : loc = o[1]
  OBVIOUS
<1>2. PICK qty : qty = o[2]
  OBVIOUS
<1>3. PICK cost : cost = o[3]
  OBVIOUS
<1>4. qty \in Int /\ cost \in Prices
  <2>1. o[2] \in Quantities \cup {0} /\ o[3] \in Costs \cup {NoCost}
    BY StockAssumption
  <2>2. Quantities \subseteq Nat /\ Costs \subseteq Nat
    BY StockAssumption
  <2>3. (\A n \in Quantities \cup {0} : n \in Int) /\ (\A n \in Costs \cup {NoCost} : n \in Prices)
    BY <2>2 DEF Prices
  <2> QED
    BY <1>2, <1>3, <2>1, <2>3, Zenon
<1>5. at \in Places(movements)
  BY DEF SetOpening, Rest, Places
<1>6. IsTable(movements) /\ OnlyOne(movements) /\ Priced(movements)
  BY DEF TableOK, RowsOK, OpeningHeld, Values
<1>7. PICK now, locs :
         /\ movements' = Rebalanced(now, locs) /\ item'.average = Recomputed(now)
         /\ now = Put(movements, loc, qty, cost, at) \/ now = Rest(movements)
  <2>1. CASE qty = 0 /\ (cost = NoCost \/ ~Opened(movements))
    <3>1. /\ movements' = Rebalanced(Rest(movements), Left(movements) \cup {})
          /\ item'.average = Recomputed(Rest(movements))
      BY <1>1, <1>2, <1>3, <2>1 DEF SetOpening, Rest, Left
    <3> QED
      BY <3>1
  <2>2. CASE ~(qty = 0 /\ (cost = NoCost \/ ~Opened(movements)))
    <3>1. /\ movements' = Rebalanced(Put(movements, loc, qty, cost, at),
                                     Left(movements) \cup {loc})
          /\ item'.average = Recomputed(Put(movements, loc, qty, cost, at))
      BY <1>1, <1>2, <1>3, <2>2 DEF SetOpening, Put, Rest, Left
    <3> QED
      BY <3>1
  <2> QED
    BY <2>1, <2>2
<1>8. IsTable(now) /\ Priced(now)
  BY <1>4, <1>5, <1>6, <1>7, PutPriced, RestPriced
<1>9. PICK ns : ns = movements'
  OBVIOUS
<1>10. PICK a : a = item'.average
  OBVIOUS
<1>11. /\ IsTable(ns) /\ DOMAIN ns = DOMAIN now
       /\ \A i \in DOMAIN now : now[i].qty = ns[i].qty /\ now[i].cost = ns[i].cost
  BY <1>7, <1>8, <1>9, RebalancedEffects
<1>12. a \in Int /\ Priced(ns) /\ Averages(ns, a)
  BY <1>7, <1>8, <1>10, <1>11, RecomputedAverages
<1> QED
  BY <1>9, <1>10, <1>12 DEF Values

LEMMA ValuesStay ==
    ASSUME TableOK, Running(movements), ReadsHold, PricesOK, Values, [Next]_vars
    PROVE  Values'
<1>1. RowsOK
  BY DEF TableOK
<1>2. ASSUME NEW p \in Procs, Posting(p) PROVE Values'
  BY <1>2, PurchasePostValues, PurchaseReturnPostValues, SalesReturnPostValues,
     TransferPostValues DEF Posting
<1>3. ASSUME UNCHANGED <<movements, item>> PROVE Values'
  BY <1>3, UnmovedValues
<1>4. UNCHANGED vars => UNCHANGED <<movements, item>>
  BY DEF vars
<1>5. \A q \in Forms : Create(q[1], q[2]) => UNCHANGED <<movements, item>>
  BY DEF Create
<1>6. ASSUME NEW p \in Procs, NEW op, NEW d, NEW form, Started(p, op, d, form)
      PROVE  UNCHANGED <<movements, item>>
  BY <1>6 DEF Started, Read, rows
<1>7. ASSUME NEW p \in Procs, NEW op, NEW status, StatusCommit(p, op, status)
      PROVE  UNCHANGED <<movements, item>>
  BY <1>7 DEF StatusCommit
<1>8. ASSUME NEW p \in Procs, Repost(p) \/ Fail(p) PROVE UNCHANGED <<movements, item>>
  BY <1>8 DEF Repost, Fail, rows
<1>9. Quiet => UNCHANGED <<movements, item>>
  BY DEF Quiet
<1> QED
  BY <1>1, <1>2, <1>3, <1>4, <1>5, <1>6, <1>7, <1>8, <1>9, Steps, CorrectionValues, SaleValues,
     OpeningValues

\* While nothing was ever short, the average kept step by step is the one that the whole
\* history gives, up to half an amount for each movement that brought goods and one for
\* the opening, when only purchases are undone after they were posted, and as long as
\* what a transaction read of the stock still holds when it writes.
THEOREM AverageFollows ==
    Undone \subseteq Purchases => (Spec /\ []ReadsHold => []AverageFollowsHistory)
<1> SUFFICES ASSUME Undone \subseteq Purchases
             PROVE  Spec /\ []ReadsHold => []AverageFollowsHistory
  OBVIOUS
<1> DEFINE Kept == TableOK /\ Running(movements) /\ PricesOK /\ Values
<1>1. Init => Kept
  <2> SUFFICES ASSUME Init PROVE Kept
    OBVIOUS
  <2>1. TableOK
    BY TableInit
  <2>2. PricesOK
    BY DEF Init, PricesOK, PurchasesPriced, RequestsPriced, Docs
  <2>3. movements = <<>> /\ item.average = 0
    BY DEF Init
  <2>4. IsTable(movements)
    BY <2>1 DEF TableOK, RowsOK
  <2>5. PICK ms : ms = movements
    OBVIOUS
  <2>6. DOMAIN ms = {} /\ IsTable(ms) /\ ms = <<>>
    BY <2>3, <2>4, <2>5
  <2>7. History(ms) = Start
    BY <2>6, HistoryEmpty
  <2>8. Brought(ms) = {}
    BY <2>6 DEF Brought
  <2>9. Cardinality(Brought(ms)) = 0
    BY <2>8, FS_EmptySet
  <2>10. Close(0, Start, 0)
    BY DEF Close, Start
  <2>11. Values
    BY <2>3, <2>5, <2>6, <2>7, <2>9, <2>10 DEF Values, Priced, Averages
  <2>12. Running(movements)
    BY <2>5, <2>6 DEF Running
  <2> QED
    BY <2>1, <2>2, <2>11, <2>12
<1>2. Kept /\ ReadsHold /\ [Next]_vars => Kept'
  BY TableStays, PricesStay, ValuesStay
<1>3. Kept => AverageFollowsHistory
  BY AveragesIs DEF Values
<1> HIDE DEF Kept
<1> QED
  BY <1>1, <1>2, <1>3, PTL DEF Spec
===============================================================================
