---------------------------- MODULE Delivery_proofs ----------------------------
(***************************************************************************)
(* Delivery, for every set of invoices and orders and all quantities: the  *)
(* stock misses what the documents in force took out of it, the delivered  *)
(* quantity of an invoice is what its orders dispatched, and none is       *)
(* dispatched beyond its quantity.                                         *)
(*                                                                         *)
(* The argument is one inductive invariant, IInv.  It says of the rows     *)
(* that an order refers to an invoice that exists and, where clients name  *)
(* it, to its present line (RowsOK); of the request in progress that what  *)
(* it read is still so (AllServed); that the stock balances with the sums  *)
(* of what each document took out (Balanced); and that each counter is the *)
(* sum of what the orders sent and within the quantity (AllSent).  The     *)
(* sums run over all the documents, with 0 for one that is not in force,   *)
(* so that a step changes one term of them.                                *)
(*                                                                         *)
(* The conditions are those without which the properties break, as         *)
(* Delivery and its README say: no invoice is edited that orders can be    *)
(* raised for, no request stops half-way, and no two requests at the same  *)
(* time concern the same invoice, itself or through one of its orders      *)
(* (FamiliesApart); requests for other documents overlap as they please.   *)
(***************************************************************************)
EXTENDS Delivery, Sums, TLAPS

\* No request stops after it has reversed an order, and no invoice is edited that
\* orders can be raised for.
Orderly ==
    /\ ~Interruptions
    /\ \A s \in Sales : <<"edit", s>> \in Asked => <<"order", s>> \notin Asked

\* The document and, if it is the order of one, its invoice.
Family(id) == {id} \cup (IF id \in Sales THEN {} ELSE {orders[id].sale} \cap Sales)

\* What a request concerns: its family, and the invoice that it points an order at.
Concerned(req) == Family(req.id) \cup (IF req.op = "change" THEN {req.new.sale} \cap Sales ELSE {})

\* No two requests in progress concern the same order or the same invoice.
FamiliesApart ==
    \A q1, q2 \in Procs : q1 # q2 /\ reqs[q1] # Idle /\ reqs[q2] # Idle
        => Concerned(reqs[q1]) \cap Concerned(reqs[q2]) = {}

\* Clients say which invoice line an order settles.
LinesNamed == NamesLine \subseteq {TRUE}

-------------------------------------------------------------------------------
(* The rows.                                                                *)

\* The row of invoice s: only a posted one has relieved anything, and only orders
\* deliver.
SaleOK(s, sale) ==
    /\ sale \in Sale
    /\ Exists(sale) => sale.qty > 0 /\ sale.line > 0
    /\ sale.status # "posted" => sale.relieved = 0
    /\ <<"order", s>> \notin Asked => sale.delivered = 0

\* An order refers to an invoice that exists, and to its line if clients name it.
OrderOK(order, table) ==
    /\ order \in Order
    /\ order.sale \in Sales => /\ <<"order", order.sale>> \in Asked
                               /\ Exists(table[order.sale])
                               /\ LinesNamed => order.line = table[order.sale].line
    /\ order.line # 0 => order.sale \in Sales

RowsOK ==
    /\ sales \in [Sales -> Sale]
    /\ orders \in [Orders -> Order]
    /\ stock \in Int
    /\ \A s \in Sales : SaleOK(s, sales[s])
    /\ \A o \in Orders : OrderOK(orders[o], sales)

-------------------------------------------------------------------------------
(* The request in progress finds what it has read.                          *)

SaleGuard(req) ==
    /\ req.op \in {"post", "cancel"} => Unposted(req.row)
    /\ req.op = "edit" => req.row.status \in {"draft", "posted"} /\ req.new.qty \in Quantities
    /\ req.op = "submit" => req.row.status = "draft"
    /\ req.op = "reject" => req.row.status = "pending"

OrderGuard(req) ==
    /\ req.op = "dispatch" =>
          /\ Unposted(req.row)
          /\ Exists(req.sale) => Shippable(req.sale, req.row.qty)
    /\ req.op = "change" =>
          /\ req.row.status = "draft" /\ req.new.qty \in Quantities
          /\ req.new.sale \in Sales \cup {NoSale}
          /\ req.new.sale \in Sales => /\ <<"order", req.new.sale>> \in Asked
                                      /\ req.sale.status # "absent"
          /\ req.new.line # 0 => Exists(req.sale) /\ req.new.line = req.sale.line
          /\ LinesNamed /\ Exists(req.sale) => req.new.line = req.sale.line
    /\ req.op = "submit order" => req.row.status = "draft"
    /\ req.op = "reject order" => req.row.status = "pending"

ServesSale(req) ==
    /\ req.op \in SaleOps /\ req.id \in Sales
    /\ req.stage \in {"checked", "tx"}
    /\ req.row = sales[req.id]
    /\ SaleGuard(req)

\* The invoice that a request about an order has read.
InvoiceOf(req) == IF req.op = "change" THEN SaleOf(req.new) ELSE SaleOf(req.row)

ServesOrder(req) ==
    /\ req.op \in OrderOps /\ req.id \in Orders
    /\ req.stage \in {"checked", "tx", "reversed"}
    /\ req.row = orders[req.id]
    /\ req.stage # "reversed" => req.sale = InvoiceOf(req) /\ OrderGuard(req)
    /\ req.stage = "reversed" => req.op \in {"recall", "discard"} /\ req.row.status = "posted"

Fields == {"stage", "op", "id", "row", "sale", "new", "seen"}

Serving(req) ==
    \/ req = Idle
    \/ /\ DOMAIN req = Fields
       /\ <<req.op, req.id>> \in Asked
       /\ Exists(req.row)
       /\ ServesSale(req) \/ ServesOrder(req)

AllServed ==
    /\ DOMAIN reqs = Procs
    /\ \A p \in Procs : Serving(reqs[p])

-------------------------------------------------------------------------------
(* What the documents in force took out and sent, one by one.               *)

\* The order is reversed, and about to be cancelled or deleted.
Undone(o) == \E p \in Procs : reqs[p].stage = "reversed" /\ reqs[p].id = o

\* What a posted invoice took out.
Out(sale) == IF sale.status = "posted" THEN sale.relieved ELSE 0

\* What an order took out, and what it sent on invoice s.
TakenIn(order, undone) ==
    IF order.status = "posted" /\ ~undone /\ order.relieves THEN order.qty ELSE 0
SentIn(order, undone, s) ==
    IF order.status = "posted" /\ ~undone /\ order.sale = s THEN order.qty ELSE 0

OutOfSales == SumFunctionOnSet([s \in Sales |-> Out(sales[s])], Sales)
OutOfOrders == SumFunctionOnSet([o \in Orders |-> TakenIn(orders[o], Undone(o))], Orders)
SentOn(s) == SumFunctionOnSet([o \in Orders |-> SentIn(orders[o], Undone(o), s)], Orders)

Balanced == stock = InitialStock - OutOfSales - OutOfOrders

AllSent ==
    \A s \in Sales : Exists(sales[s]) => /\ sales[s].delivered = SentOn(s)
                                         /\ sales[s].delivered <= sales[s].qty

IInv ==
    /\ RowsOK
    /\ AllServed
    /\ Balanced
    /\ LinesNamed => AllSent

-------------------------------------------------------------------------------
(* What the invariant says of the properties.                               *)

LEMMA SumOfFunction == \A f : SumFunction(f) = SumFunctionOnSet(f, DOMAIN f)
BY DEF SumFunction, SumFunctionOnSet, FoldFunction

\* The sum of some terms, and 0 for the others.
LEMMA SumOfSome ==
    ASSUME NEW S, IsFiniteSet(S), NEW T, T \subseteq S, NEW f, NEW g,
           \A x \in S : f[x] \in Int,
           \A x \in S \ T : f[x] = 0,
           DOMAIN g = T, \A x \in T : g[x] = f[x]
    PROVE  SumFunction(g) = SumFunctionOnSet(f, S)
<1>1. SumFunctionOnSet(f, S) = SumFunctionOnSet(f, T)
  BY SumSubset
<1>2. IsFiniteSet(T)
  BY FS_Subset
<1>3. SumFunctionOnSet(f, T) = SumFunctionOnSet(g, T)
  BY <1>2, SumEqual
<1> QED
  BY <1>1, <1>3, SumOfFunction

LEMMA Terms ==
    ASSUME RowsOK
    PROVE  /\ \A s \in Sales : Out(sales[s]) \in Nat
           /\ \A o \in Orders, undone \in BOOLEAN : TakenIn(orders[o], undone) \in Nat
           /\ \A o \in Orders, s \in Sales, undone \in BOOLEAN : SentIn(orders[o], undone, s) \in Nat
<1>1. \A s \in Sales : sales[s].relieved \in Nat
  BY DEF RowsOK, Sale
<1>2. \A o \in Orders : orders[o].qty \in Nat
  BY DEF RowsOK, Order
<1> QED
  BY <1>1, <1>2 DEF Out, TakenIn, SentIn

LEMMA TermsAfter ==
    ASSUME RowsOK'
    PROVE  /\ \A s \in Sales : Out(sales'[s]) \in Nat
           /\ \A o \in Orders, undone \in BOOLEAN : TakenIn(orders'[o], undone) \in Nat
           /\ \A o \in Orders, s \in Sales, undone \in BOOLEAN : SentIn(orders'[o], undone, s) \in Nat
<1>1. \A s \in Sales : sales'[s].relieved \in Nat
  BY DEF RowsOK, Sale
<1>2. \A o \in Orders : orders'[o].qty \in Nat
  BY DEF RowsOK, Order
<1> QED
  BY <1>1, <1>2 DEF Out, TakenIn, SentIn

LEMMA UndoneType == \A o : Undone(o) \in BOOLEAN /\ Undone(o)' \in BOOLEAN
BY DEF Undone

LEMMA InForceNotUndone == InForce = {o \in Orders : orders[o].status = "posted" /\ ~Undone(o)}
BY DEF InForce, Undone

LEMMA BalancedMeans ==
    ASSUME RowsOK, Balanced
    PROVE  StockAccounted
<1>1. IsFiniteSet(Sales) /\ IsFiniteSet(Orders)
  BY DeliveryAssumption DEF DeliveryAssumption
<1>2. SumFunction([s \in Posted |-> sales[s].relieved]) = OutOfSales
  <2> DEFINE f == [s \in Sales |-> Out(sales[s])]
             g == [s \in Posted |-> sales[s].relieved]
  <2>1. Posted \subseteq Sales /\ DOMAIN g = Posted
    BY DEF Posted
  <2>2. \A s \in Sales : f[s] \in Int
    BY Terms, UndoneType
  <2>3. \A s \in Sales \ Posted : f[s] = 0
    BY DEF Posted, Out
  <2>4. \A s \in Posted : g[s] = f[s]
    BY DEF Posted, Out
  <2> HIDE DEF f, g
  <2>5. SumFunction(g) = SumFunctionOnSet(f, Sales)
    BY <1>1, <2>1, <2>2, <2>3, <2>4, SumOfSome
  <2> QED
    BY <2>5 DEF f, g, OutOfSales
<1>3. TakenBy(InForce) = OutOfOrders
  <2> DEFINE R == {o \in InForce : orders[o].relieves}
             f == [o \in Orders |-> TakenIn(orders[o], Undone(o))]
             g == [o \in R |-> orders[o].qty]
  <2>1. R \subseteq Orders /\ DOMAIN g = R
    BY DEF InForce
  <2>2. \A o \in Orders : f[o] \in Int
    BY Terms, UndoneType
  <2>3. \A o \in Orders \ R : f[o] = 0
    BY InForceNotUndone DEF TakenIn
  <2>4. \A o \in R : g[o] = f[o]
    BY InForceNotUndone DEF TakenIn
  <2> HIDE DEF f, g
  <2>5. SumFunction(g) = SumFunctionOnSet(f, Orders)
    <3> HIDE DEF R
    <3> QED
      BY <1>1, <2>1, <2>2, <2>3, <2>4, SumOfSome
  <2> QED
    BY <2>5 DEF f, g, OutOfOrders, TakenBy, Shipped
<1> QED
  BY <1>2, <1>3 DEF Balanced, StockAccounted

LEMMA SentMeans ==
    ASSUME RowsOK, AllSent
    PROVE  DeliveredMatches /\ NeverOverDispatched
<1>1. IsFiniteSet(Orders)
  BY DeliveryAssumption DEF DeliveryAssumption
<1>2. ASSUME NEW s \in Sales
      PROVE  Shipped(OrdersOf(s)) = SentOn(s)
  <2> DEFINE R == OrdersOf(s)
             f == [o \in Orders |-> SentIn(orders[o], Undone(o), s)]
             g == [o \in R |-> orders[o].qty]
  <2>1. R \subseteq Orders /\ DOMAIN g = R
    BY DEF OrdersOf, InForce
  <2>2. \A o \in Orders : f[o] \in Int
    BY Terms, UndoneType
  <2>3. \A o \in Orders \ R : f[o] = 0
    BY InForceNotUndone DEF SentIn, OrdersOf
  <2>4. \A o \in R : g[o] = f[o]
    BY InForceNotUndone DEF SentIn, OrdersOf
  <2> HIDE DEF f, g
  <2>5. SumFunction(g) = SumFunctionOnSet(f, Orders)
    <3> HIDE DEF R
    <3> QED
      BY <1>1, <2>1, <2>2, <2>3, <2>4, SumOfSome
  <2> QED
    BY <2>5 DEF f, g, SentOn, Shipped
<1>3. DeliveredMatches
  BY <1>2 DEF AllSent, DeliveredMatches
<1>4. NeverOverDispatched
  BY <1>2 DEF AllSent, NeverOverDispatched
<1> QED
  BY <1>3, <1>4

-------------------------------------------------------------------------------
(* How a step moves the stock and the counters.                             *)

LEMMA NothingMoves ==
    ASSUME RowsOK, Balanced, stock' = stock,
           \A s \in Sales : Out(sales'[s]) = Out(sales[s]),
           \A o \in Orders : TakenIn(orders'[o], Undone(o)') = TakenIn(orders[o], Undone(o))
    PROVE  Balanced'
<1>1. OutOfSales' = OutOfSales
  <2>1. [s \in Sales |-> Out(sales'[s])] = [s \in Sales |-> Out(sales[s])]
    OBVIOUS
  <2> QED
    BY <2>1 DEF OutOfSales
<1>2. OutOfOrders' = OutOfOrders
  <2>1. [o \in Orders |-> TakenIn(orders'[o], Undone(o)')]
          = [o \in Orders |-> TakenIn(orders[o], Undone(o))]
    OBVIOUS
  <2> QED
    BY <2>1 DEF OutOfOrders
<1> QED
  BY <1>1, <1>2 DEF Balanced

\* The sums are integers.
LEMMA OutType ==
    ASSUME RowsOK
    PROVE  OutOfSales \in Int /\ OutOfOrders \in Int /\ \A s \in Sales : SentOn(s) \in Int
<1>1. IsFiniteSet(Sales) /\ IsFiniteSet(Orders)
  BY DeliveryAssumption DEF DeliveryAssumption
<1>2. OutOfSales \in Int
  <2> DEFINE f == [s \in Sales |-> Out(sales[s])]
  <2>1. \A s \in Sales : f[s] \in Int
    BY Terms, UndoneType
  <2> HIDE DEF f
  <2>2. SumFunctionOnSet(f, Sales) \in Int
    BY <1>1, <2>1, SumType
  <2> QED
    BY <2>2 DEF f, OutOfSales
<1>3. OutOfOrders \in Int
  <2> DEFINE f == [o \in Orders |-> TakenIn(orders[o], Undone(o))]
  <2>1. \A o \in Orders : f[o] \in Int
    BY Terms, UndoneType
  <2> HIDE DEF f
  <2>2. SumFunctionOnSet(f, Orders) \in Int
    BY <1>1, <2>1, SumType
  <2> QED
    BY <2>2 DEF f, OutOfOrders
<1>4. ASSUME NEW s \in Sales PROVE SentOn(s) \in Int
  <2> DEFINE f == [o \in Orders |-> SentIn(orders[o], Undone(o), s)]
  <2>1. \A o \in Orders : f[o] \in Int
    BY Terms, UndoneType
  <2> HIDE DEF f
  <2>2. SumFunctionOnSet(f, Orders) \in Int
    BY <1>1, <2>1, SumType
  <2> QED
    BY <2>2 DEF f, SentOn
<1> QED
  BY <1>2, <1>3, <1>4

LEMMA SaleTerm ==
    ASSUME RowsOK, RowsOK', NEW s \in Sales,
           \A x \in Sales : x # s => Out(sales'[x]) = Out(sales[x])
    PROVE  OutOfSales' = OutOfSales - Out(sales[s]) + Out(sales'[s])
<1>0. IsFiniteSet(Sales)
  BY DeliveryAssumption DEF DeliveryAssumption
<1>a. PICK f : f = [x \in Sales |-> Out(sales[x])]
  OBVIOUS
<1>b. PICK g : g = [x \in Sales |-> Out(sales'[x])]
  OBVIOUS
<1>1. \A x \in Sales : f[x] \in Int /\ g[x] \in Int
  BY <1>a, <1>b, Terms, TermsAfter, UndoneType
<1>2. \A x \in Sales : x # s => f[x] = g[x]
  BY <1>a, <1>b
<1>3. f[s] = Out(sales[s]) /\ g[s] = Out(sales'[s])
  BY <1>a, <1>b
<1>4. SumFunctionOnSet(g, Sales) = SumFunctionOnSet(f, Sales) - f[s] + g[s]
  BY <1>0, <1>1, <1>2, SumChange
<1> QED
  BY <1>a, <1>b, <1>3, <1>4 DEF OutOfSales

LEMMA SaleMoves ==
    ASSUME RowsOK, RowsOK', Balanced, NEW s \in Sales,
           \A x \in Sales : x # s => Out(sales'[x]) = Out(sales[x]),
           \A o \in Orders : TakenIn(orders'[o], Undone(o)') = TakenIn(orders[o], Undone(o)),
           stock' = stock + Out(sales[s]) - Out(sales'[s])
    PROVE  Balanced'
<1>2. OutOfSales' = OutOfSales - Out(sales[s]) + Out(sales'[s])
  BY SaleTerm
<1>3. OutOfOrders' = OutOfOrders
  <2>1. [o \in Orders |-> TakenIn(orders'[o], Undone(o)')]
          = [o \in Orders |-> TakenIn(orders[o], Undone(o))]
    OBVIOUS
  <2> QED
    BY <2>1 DEF OutOfOrders
<1>4. /\ Out(sales[s]) \in Int /\ Out(sales'[s]) \in Int /\ InitialStock \in Int
      /\ OutOfSales \in Int /\ OutOfOrders \in Int
  BY Terms, TermsAfter, UndoneType, OutType, DeliveryAssumption DEF DeliveryAssumption
<1> QED
  BY <1>2, <1>3, <1>4 DEF Balanced

LEMMA OrderTerm ==
    ASSUME RowsOK, RowsOK', NEW o \in Orders,
           \A x \in Orders : x # o =>
              TakenIn(orders'[x], Undone(x)') = TakenIn(orders[x], Undone(x))
    PROVE  OutOfOrders' = OutOfOrders - TakenIn(orders[o], Undone(o))
                                         + TakenIn(orders'[o], Undone(o)')
<1>0. IsFiniteSet(Orders)
  BY DeliveryAssumption DEF DeliveryAssumption
<1>a. PICK f : f = [x \in Orders |-> TakenIn(orders[x], Undone(x))]
  OBVIOUS
<1>b. PICK g : g = [x \in Orders |-> TakenIn(orders'[x], Undone(x)')]
  OBVIOUS
<1>1. \A x \in Orders : f[x] \in Int /\ g[x] \in Int
  BY <1>a, <1>b, Terms, TermsAfter, UndoneType
<1>2. \A x \in Orders : x # o => f[x] = g[x]
  BY <1>a, <1>b
<1>3. /\ f[o] = TakenIn(orders[o], Undone(o))
      /\ g[o] = TakenIn(orders'[o], Undone(o)')
  BY <1>a, <1>b
<1>4. SumFunctionOnSet(g, Orders) = SumFunctionOnSet(f, Orders) - f[o] + g[o]
  BY <1>0, <1>1, <1>2, SumChange
<1> QED
  BY <1>a, <1>b, <1>3, <1>4 DEF OutOfOrders

LEMMA OrderMoves ==
    ASSUME RowsOK, RowsOK', Balanced, NEW o \in Orders,
           \A s \in Sales : Out(sales'[s]) = Out(sales[s]),
           \A x \in Orders : x # o =>
              TakenIn(orders'[x], Undone(x)') = TakenIn(orders[x], Undone(x)),
           stock' = stock + TakenIn(orders[o], Undone(o)) - TakenIn(orders'[o], Undone(o)')
    PROVE  Balanced'
<1>2. OutOfOrders' = OutOfOrders - TakenIn(orders[o], Undone(o))
                                    + TakenIn(orders'[o], Undone(o)')
  BY OrderTerm
<1>3. OutOfSales' = OutOfSales
  <2>1. [s \in Sales |-> Out(sales'[s])] = [s \in Sales |-> Out(sales[s])]
    OBVIOUS
  <2> QED
    BY <2>1 DEF OutOfSales
<1>4. /\ TakenIn(orders[o], Undone(o)) \in Int /\ TakenIn(orders'[o], Undone(o)') \in Int
      /\ InitialStock \in Int /\ OutOfSales \in Int /\ OutOfOrders \in Int
  BY Terms, TermsAfter, UndoneType, OutType, DeliveryAssumption DEF DeliveryAssumption
<1> QED
  BY <1>2, <1>3, <1>4 DEF Balanced

\* No order of invoice s moves.
LEMMA SentSame ==
    ASSUME NEW s \in Sales,
           \A o \in Orders : SentIn(orders'[o], Undone(o)', s) = SentIn(orders[o], Undone(o), s)
    PROVE  SentOn(s)' = SentOn(s)
<1>1. [o \in Orders |-> SentIn(orders'[o], Undone(o)', s)]
        = [o \in Orders |-> SentIn(orders[o], Undone(o), s)]
  OBVIOUS
<1> QED
  BY <1>1 DEF SentOn

\* One does.
LEMMA SentMoves ==
    ASSUME RowsOK, RowsOK', NEW s \in Sales, NEW o \in Orders,
           \A x \in Orders : x # o =>
              SentIn(orders'[x], Undone(x)', s) = SentIn(orders[x], Undone(x), s)
    PROVE  SentOn(s)' = SentOn(s) - SentIn(orders[o], Undone(o), s)
                                  + SentIn(orders'[o], Undone(o)', s)
<1>1. IsFiniteSet(Orders)
  BY DeliveryAssumption DEF DeliveryAssumption
<1> DEFINE f == [x \in Orders |-> SentIn(orders[x], Undone(x), s)]
           g == [x \in Orders |-> SentIn(orders'[x], Undone(x)', s)]
<1>2. \A x \in Orders : f[x] \in Int /\ g[x] \in Int
  BY Terms, TermsAfter, UndoneType
<1>3. \A x \in Orders : x # o => f[x] = g[x]
  OBVIOUS
<1>4. /\ f[o] = SentIn(orders[o], Undone(o), s)
      /\ g[o] = SentIn(orders'[o], Undone(o)', s)
  OBVIOUS
<1> HIDE DEF f, g
<1>5. SumFunctionOnSet(g, Orders) = SumFunctionOnSet(f, Orders) - f[o] + g[o]
  BY <1>1, <1>2, <1>3, SumChange
<1> QED
  BY <1>4, <1>5 DEF f, g, SentOn

\* No counter changes, and no order of an invoice moves.
LEMMA CountersKept ==
    ASSUME LinesNamed => AllSent,
           \A s \in Sales : Exists(sales'[s]) =>
              /\ Exists(sales[s])
              /\ sales'[s].delivered = sales[s].delivered
              /\ sales'[s].delivered <= sales'[s].qty \/ sales'[s].qty = sales[s].qty
              /\ \A o \in Orders :
                    SentIn(orders'[o], Undone(o)', s) = SentIn(orders[o], Undone(o), s)
    PROVE  (LinesNamed => AllSent)'
<1> SUFFICES ASSUME LinesNamed, AllSent, NEW s \in Sales, Exists(sales'[s])
             PROVE  /\ sales'[s].delivered = SentOn(s)'
                    /\ sales'[s].delivered <= sales'[s].qty
  BY DEF AllSent, LinesNamed
<1>1. SentOn(s)' = SentOn(s)
  BY SentSame
<1> QED
  BY <1>1 DEF AllSent

-------------------------------------------------------------------------------
(* The request in progress.                                                 *)

\* A step of p that changes only documents of the family of id.
Leaves(id) ==
    /\ \A s \in Sales : s \notin Family(id) => sales'[s] = sales[s]
    /\ \A o \in Orders : Family(o) \cap Family(id) = {} => orders'[o] = orders[o]

Others(p) == \A q \in Procs : q # p => reqs'[q] = reqs[q]

\* What is reversed by another request than that of p stays so.
LEMMA UndoneElse ==
    ASSUME NEW p \in Procs, Others(p), NEW o,
           ~(reqs[p].stage = "reversed" /\ reqs[p].id = o),
           ~(reqs'[p].stage = "reversed" /\ reqs'[p].id = o)
    PROVE  Undone(o)' = Undone(o)
<1>1. Undone(o) <=> \E q \in Procs : q # p /\ reqs[q].stage = "reversed" /\ reqs[q].id = o
  BY DEF Undone
<1>2. Undone(o)' <=> \E q \in Procs : q # p /\ reqs'[q].stage = "reversed" /\ reqs'[q].id = o
  BY DEF Undone
<1>3. Undone(o)' <=> Undone(o)
  BY <1>1, <1>2 DEF Others
<1> QED
  BY <1>3, UndoneType

\* The document of p is reversed by p, if at all.
LEMMA UndoneBy ==
    ASSUME FamiliesApart, NEW p \in Procs, reqs[p] # Idle
    PROVE  /\ Undone(reqs[p].id) <=> reqs[p].stage = "reversed"
           /\ \A q \in Procs : q # p /\ reqs[q] # Idle => reqs[q].id # reqs[p].id
<1>1. ASSUME NEW q \in Procs, q # p, reqs[q] # Idle
      PROVE  reqs[q].id # reqs[p].id
  <2>1. Family(reqs[q].id) \cap Family(reqs[p].id) = {}
    BY <1>1 DEF FamiliesApart, Concerned
  <2>2. \A id : id \in Family(id)
    BY DEF Family
  <2> QED
    BY <2>1, <2>2
<1>2. ASSUME NEW q \in Procs, reqs[q].stage = "reversed", reqs[q].id = reqs[p].id
      PROVE  q = p
  <2>1. reqs[q] # Idle
    BY <1>2 DEF Idle
  <2> QED
    BY <1>1, <1>2, <2>1
<1> QED
  BY <1>1, <1>2 DEF Undone

\* The request of another process finds what it has read, whatever p does to the
\* documents of its own family.
LEMMA OtherServed ==
    ASSUME AllServed, NEW p \in Procs, NEW q \in Procs, q # p, Others(p),
           \/ sales' = sales /\ orders' = orders
           \/ FamiliesApart /\ reqs[p] # Idle /\ Leaves(reqs[p].id)
    PROVE  Serving(reqs[q])'
<1>1. PICK req : req = reqs[q]
  OBVIOUS
<1>2. reqs'[q] = req /\ Serving(req)
  BY <1>1 DEF AllServed, Others
<1>3. CASE req = Idle
  BY <1>2, <1>3 DEF Serving
<1>4. ASSUME req # Idle, ServesSale(req)
      PROVE  ServesSale(req)'
  <2>1. req.id \in Sales
    BY <1>4 DEF ServesSale
  <2>2. sales'[req.id] = sales[req.id]
    <3>1. CASE FamiliesApart /\ reqs[p] # Idle /\ Leaves(reqs[p].id)
      <4>1. Family(req.id) \cap Family(reqs[p].id) = {}
        BY <1>1, <1>4, <3>1 DEF FamiliesApart, Concerned
      <4>2. req.id \in Family(req.id)
        BY DEF Family
      <4> QED
        BY <2>1, <3>1, <4>1, <4>2 DEF Leaves
    <3> QED
      BY <3>1
  <2> QED
    BY <1>4, <2>2 DEF ServesSale, SaleGuard, Unposted
<1>5. ASSUME req # Idle, ServesOrder(req)
      PROVE  ServesOrder(req)'
  <2>1. req.id \in Orders /\ req.row = orders[req.id]
    BY <1>5 DEF ServesOrder
  <2>2. orders'[req.id] = orders[req.id] /\ InvoiceOf(req)' = InvoiceOf(req)
    <3>1. CASE FamiliesApart /\ reqs[p] # Idle /\ Leaves(reqs[p].id)
      <4>1. Concerned(req) \cap Family(reqs[p].id) = {}
        BY <1>1, <1>5, <3>1 DEF FamiliesApart, Concerned
      <4>2. /\ req.row.sale \in Sales => req.row.sale \in Concerned(req)
            /\ req.op = "change" /\ req.new.sale \in Sales => req.new.sale \in Concerned(req)
        <5>1. req.id \notin Sales
          BY <2>1, DeliveryAssumption DEF DeliveryAssumption
        <5> QED
          BY <2>1, <5>1 DEF Family, Concerned
      <4>3. \A s \in Sales : s \in Concerned(req) => sales'[s] = sales[s]
        BY <3>1, <4>1 DEF Leaves
      <4>4. orders'[req.id] = orders[req.id]
        BY <2>1, <3>1, <4>1 DEF Leaves, Concerned
      <4> QED
        BY <4>2, <4>3, <4>4 DEF SaleOf, InvoiceOf
    <3>2. CASE sales' = sales /\ orders' = orders
      BY <3>2 DEF SaleOf, InvoiceOf
    <3> QED
      BY <3>1, <3>2
  <2> QED
    BY <1>5, <2>2 DEF ServesOrder, OrderGuard, Unposted, Shippable, Remaining, Exists
<1> QED
  BY <1>2, <1>3, <1>4, <1>5 DEF Serving, Exists

LEMMA ServedAfter ==
    ASSUME AllServed, NEW p \in Procs, DOMAIN reqs' = Procs, Serving(reqs[p])', Others(p),
           \/ sales' = sales /\ orders' = orders
           \/ FamiliesApart /\ reqs[p] # Idle /\ Leaves(reqs[p].id)
    PROVE  AllServed'
<1>1. ASSUME NEW q \in Procs PROVE Serving(reqs[q])'
  <2>1. CASE q = p
    BY <2>1
  <2>2. CASE q # p
    BY <2>2, OtherServed
  <2> QED
    BY <2>1, <2>2
<1> QED
  BY <1>1 DEF AllServed

\* A request that returns undoes nothing any more, and leaves the others alone.
LEMMA FinishServed ==
    ASSUME FamiliesApart, AllServed, NEW p \in Procs, reqs[p] # Idle, Finish(p),
           Leaves(reqs[p].id)
    PROVE  /\ AllServed'
           /\ \A o : IF o = reqs[p].id THEN ~Undone(o)' ELSE Undone(o)' = Undone(o)
<1>1. DOMAIN reqs' = Procs /\ reqs'[p] = Idle /\ Others(p)
  BY DEF AllServed, Finish, Others
<1>2. Serving(reqs[p])'
  BY <1>1 DEF Serving
<1>3. AllServed'
  BY <1>1, <1>2, ServedAfter
<1>4. reqs'[p].stage # "reversed"
  BY <1>1 DEF Idle
<1>5. PICK id : id = reqs[p].id
  OBVIOUS
<1>6. ASSUME NEW q \in Procs, reqs'[q].stage = "reversed", reqs'[q].id = id
      PROVE  FALSE
  <2>1. q # p /\ reqs'[q] = reqs[q]
    BY <1>1, <1>4, <1>6 DEF Others
  <2>2. reqs[q] # Idle
    BY <1>6, <2>1 DEF Idle
  <2> QED
    BY <1>5, <1>6, <2>1, <2>2, UndoneBy
<1>7. ~(\E q \in Procs : reqs'[q].stage = "reversed" /\ reqs'[q].id = id)
  BY <1>6
<1>8. ~Undone(id)'
  BY <1>7 DEF Undone
<1>9. \A o : o # reqs[p].id => Undone(o)' = Undone(o)
  BY <1>1, <1>4, UndoneElse
<1> QED
  BY <1>3, <1>5, <1>8, <1>9

\* ... and reverses nothing, if it has not.
LEMMA UndoneSame ==
    ASSUME NEW p \in Procs, AllServed, Finish(p), reqs[p].stage # "reversed"
    PROVE  \A o : Undone(o)' = Undone(o)
<1>1. reqs'[p] = Idle /\ Others(p)
  BY DEF AllServed, Finish, Others
<1>2. reqs'[p].stage # "reversed"
  BY <1>1 DEF Idle
<1> QED
  BY <1>1, <1>2, UndoneElse

\* A step that changes no row, and reverses nothing.
LEMMA RowsKept ==
    ASSUME RowsOK, Balanced, LinesNamed => AllSent,
           sales' = sales, orders' = orders, stock' = stock,
           \A o \in Orders : Undone(o)' = Undone(o)
    PROVE  RowsOK' /\ Balanced' /\ (LinesNamed => AllSent)'
<1>1. RowsOK'
  BY DEF RowsOK
<1>2. Balanced'
  <2>1. \A s \in Sales : Out(sales'[s]) = Out(sales[s])
    OBVIOUS
  <2>2. \A o \in Orders : TakenIn(orders'[o], Undone(o)') = TakenIn(orders[o], Undone(o))
    OBVIOUS
  <2> QED
    BY <2>1, <2>2, NothingMoves
<1>3. (LinesNamed => AllSent)'
  <2>1. \A s \in Sales, o \in Orders :
            SentIn(orders'[o], Undone(o)', s) = SentIn(orders[o], Undone(o), s)
    OBVIOUS
  <2> QED
    BY <2>1, CountersKept
<1> QED
  BY <1>1, <1>2, <1>3

\* The request that p starts.
Started(op, id, row, sale, new) ==
    [stage |-> "checked", op |-> op, id |-> id, row |-> row, sale |-> sale, new |-> new,
     seen |-> 0]

\* A request that starts has read its document, and passes the checks.
LEMMA ReadKeeps ==
    ASSUME IInv, NEW p \in Procs, NEW op, NEW id, NEW row, NEW sale, NEW new,
           Read(p, op, id, row, sale, new),
           LET req == Started(op, id, row, sale, new) IN ServesSale(req) \/ ServesOrder(req)
    PROVE  IInv'
<1> DEFINE req == Started(op, id, row, sale, new)
<1>0. RowsOK /\ AllServed /\ Balanced /\ (LinesNamed => AllSent)
  BY DEF IInv
<1>1. /\ sales' = sales /\ orders' = orders /\ stock' = stock
      /\ reqs[p] = Idle /\ <<op, id>> \in Asked /\ Exists(row)
      /\ reqs' = [reqs EXCEPT ![p] = req]
  BY DEF Read, rows, Started
<1>2. /\ req.stage = "checked" /\ req.op = op /\ req.id = id /\ req.row = row
      /\ DOMAIN req = Fields
  BY DEF Started, Fields
<1> HIDE DEF req
<1>3. DOMAIN reqs' = Procs /\ reqs'[p] = req /\ Others(p)
  BY <1>0, <1>1 DEF AllServed, Others
<1>4. \A o \in Orders : Undone(o)' = Undone(o)
  <2>1. reqs[p].stage # "reversed" /\ reqs'[p].stage # "reversed"
    BY <1>1, <1>2, <1>3 DEF Idle
  <2> QED
    BY <1>3, <2>1, UndoneElse
<1>5. RowsOK' /\ Balanced' /\ (LinesNamed => AllSent)'
  BY <1>0, <1>1, <1>4, RowsKept
<1>6. ServesSale(req)' \/ ServesOrder(req)'
  <2>1. ServesSale(req) => ServesSale(req)'
    BY <1>1 DEF ServesSale, SaleGuard, Unposted
  <2>2. ServesOrder(req) => ServesOrder(req)'
    BY <1>1 DEF ServesOrder, InvoiceOf, SaleOf, OrderGuard, Unposted, Shippable, Remaining,
           Exists
  <2> QED
    BY <2>1, <2>2 DEF req
<1>7. Serving(reqs[p])'
  BY <1>1, <1>2, <1>3, <1>6 DEF Serving
<1>8. AllServed'
  BY <1>0, <1>1, <1>3, <1>7, ServedAfter
<1> QED
  BY <1>5, <1>8 DEF IInv

LEMMA SaleReadKeeps ==
    ASSUME IInv, NEW p \in Procs, NEW s \in Sales,
           \/ SalePostRead(p, s) \/ SaleRemoveRead(p, s) \/ SaleCancelRead(p, s)
           \/ SaleSubmitRead(p, s) \/ SaleRejectRead(p, s)
           \/ \E qty \in Quantities : SaleEditRead(p, s, qty)
    PROVE  IInv'
<1>1. ASSUME NEW op \in SaleOps, NEW new, SaleRead(p, op, s, new),
             SaleGuard(Started(op, s, sales[s], NoRow, new))
      PROVE  IInv'
  <2>1. Read(p, op, s, sales[s], NoRow, new)
    BY <1>1 DEF SaleRead
  <2>2. ServesSale(Started(op, s, sales[s], NoRow, new))
    BY <1>1 DEF ServesSale, Started
  <2> QED
    BY <2>1, <2>2, ReadKeeps
<1>2. CASE SalePostRead(p, s)
  <2>1. SaleGuard(Started("post", s, sales[s], NoRow, NoRow)) /\ "post" \in SaleOps
    BY <1>2 DEF SalePostRead, SaleGuard, Started, SaleOps
  <2> QED
    BY <1>1, <1>2, <2>1 DEF SalePostRead
<1>3. CASE SaleRemoveRead(p, s)
  <2>1. SaleGuard(Started("remove", s, sales[s], NoRow, NoRow)) /\ "remove" \in SaleOps
    BY DEF SaleGuard, Started, SaleOps
  <2> QED
    BY <1>1, <1>3, <2>1 DEF SaleRemoveRead
<1>4. CASE SaleCancelRead(p, s)
  <2>1. SaleGuard(Started("cancel", s, sales[s], NoRow, NoRow)) /\ "cancel" \in SaleOps
    BY <1>4 DEF SaleCancelRead, SaleGuard, Started, SaleOps
  <2> QED
    BY <1>1, <1>4, <2>1 DEF SaleCancelRead
<1>5. CASE SaleSubmitRead(p, s)
  <2>1. SaleGuard(Started("submit", s, sales[s], NoRow, NoRow)) /\ "submit" \in SaleOps
    BY <1>5 DEF SaleSubmitRead, SaleGuard, Started, SaleOps
  <2> QED
    BY <1>1, <1>5, <2>1 DEF SaleSubmitRead
<1>6. CASE SaleRejectRead(p, s)
  <2>1. SaleGuard(Started("reject", s, sales[s], NoRow, NoRow)) /\ "reject" \in SaleOps
    BY <1>6 DEF SaleRejectRead, SaleGuard, Started, SaleOps
  <2> QED
    BY <1>1, <1>6, <2>1 DEF SaleRejectRead
<1>7. ASSUME NEW qty \in Quantities, SaleEditRead(p, s, qty)
      PROVE  IInv'
  <2> DEFINE new == [qty |-> qty]
  <2>1. SaleGuard(Started("edit", s, sales[s], NoRow, new)) /\ "edit" \in SaleOps
    BY <1>7 DEF SaleEditRead, SaleGuard, Started, SaleOps
  <2>2. SaleRead(p, "edit", s, new)
    BY <1>7 DEF SaleEditRead
  <2> HIDE DEF new
  <2> QED
    BY <1>1, <2>1, <2>2
<1> QED
  BY <1>2, <1>3, <1>4, <1>5, <1>6, <1>7

LEMMA OrderReadKeeps ==
    ASSUME IInv, NEW p \in Procs, NEW o \in Orders,
           \/ OrderPostRead(p, o) \/ OrderCancelRead(p, o) \/ OrderRemoveRead(p, o)
           \/ OrderSubmitRead(p, o) \/ OrderRejectRead(p, o)
           \/ \E s \in Sales \cup {NoSale}, qty \in Quantities, named \in NamesLine :
                 OrderChangeRead(p, o, s, qty, named)
    PROVE  IInv'
<1> DEFINE sale == SaleOf(orders[o])
<1>1. ASSUME NEW op \in OrderOps \ {"change"}, NEW new, OrderRead(p, op, o, new),
             OrderGuard(Started(op, o, orders[o], sale, new))
      PROVE  IInv'
  <2>1. Read(p, op, o, orders[o], sale, new)
    BY <1>1 DEF OrderRead
  <2>2. ServesOrder(Started(op, o, orders[o], sale, new))
    BY <1>1 DEF ServesOrder, InvoiceOf, Started
  <2> HIDE DEF sale
  <2> QED
    BY <2>1, <2>2, ReadKeeps
<1>2. CASE OrderPostRead(p, o)
  <2>1. OrderGuard(Started("dispatch", o, orders[o], sale, NoRow)) /\ "dispatch" \in OrderOps
    BY <1>2 DEF OrderPostRead, OrderGuard, Started, OrderOps
  <2> QED
    BY <1>1, <1>2, <2>1 DEF OrderPostRead
<1>3. CASE OrderCancelRead(p, o)
  <2>1. OrderGuard(Started("recall", o, orders[o], sale, NoRow)) /\ "recall" \in OrderOps
    BY DEF OrderGuard, Started, OrderOps
  <2> QED
    BY <1>1, <1>3, <2>1 DEF OrderCancelRead
<1>4. CASE OrderRemoveRead(p, o)
  <2>1. OrderGuard(Started("discard", o, orders[o], sale, NoRow)) /\ "discard" \in OrderOps
    BY DEF OrderGuard, Started, OrderOps
  <2> QED
    BY <1>1, <1>4, <2>1 DEF OrderRemoveRead
<1>5. CASE OrderSubmitRead(p, o)
  <2>1. /\ OrderGuard(Started("submit order", o, orders[o], sale, NoRow))
        /\ "submit order" \in OrderOps
    BY <1>5 DEF OrderSubmitRead, OrderGuard, Started, OrderOps
  <2> QED
    BY <1>1, <1>5, <2>1 DEF OrderSubmitRead
<1>6. CASE OrderRejectRead(p, o)
  <2>1. /\ OrderGuard(Started("reject order", o, orders[o], sale, NoRow))
        /\ "reject order" \in OrderOps
    BY <1>6 DEF OrderRejectRead, OrderGuard, Started, OrderOps
  <2> QED
    BY <1>1, <1>6, <2>1 DEF OrderRejectRead
<1>7. ASSUME NEW s \in Sales \cup {NoSale}, NEW qty \in Quantities, NEW named \in NamesLine,
             OrderChangeRead(p, o, s, qty, named)
      PROVE  IInv'
  <2>1. PICK to : to = IF s = NoSale THEN orders[o].sale ELSE s
    OBVIOUS
  <2>2. PICK found : found = IF to \in Sales THEN sales[to] ELSE NoRow
    OBVIOUS
  <2>3. PICK new : new = [sale |-> to, qty |-> qty,
                          line |-> IF Exists(found) /\ named THEN found.line ELSE 0]
    OBVIOUS
  <2>4. /\ s # NoSale => <<"order", s>> \in Asked /\ sales[s].status # "absent"
        /\ orders[o].status = "draft"
        /\ Read(p, "change", o, orders[o], found, new)
    BY <1>7, <2>1, <2>2, <2>3 DEF OrderChangeRead
  <2>5. LinesNamed => named = TRUE
    BY <1>7 DEF LinesNamed
  <2>6. /\ to \in Sales \cup {NoSale}
        /\ to \in Sales => <<"order", to>> \in Asked /\ found.status # "absent"
    <3>1. OrderOK(orders[o], sales)
      BY DEF IInv, RowsOK
    <3>2. orders[o].sale \in Sales \cup {NoSale}
      BY <3>1 DEF OrderOK, Order
    <3> QED
      BY <2>1, <2>2, <2>4, <3>1, <3>2, DeliveryAssumption DEF OrderOK, Exists, DeliveryAssumption
  <2>7. PICK req : req = Started("change", o, orders[o], found, new)
    OBVIOUS
  <2>8. /\ req.stage = "checked" /\ req.op = "change" /\ req.id = o /\ req.row = orders[o]
        /\ req.sale = found /\ req.new = new
        /\ new.sale = to /\ new.qty = qty
        /\ new.line = IF Exists(found) /\ named THEN found.line ELSE 0
    BY <2>3, <2>7 DEF Started
  <2>9. OrderGuard(req)
    BY <2>4, <2>5, <2>6, <2>8 DEF OrderGuard
  <2>10. InvoiceOf(req) = found
    BY <2>2, <2>8 DEF InvoiceOf, SaleOf
  <2>11. ServesOrder(req)
    BY <2>8, <2>9, <2>10 DEF ServesOrder, OrderOps
  <2> QED
    BY <2>4, <2>7, <2>11, ReadKeeps
<1> QED
  BY <1>2, <1>3, <1>4, <1>5, <1>6, <1>7

LEMMA BeginKeeps ==
    ASSUME IInv, NEW p \in Procs, Begin(p)
    PROVE  IInv'
<1>0. RowsOK /\ AllServed /\ Balanced /\ (LinesNamed => AllSent)
  BY DEF IInv
<1>1. PICK old : old = reqs[p]
  OBVIOUS
<1>2. PICK new : new = [old EXCEPT !.stage = "tx", !.seen = stock]
  OBVIOUS
<1>3. /\ sales' = sales /\ orders' = orders /\ stock' = stock
      /\ old.stage = "checked" /\ old.op \in {"post", "edit", "dispatch"}
  BY <1>1 DEF Begin, rows
<1>4. DOMAIN reqs' = Procs /\ reqs'[p] = new /\ Others(p)
  BY <1>0, <1>1, <1>2 DEF Begin, AllServed, Others
<1>5. Serving(old) /\ old # Idle
  BY <1>0, <1>1, <1>3 DEF AllServed, Idle
<1>6. /\ new.stage = "tx" /\ new.op = old.op /\ new.id = old.id /\ new.row = old.row
      /\ new.sale = old.sale /\ new.new = old.new /\ DOMAIN new = Fields
  BY <1>2, <1>5 DEF Serving, Fields
<1>7. Serving(new)
  <2>1. ServesSale(old) => ServesSale(new)
    BY <1>6 DEF ServesSale, SaleGuard
  <2>2. ServesOrder(old) => ServesOrder(new)
    BY <1>3, <1>6 DEF ServesOrder, InvoiceOf, OrderGuard
  <2> QED
    BY <1>5, <1>6, <2>1, <2>2 DEF Serving
<1>8. Serving(new)'
  <2>1. ServesSale(new) => ServesSale(new)'
    BY <1>3 DEF ServesSale, SaleGuard, Unposted
  <2>2. ServesOrder(new) => ServesOrder(new)'
    BY <1>3 DEF ServesOrder, InvoiceOf, SaleOf, OrderGuard, Unposted, Shippable, Remaining,
           Exists
  <2> QED
    BY <1>7, <2>1, <2>2 DEF Serving, Exists
<1>9. AllServed'
  <2>1. Serving(reqs[p])'
    BY <1>4, <1>8
  <2> QED
    BY <1>0, <1>3, <1>4, <2>1, ServedAfter
<1>10. \A o \in Orders : Undone(o)' = Undone(o)
  <2>1. reqs[p].stage # "reversed" /\ reqs'[p].stage # "reversed"
    BY <1>1, <1>3, <1>4, <1>6
  <2> QED
    BY <1>4, <2>1, UndoneElse
<1> QED
  BY <1>0, <1>3, <1>9, <1>10, RowsKept DEF IInv

\* No request is left between its reversal and the change of the order.
LEMMA FailKeeps ==
    ASSUME FamiliesApart, ~Interruptions, IInv, NEW p \in Procs, Fail(p)
    PROVE  IInv'
<1>0. RowsOK /\ AllServed /\ Balanced /\ (LinesNamed => AllSent)
  BY DEF IInv
<1>1. /\ sales' = sales /\ orders' = orders /\ stock' = stock
      /\ reqs[p].stage # "reversed" /\ reqs[p] # Idle /\ Finish(p)
  BY DEF Fail, rows
<1>2. AllServed'
  BY <1>0, <1>1, FinishServed DEF Leaves
<1>3. \A o \in Orders : Undone(o)' = Undone(o)
  BY <1>0, <1>1, UndoneSame
<1> QED
  BY <1>0, <1>1, <1>2, <1>3, RowsKept DEF IInv

LEMMA LockKeeps ==
    ASSUME IInv, SetLock \/ UNCHANGED vars
    PROVE  IInv'
<1>0. RowsOK /\ AllServed /\ Balanced /\ (LinesNamed => AllSent)
  BY DEF IInv
<1>1. sales' = sales /\ orders' = orders /\ stock' = stock /\ reqs' = reqs
  BY DEF SetLock, vars
<1>2. \A o \in Orders : Undone(o)' = Undone(o)
  BY <1>1 DEF Undone
<1>3. ASSUME NEW p \in Procs PROVE Serving(reqs[p])'
  <2>0. Serving(reqs[p])
    BY <1>0 DEF AllServed
  <2>1. ServesSale(reqs[p]) => ServesSale(reqs[p])'
    BY <1>1 DEF ServesSale, SaleGuard, Unposted
  <2>2. ServesOrder(reqs[p]) => ServesOrder(reqs[p])'
    BY <1>1 DEF ServesOrder, InvoiceOf, SaleOf, OrderGuard, Unposted, Shippable, Remaining,
           Exists
  <2> QED
    BY <1>1, <2>0, <2>1, <2>2 DEF Serving, Exists
<1>4. AllServed'
  BY <1>0, <1>1, <1>3 DEF AllServed
<1> QED
  BY <1>0, <1>1, <1>2, <1>4, RowsKept DEF IInv

-------------------------------------------------------------------------------
(* Documents that are raised.                                               *)

\* No order refers to an invoice that does not exist.
LEMMA NoOrderOfNone ==
    ASSUME RowsOK, NEW s \in Sales, ~Exists(sales[s]), NEW o \in Orders
    PROVE  orders[o].sale # s
BY DEF RowsOK, OrderOK

LEMMA NoneSent ==
    ASSUME NEW s \in Sales, \A o \in Orders : SentIn(orders'[o], Undone(o)', s) = 0
    PROVE  SentOn(s)' = 0
<1>1. IsFiniteSet(Orders)
  BY DeliveryAssumption DEF DeliveryAssumption
<1> DEFINE f == [o \in Orders |-> SentIn(orders'[o], Undone(o)', s)]
<1>2. \A o \in Orders : f[o] = 0
  OBVIOUS
<1> HIDE DEF f
<1>3. SumFunctionOnSet(f, Orders) = 0
  BY <1>1, <1>2, SumZero
<1> QED
  BY <1>3 DEF f, SentOn

LEMMA SaleCreateKeeps ==
    ASSUME IInv, NEW s \in Sales, NEW qty \in Quantities, SaleCreate(s, qty)
    PROVE  IInv'
<1>0. RowsOK /\ AllServed /\ Balanced /\ (LinesNamed => AllSent)
  BY DEF IInv
<1>1. PICK new : new = [NoRow EXCEPT !.status = "draft", !.qty = qty, !.line = 1]
  OBVIOUS
<1>2. /\ ~Exists(sales[s]) /\ sales' = [sales EXCEPT ![s] = new]
      /\ orders' = orders /\ stock' = stock /\ reqs' = reqs
      /\ sales[s].status = "absent"
  BY <1>1 DEF SaleCreate, Exists
<1>3. /\ new = [status |-> "draft", qty |-> qty, line |-> 1, delivered |-> 0,
                relieved |-> 0, postedAt |-> FALSE]
      /\ qty \in Nat /\ qty > 0
  <2>1. qty \in Nat /\ qty > 0
    BY DeliveryAssumption DEF DeliveryAssumption
  <2>2. new = [status |-> "draft", qty |-> qty, line |-> 1, delivered |-> 0,
               relieved |-> 0, postedAt |-> FALSE]
    BY <1>1 DEF NoRow
  <2> QED
    BY <2>1, <2>2
<1>4. new \in Sale /\ SaleOK(s, new) /\ Exists(new) /\ Out(new) = 0
  BY <1>3 DEF Sale, Statuses, SaleOK, Exists, Out
<1>5. sales'[s] = new /\ \A x \in Sales : x # s => sales'[x] = sales[x]
  BY <1>0, <1>2 DEF RowsOK
<1>6. \A o \in Orders : orders[o].sale # s
  BY <1>0, <1>2, NoOrderOfNone
<1>7. RowsOK'
  <2>1. sales' \in [Sales -> Sale] /\ orders' \in [Orders -> Order] /\ stock' \in Int
    BY <1>0, <1>2, <1>4 DEF RowsOK
  <2>2. \A x \in Sales : SaleOK(x, sales'[x])
    BY <1>0, <1>4, <1>5 DEF RowsOK
  <2>3. \A o \in Orders : OrderOK(orders'[o], sales')
    BY <1>0, <1>2, <1>5, <1>6 DEF RowsOK, OrderOK
  <2> QED
    BY <2>1, <2>2, <2>3 DEF RowsOK
<1>8. \A o \in Orders : Undone(o)' = Undone(o)
  BY <1>2 DEF Undone
<1>9. AllServed'
  <2>1. ASSUME NEW p \in Procs PROVE Serving(reqs[p])'
    <3>1. Serving(reqs[p])
      BY <1>0 DEF AllServed
    <3>2. ASSUME Exists(reqs[p].row), ServesSale(reqs[p]) PROVE ServesSale(reqs[p])'
      <4>1. reqs[p].id # s
        BY <1>2, <3>2 DEF ServesSale
      <4> QED
        BY <1>2, <1>5, <3>2, <4>1 DEF ServesSale, SaleGuard, Unposted
    <3>3. ASSUME ServesOrder(reqs[p]) PROVE ServesOrder(reqs[p])'
      <4>1. reqs[p].row.sale # s
        BY <1>6, <3>3 DEF ServesOrder
      <4>2. SaleOf(reqs[p].row)' = SaleOf(reqs[p].row)
        BY <1>2, <1>5, <4>1 DEF SaleOf
      <4>3. InvoiceOf(reqs[p])' = InvoiceOf(reqs[p])
            \/ reqs[p].stage = "reversed"
        <5>1. CASE reqs[p].op # "change"
          BY <1>2, <4>2, <5>1 DEF InvoiceOf
        <5>2. CASE reqs[p].op = "change" /\ reqs[p].stage # "reversed"
          <6>1. reqs[p].sale = SaleOf(reqs[p].new) /\ OrderGuard(reqs[p])
            BY <3>3, <5>2 DEF ServesOrder, InvoiceOf
          <6>2. reqs[p].new.sale \in Sales => SaleOf(reqs[p].new).status # "absent"
            BY <5>2, <6>1 DEF OrderGuard
          <6>3. reqs[p].new.sale # s
            BY <1>2, <6>2 DEF SaleOf
          <6> QED
            BY <1>2, <1>5, <5>2, <6>3 DEF InvoiceOf, SaleOf
        <5> QED
          BY <5>1, <5>2
      <4> QED
        BY <1>2, <3>3, <4>3 DEF ServesOrder, OrderGuard, Unposted, Shippable, Remaining, Exists
    <3> QED
      BY <1>2, <3>1, <3>2, <3>3 DEF Serving, Exists
  <2> QED
    BY <1>0, <1>2, <2>1 DEF AllServed
<1>10. Balanced'
  <2>1. \A x \in Sales : Out(sales'[x]) = Out(sales[x])
    <3>1. Out(sales[s]) = 0
      BY <1>2 DEF Out
    <3> QED
      BY <1>4, <1>5, <3>1
  <2>2. \A o \in Orders : TakenIn(orders'[o], Undone(o)') = TakenIn(orders[o], Undone(o))
    BY <1>2, <1>8
  <2> QED
    BY <1>0, <1>2, <2>1, <2>2, NothingMoves
<1>11. (LinesNamed => AllSent)'
  <2> SUFFICES ASSUME LinesNamed, AllSent, NEW x \in Sales, Exists(sales'[x])
               PROVE  /\ sales'[x].delivered = SentOn(x)'
                      /\ sales'[x].delivered <= sales'[x].qty
    BY <1>0 DEF AllSent, LinesNamed
  <2>1. CASE x = s
    <3>1. \A o \in Orders : SentIn(orders'[o], Undone(o)', s) = 0
      BY <1>2, <1>6 DEF SentIn
    <3>2. SentOn(s)' = 0
      BY <3>1, NoneSent
    <3> QED
      BY <1>3, <1>5, <2>1, <3>2
  <2>2. CASE x # s
    <3>1. \A o \in Orders : SentIn(orders'[o], Undone(o)', x) = SentIn(orders[o], Undone(o), x)
      BY <1>2, <1>8
    <3>2. SentOn(x)' = SentOn(x)
      BY <3>1, SentSame
    <3> QED
      BY <1>5, <2>2, <3>2 DEF AllSent
  <2> QED
    BY <2>1, <2>2
<1> QED
  BY <1>7, <1>9, <1>10, <1>11 DEF IInv

LEMMA OrderCreateKeeps ==
    ASSUME IInv, NEW o \in Orders, NEW s \in Sales \cup {NoSale},
           NEW qty \in Quantities, NEW named \in NamesLine, OrderCreate(o, s, qty, named)
    PROVE  IInv'
<1>0. RowsOK /\ AllServed /\ Balanced /\ (LinesNamed => AllSent)
  BY DEF IInv
<1>1. PICK new : new = [status |-> "draft", sale |-> s, qty |-> qty, relieves |-> FALSE,
                        line |-> IF s # NoSale /\ named THEN sales[s].line ELSE 0]
  OBVIOUS
<1>2. /\ <<"order", s>> \in Asked /\ orders[o].status = "absent"
      /\ s # NoSale => Exists(sales[s])
      /\ orders' = [orders EXCEPT ![o] = new]
      /\ sales' = sales /\ stock' = stock /\ reqs' = reqs
  BY <1>1 DEF OrderCreate
<1>3. qty \in Nat /\ NoSale \notin Sales /\ (LinesNamed => named = TRUE)
  BY DeliveryAssumption DEF DeliveryAssumption, LinesNamed
<1>4. new \in Order /\ OrderOK(new, sales)
  <2>1. new.line \in Nat
    BY <1>0, <1>1 DEF RowsOK, Sale
  <2>2. new \in Order
    BY <1>1, <1>3, <2>1 DEF Order, Statuses
  <2> QED
    BY <1>1, <1>2, <1>3, <2>2 DEF OrderOK
<1>5. orders'[o] = new /\ \A x \in Orders : x # o => orders'[x] = orders[x]
  BY <1>0, <1>2 DEF RowsOK
<1>6. RowsOK'
  <2>1. orders' \in [Orders -> Order]
    BY <1>0, <1>2, <1>4 DEF RowsOK
  <2>2. \A x \in Orders : OrderOK(orders'[x], sales')
    BY <1>0, <1>2, <1>4, <1>5 DEF RowsOK
  <2> QED
    BY <1>0, <1>2, <2>1, <2>2 DEF RowsOK
<1>7. \A x \in Orders : Undone(x)' = Undone(x)
  BY <1>2 DEF Undone
<1>8. AllServed'
  <2>1. ASSUME NEW p \in Procs PROVE Serving(reqs[p])'
    <3>1. Serving(reqs[p])
      BY <1>0 DEF AllServed
    <3>2. ServesSale(reqs[p]) => ServesSale(reqs[p])'
      BY <1>2 DEF ServesSale, SaleGuard, Unposted
    <3>3. ASSUME Exists(reqs[p].row), ServesOrder(reqs[p]) PROVE ServesOrder(reqs[p])'
      <4>1. reqs[p].id # o
        BY <1>2, <3>3 DEF ServesOrder, Exists
      <4>2. orders'[reqs[p].id] = orders[reqs[p].id]
        BY <1>5, <3>3, <4>1 DEF ServesOrder
      <4>3. InvoiceOf(reqs[p])' = InvoiceOf(reqs[p])
        BY <1>2 DEF InvoiceOf, SaleOf
      <4> QED
        BY <1>2, <3>3, <4>2, <4>3 DEF ServesOrder, OrderGuard, Unposted, Shippable, Remaining, Exists
    <3> QED
      BY <1>2, <3>1, <3>2, <3>3 DEF Serving, Exists
  <2> QED
    BY <1>0, <1>2, <2>1 DEF AllServed
<1>9. \A undone : TakenIn(new, undone) = 0 /\ \A x \in Sales : SentIn(new, undone, x) = 0
  BY <1>1 DEF TakenIn, SentIn
<1>10. \A undone : TakenIn(orders[o], undone) = 0 /\ \A x \in Sales : SentIn(orders[o], undone, x) = 0
  BY <1>2 DEF TakenIn, SentIn
<1>11. Balanced'
  <2>1. \A x \in Sales : Out(sales'[x]) = Out(sales[x])
    BY <1>2
  <2>2. \A x \in Orders : TakenIn(orders'[x], Undone(x)') = TakenIn(orders[x], Undone(x))
    BY <1>5, <1>7, <1>9, <1>10
  <2> QED
    BY <1>0, <1>2, <2>1, <2>2, NothingMoves
<1>12. (LinesNamed => AllSent)'
  <2>1. \A y \in Sales, x \in Orders :
           SentIn(orders'[x], Undone(x)', y) = SentIn(orders[x], Undone(x), y)
    BY <1>5, <1>7, <1>9, <1>10
  <2> QED
    BY <1>0, <1>2, <2>1, CountersKept
<1> QED
  BY <1>6, <1>8, <1>11, <1>12 DEF IInv

-------------------------------------------------------------------------------
(* Transactions that write one row.                                         *)

\* The row of an invoice is replaced, and the stock moves by what it says it took out.
LEMMA SaleRowKeeps ==
    ASSUME FamiliesApart, IInv, NEW p \in Procs, reqs[p] # Idle, Finish(p),
           reqs[p].stage # "reversed", NEW s \in Sales, reqs[p].id = s, NEW new, SaleOK(s, new), Exists(sales[s]), Exists(new),
           sales' = [sales EXCEPT ![s] = new], orders' = orders,
           stock' = stock + Out(sales[s]) - Out(new),
           new.delivered = sales[s].delivered,
           <<"order", s>> \in Asked => new.qty = sales[s].qty /\ new.line = sales[s].line
    PROVE  IInv'
<1>0. RowsOK /\ AllServed /\ Balanced /\ (LinesNamed => AllSent)
  BY DEF IInv
<1>1. sales'[s] = new /\ \A x \in Sales : x # s => sales'[x] = sales[x]
  BY <1>0 DEF RowsOK
<1>2. AllServed'
  <2>1. Leaves(s)
    BY <1>1 DEF Leaves, Family
  <2> QED
    BY <1>0, <2>1, FinishServed
<1>3. \A o \in Orders : Undone(o)' = Undone(o)
  BY <1>0, UndoneSame
<1>4. RowsOK'
  <2>1. sales' \in [Sales -> Sale]
    BY <1>0 DEF RowsOK, SaleOK
  <2>2. \A x \in Sales : SaleOK(x, sales'[x])
    BY <1>0, <1>1 DEF RowsOK
  <2>3. ASSUME NEW o \in Orders PROVE OrderOK(orders'[o], sales')
    <3>1. OrderOK(orders[o], sales)
      BY <1>0 DEF RowsOK
    <3>2. orders[o].sale = s => <<"order", s>> \in Asked
      BY <3>1 DEF OrderOK
    <3> QED
      BY <1>1, <3>1, <3>2 DEF OrderOK
  <2>4. stock' \in Int
    <3>1. stock \in Int /\ Out(sales[s]) \in Int
      BY <1>0, Terms DEF RowsOK
    <3>2. Out(new) \in Int
      BY DEF Out, SaleOK, Sale
    <3> QED
      BY <3>1, <3>2
  <2> QED
    BY <1>0, <2>1, <2>2, <2>3, <2>4 DEF RowsOK
<1>5. Balanced'
  <2>1. \A x \in Sales : x # s => Out(sales'[x]) = Out(sales[x])
    BY <1>1
  <2>2. \A o \in Orders : TakenIn(orders'[o], Undone(o)') = TakenIn(orders[o], Undone(o))
    BY <1>3
  <2>3. stock' = stock + Out(sales[s]) - Out(sales'[s])
    BY <1>1
  <2> QED
    BY <1>0, <1>4, <2>1, <2>2, <2>3, SaleMoves
<1>6. (LinesNamed => AllSent)'
  <2>1. \A x \in Sales, o \in Orders :
           SentIn(orders'[o], Undone(o)', x) = SentIn(orders[o], Undone(o), x)
    BY <1>3
  <2>2. <<"order", s>> \notin Asked => new.delivered = 0 /\ new.qty \in Nat
    BY DEF SaleOK, Sale
  <2>3. \A x \in Sales : Exists(sales'[x]) =>
           /\ Exists(sales[x])
           /\ sales'[x].delivered = sales[x].delivered
           /\ sales'[x].delivered <= sales'[x].qty \/ sales'[x].qty = sales[x].qty
    BY <1>1, <2>2
  <2> QED
    BY <1>0, <2>1, <2>3, CountersKept
<1> QED
  BY <1>2, <1>4, <1>5, <1>6 DEF IInv

\* The row of an order that is not in force is replaced, by one that is not either.
LEMMA OrderRowKeeps ==
    ASSUME FamiliesApart, IInv, NEW p \in Procs, reqs[p] # Idle, Finish(p),
           NEW o \in Orders, reqs[p].id = o,
           NEW new, OrderOK(new, sales), new.status # "posted",
           orders[o].status # "posted" \/ Undone(o),
           orders' = [orders EXCEPT ![o] = new], sales' = sales, stock' = stock
    PROVE  IInv'
<1>0. RowsOK /\ AllServed /\ Balanced /\ (LinesNamed => AllSent)
  BY DEF IInv
<1>1. orders'[o] = new /\ \A x \in Orders : x # o => orders'[x] = orders[x]
  BY <1>0 DEF RowsOK
<1>2. AllServed' /\ \A x : x # o => Undone(x)' = Undone(x)
  <2>1. Leaves(o)
    BY <1>1 DEF Leaves, Family
  <2> QED
    BY <1>0, <2>1, FinishServed
<1>3. RowsOK'
  <2>1. orders' \in [Orders -> Order]
    BY <1>0 DEF RowsOK, OrderOK
  <2>2. \A x \in Orders : OrderOK(orders'[x], sales')
    BY <1>0, <1>1 DEF RowsOK
  <2> QED
    BY <1>0, <2>1, <2>2 DEF RowsOK
<1>4. /\ TakenIn(orders'[o], Undone(o)') = 0
      /\ \A s \in Sales : SentIn(orders'[o], Undone(o)', s) = 0
  BY <1>1 DEF TakenIn, SentIn
<1>5. /\ TakenIn(orders[o], Undone(o)) = 0
      /\ \A s \in Sales : SentIn(orders[o], Undone(o), s) = 0
  BY DEF TakenIn, SentIn
<1>6. \A x \in Orders : x # o => orders'[x] = orders[x] /\ Undone(x)' = Undone(x)
  BY <1>2, <1>1
<1>7. /\ \A x \in Orders : TakenIn(orders'[x], Undone(x)') = TakenIn(orders[x], Undone(x))
      /\ \A s \in Sales, x \in Orders :
            SentIn(orders'[x], Undone(x)', s) = SentIn(orders[x], Undone(x), s)
  <2>1. ASSUME NEW x \in Orders
        PROVE  /\ TakenIn(orders'[x], Undone(x)') = TakenIn(orders[x], Undone(x))
               /\ \A s \in Sales : SentIn(orders'[x], Undone(x)', s) = SentIn(orders[x], Undone(x), s)
    <3>1. CASE x = o
      BY <1>4, <1>5, <3>1
    <3>2. CASE x # o
      BY <1>6, <3>2
    <3> QED
      BY <3>1, <3>2
  <2> QED
    BY <2>1
<1>8. Balanced'
  BY <1>0, <1>7, NothingMoves
<1>9. (LinesNamed => AllSent)'
  BY <1>0, <1>7, CountersKept
<1> QED
  BY <1>2, <1>3, <1>8, <1>9 DEF IInv

\* What the request of p has read, when it works on an invoice or on an order.
LEMMA SaleServed ==
    ASSUME IInv, NEW p \in Procs, reqs[p] # Idle, reqs[p].op \in SaleOps
    PROVE  /\ reqs[p].id \in Sales /\ reqs[p].row = sales[reqs[p].id]
           /\ Exists(sales[reqs[p].id]) /\ <<reqs[p].op, reqs[p].id>> \in Asked
           /\ SaleGuard(reqs[p]) /\ reqs[p].stage # "reversed"
<1>1. Serving(reqs[p])
  BY DEF IInv, AllServed
<1>2. ~ServesOrder(reqs[p])
  BY DEF ServesOrder, SaleOps, OrderOps
<1> QED
  BY <1>1, <1>2 DEF Serving, ServesSale

LEMMA OrderServed ==
    ASSUME IInv, NEW p \in Procs, reqs[p] # Idle, reqs[p].op \in OrderOps
    PROVE  /\ reqs[p].id \in Orders /\ reqs[p].row = orders[reqs[p].id]
           /\ Exists(orders[reqs[p].id])
           /\ reqs[p].stage # "reversed" =>
                 reqs[p].sale = InvoiceOf(reqs[p]) /\ OrderGuard(reqs[p])
           /\ reqs[p].stage = "reversed" => reqs[p].row.status = "posted"
           /\ DOMAIN reqs[p] = Fields
<1>1. Serving(reqs[p])
  BY DEF IInv, AllServed
<1>2. ~ServesSale(reqs[p])
  BY DEF ServesSale, SaleOps, OrderOps
<1> QED
  BY <1>1, <1>2 DEF Serving, ServesOrder

LEMMA NotIdle == \A p \in Procs : reqs[p].stage = "checked" => reqs[p] # Idle
BY DEF Idle

LEMMA SaleStatusKeeps ==
    ASSUME FamiliesApart, IInv, NEW p \in Procs,
           \/ SetStatus(p, "cancel", "checked", "cancelled")
           \/ SetStatus(p, "submit", "checked", "pending")
           \/ SetStatus(p, "reject", "checked", "draft")
    PROVE  IInv'
<1>1. ASSUME NEW op \in {"cancel", "submit", "reject"},
             NEW status \in {"cancelled", "pending", "draft"},
             SetStatus(p, op, "checked", status)
      PROVE  IInv'
  <2>1. op \in SaleOps
    BY DEF SaleOps
  <2>2. reqs[p].stage = "checked" /\ reqs[p].op = op /\ reqs[p] # Idle
    BY <1>1 DEF SetStatus, Committing, Idle
  <2>3. PICK s \in Sales : s = reqs[p].id
    BY <2>1, <2>2, SaleServed
  <2>4. PICK new : new = [sales[s] EXCEPT !.status = status]
    OBVIOUS
  <2>5. /\ sales' = [sales EXCEPT ![s].status = status] /\ orders' = orders
        /\ stock' = stock /\ Finish(p)
    BY <1>1, <2>1, <2>3 DEF SetStatus
  <2>6. Exists(sales[s]) /\ Unposted(sales[s])
    <3>1. reqs[p].row = sales[s] /\ Exists(sales[s]) /\ SaleGuard(reqs[p])
      BY <2>1, <2>2, <2>3, SaleServed
    <3> QED
      BY <2>2, <3>1 DEF SaleGuard, Unposted
  <2>7. sales[s] \in Sale /\ SaleOK(s, sales[s])
    BY DEF IInv, RowsOK
  <2>8. /\ new.status = status /\ new.qty = sales[s].qty /\ new.line = sales[s].line
        /\ new.delivered = sales[s].delivered /\ new.relieved = sales[s].relieved
        /\ new \in Sale
    BY <2>4, <2>7 DEF Sale, Statuses
  <2>9. Exists(new) /\ SaleOK(s, new)
    BY <2>6, <2>7, <2>8 DEF Exists, SaleOK, Unposted
  <2>10. sales' = [sales EXCEPT ![s] = new]
    BY <2>4, <2>5
  <2>11. Out(sales[s]) = 0 /\ Out(new) = 0 /\ stock \in Int
    BY <2>6, <2>8 DEF Out, Unposted, IInv, RowsOK
  <2>12. stock' = stock + Out(sales[s]) - Out(new)
    BY <2>5, <2>11
  <2> QED
    BY <2>2, <2>3, <2>5, <2>6, <2>8, <2>9, <2>10, <2>12, SaleRowKeeps
<1> QED
  BY <1>1

LEMMA OrderStatusKeeps ==
    ASSUME FamiliesApart, IInv, NEW p \in Procs,
           \/ SetStatus(p, "submit order", "checked", "pending")
           \/ SetStatus(p, "reject order", "checked", "draft")
           \/ OrderCancelCommit(p) \/ OrderRemoveCommit(p)
    PROVE  IInv'
<1>1. ASSUME NEW op \in {"submit order", "reject order", "recall", "discard"},
             NEW status \in {"pending", "draft", "cancelled", "deleted"},
             reqs[p] # Idle, reqs[p].op = op,
             op \in {"recall", "discard"} => reqs[p].stage = LastStage(p),
             op \notin {"recall", "discard"} => reqs[p].stage = "checked",
             orders' = [orders EXCEPT ![reqs[p].id].status = status],
             sales' = sales, stock' = stock, Finish(p)
      PROVE  IInv'
  <2>1. op \in OrderOps
    BY DEF OrderOps
  <2>2. PICK o \in Orders : o = reqs[p].id
    BY <1>1, <2>1, OrderServed
  <2>3. PICK new : new = [orders[o] EXCEPT !.status = status]
    OBVIOUS
  <2>4. reqs[p].row = orders[o]
    BY <1>1, <2>1, <2>2, OrderServed
  <2>5. orders[o] \in Order /\ OrderOK(orders[o], sales)
    BY DEF IInv, RowsOK
  <2>6. /\ new.status = status /\ new.sale = orders[o].sale /\ new.line = orders[o].line
        /\ new \in Order
    BY <2>3, <2>5 DEF Order, Statuses
  <2>7. OrderOK(new, sales)
    BY <2>5, <2>6 DEF OrderOK
  <2>8. orders[o].status # "posted" \/ Undone(o)
    <3>1. CASE op \in {"recall", "discard"}
      BY <1>1, <2>2, <2>4, <3>1, UndoneBy DEF LastStage
    <3>2. CASE op \in {"submit order", "reject order"}
      <4>1. OrderGuard(reqs[p])
        BY <1>1, <2>1, <3>2, OrderServed
      <4> QED
        BY <1>1, <2>4, <3>2, <4>1 DEF OrderGuard
    <3> QED
      BY <3>1, <3>2
  <2>9. orders' = [orders EXCEPT ![o] = new]
    BY <1>1, <2>2, <2>3
  <2> QED
    BY <1>1, <2>2, <2>6, <2>7, <2>8, <2>9, OrderRowKeeps
<1>2. CASE SetStatus(p, "submit order", "checked", "pending")
  <2>1. reqs[p].op = "submit order" /\ reqs[p].stage = "checked"
    BY <1>2 DEF SetStatus, Committing
  <2>2. reqs[p] # Idle
    BY <2>1, NotIdle
  <2>3. "submit order" \notin {"recall", "discard"} /\ "submit order" \notin SaleOps
    BY DEF SaleOps
  <2>4. /\ orders' = [orders EXCEPT ![reqs[p].id].status = "pending"]
        /\ sales' = sales /\ stock' = stock /\ Finish(p)
    BY <1>2, <2>3 DEF SetStatus
  <2> QED
    BY <1>1, <2>1, <2>2, <2>3, <2>4
<1>3. CASE SetStatus(p, "reject order", "checked", "draft")
  <2>1. reqs[p].op = "reject order" /\ reqs[p].stage = "checked"
    BY <1>3 DEF SetStatus, Committing
  <2>2. reqs[p] # Idle
    BY <2>1, NotIdle
  <2>3. "reject order" \notin {"recall", "discard"} /\ "reject order" \notin SaleOps
    BY DEF SaleOps
  <2>4. /\ orders' = [orders EXCEPT ![reqs[p].id].status = "draft"]
        /\ sales' = sales /\ stock' = stock /\ Finish(p)
    BY <1>3, <2>3 DEF SetStatus
  <2> QED
    BY <1>1, <2>1, <2>2, <2>3, <2>4
<1>4. CASE OrderCancelCommit(p)
  <2>1. /\ reqs[p] # Idle /\ reqs[p].op = "recall" /\ reqs[p].stage = LastStage(p)
        /\ orders' = [orders EXCEPT ![reqs[p].id].status = "cancelled"]
        /\ sales' = sales /\ stock' = stock /\ Finish(p)
    BY <1>4 DEF OrderCancelCommit, SetStatus, Committing, SaleOps
  <2>2. "recall" \in {"recall", "discard"}
    OBVIOUS
  <2> QED
    BY <1>1, <2>1, <2>2
<1>5. CASE OrderRemoveCommit(p)
  <2>1. /\ reqs[p] # Idle /\ reqs[p].op = "discard" /\ reqs[p].stage = LastStage(p)
        /\ orders' = [orders EXCEPT ![reqs[p].id].status = "deleted"]
        /\ sales' = sales /\ stock' = stock /\ Finish(p)
    BY <1>5 DEF OrderRemoveCommit, Committing
  <2>2. "discard" \in {"recall", "discard"}
    OBVIOUS
  <2> QED
    BY <1>1, <2>1, <2>2
<1> QED
  BY <1>2, <1>3, <1>4, <1>5

LEMMA OrderChangeKeeps ==
    ASSUME FamiliesApart, IInv, NEW p \in Procs, OrderChangeCommit(p)
    PROVE  IInv'
<1>1. reqs[p].stage = "checked" /\ reqs[p].op = "change" /\ reqs[p] # Idle /\ "change" \in OrderOps
  BY DEF OrderChangeCommit, Committing, Idle, OrderOps
<1>2. PICK o \in Orders : o = reqs[p].id
  BY <1>1, OrderServed
<1>3. PICK req : req = reqs[p]
  OBVIOUS
<1>4. /\ req.row = orders[o] /\ req.sale = SaleOf(req.new) /\ OrderGuard(req)
      /\ req.op = "change"
  BY <1>1, <1>2, <1>3, OrderServed DEF InvoiceOf
<1>5. /\ orders' = [orders EXCEPT ![o].sale = req.new.sale, ![o].qty = req.new.qty,
                                  ![o].line = req.new.line]
      /\ req.new.sale # NoSale => Exists(sales[req.new.sale])
      /\ sales' = sales /\ stock' = stock /\ Finish(p)
  BY <1>2, <1>3 DEF OrderChangeCommit
<1>6. PICK new : new = [orders[o] EXCEPT !.sale = req.new.sale, !.qty = req.new.qty,
                                         !.line = req.new.line]
  OBVIOUS
<1>7. /\ orders[o] \in Order
      /\ sales \in [Sales -> Sale] /\ orders \in [Orders -> Order]
  BY DEF IInv, RowsOK
<1>8. PICK sale : sale = SaleOf(req.new)
  OBVIOUS
<1>9. /\ orders[o].status = "draft" /\ req.new.qty \in Nat
      /\ req.new.sale \in Sales \cup {NoSale}
      /\ req.new.sale \in Sales => <<"order", req.new.sale>> \in Asked
      /\ req.new.line # 0 => Exists(sale) /\ req.new.line = sale.line
      /\ LinesNamed /\ Exists(sale) => req.new.line = sale.line
  BY <1>4, <1>8, DeliveryAssumption DEF OrderGuard, DeliveryAssumption
<1>10. /\ sale.line \in Nat
       /\ Exists(sale) => req.new.sale \in Sales
       /\ req.new.sale \in Sales => sale = sales[req.new.sale] /\ Exists(sale)
  <2>1. NoSale \notin Sales
    BY DeliveryAssumption DEF DeliveryAssumption
  <2> QED
    BY <1>5, <1>7, <1>8, <2>1 DEF SaleOf, Sale, NoRow, Exists
<1>11. req.new.line \in Nat
  BY <1>9, <1>10
<1>12. /\ new.status = "draft" /\ new.sale = req.new.sale /\ new.line = req.new.line
       /\ new \in Order
  BY <1>6, <1>7, <1>9, <1>11 DEF Order
<1>13. OrderOK(new, sales)
  BY <1>9, <1>10, <1>12 DEF OrderOK
<1>14. orders' = [orders EXCEPT ![o] = new]
  BY <1>5, <1>6, <1>7
<1> QED
  BY <1>1, <1>2, <1>5, <1>9, <1>12, <1>13, <1>14, OrderRowKeeps

-------------------------------------------------------------------------------
(* Posting, editing and deleting an invoice.                                *)

LEMMA SalePostKeeps ==
    ASSUME FamiliesApart, IInv, NEW p \in Procs, SalePostCommit(p)
    PROVE  IInv'
<1>1. reqs[p].stage = "tx" /\ reqs[p].op = "post" /\ reqs[p] # Idle /\ "post" \in SaleOps
  BY DEF SalePostCommit, Committing, Idle, SaleOps
<1>2. PICK s \in Sales : s = reqs[p].id
  BY <1>1, SaleServed
<1>3. PICK old : old = sales[s]
  OBVIOUS
<1>4. /\ reqs[p].row = old /\ Exists(old) /\ old.status # "posted"
      /\ old \in Sale /\ SaleOK(s, old)
  <2>1. reqs[p].row = old /\ Exists(old) /\ SaleGuard(reqs[p])
    BY <1>1, <1>2, <1>3, SaleServed
  <2> QED
    BY <1>1, <1>3, <2>1 DEF SaleGuard, Unposted, IInv, RowsOK
<1>5. PICK take : take = ToRelieve(old)
  OBVIOUS
<1>6. take \in Nat
  BY <1>4, <1>5 DEF ToRelieve, Remaining, Sale
<1>7. PICK new : new = [old EXCEPT !.status = "posted", !.postedAt = TRUE,
                                   !.relieved = IF take > 0 THEN take ELSE @]
  OBVIOUS
<1>8. /\ sales' = [sales EXCEPT ![s] = new] /\ orders' = orders
      /\ stock' = stock - take /\ Finish(p)
  BY <1>2, <1>3, <1>4, <1>5, <1>7 DEF SalePostCommit
<1>9. old.relieved = 0
  BY <1>4 DEF SaleOK
<1>10. /\ new.status = "posted" /\ new.qty = old.qty /\ new.line = old.line
       /\ new.delivered = old.delivered /\ new.relieved = take
       /\ new \in Sale
  <2>1. (IF take > 0 THEN take ELSE old.relieved) = take
    BY <1>6, <1>9
  <2>2. new = [old EXCEPT !.status = "posted", !.postedAt = TRUE, !.relieved = take]
    BY <1>7, <2>1
  <2>3. "posted" \in Statuses
    BY DEF Statuses
  <2> QED
    BY <1>4, <1>6, <2>2, <2>3 DEF Sale
<1>11. Exists(new) /\ SaleOK(s, new)
  BY <1>4, <1>10 DEF Exists, SaleOK
<1>12. stock' = stock + Out(old) - Out(new)
  <2>1. Out(old) = 0 /\ Out(new) = take /\ stock \in Int
    BY <1>4, <1>10 DEF Out, IInv, RowsOK
  <2> QED
    BY <1>6, <1>8, <2>1
<1> QED
  BY <1>1, <1>2, <1>3, <1>4, <1>8, <1>10, <1>11, <1>12, SaleRowKeeps

\* An edit replaces the line.  No order points at it, for none can be raised.
LEMMA SaleEditKeeps ==
    ASSUME Orderly, FamiliesApart, IInv, NEW p \in Procs, SaleEditCommit(p)
    PROVE  IInv'
<1>1. /\ reqs[p].stage = "tx" /\ reqs[p].op = "edit" /\ reqs[p] # Idle
      /\ "edit" \in SaleOps
  BY DEF SaleEditCommit, Committing, Idle, SaleOps
<1>2. PICK s \in Sales : s = reqs[p].id
  BY <1>1, SaleServed
<1>3. PICK old : old = sales[s]
  OBVIOUS
<1>4. PICK qty \in Quantities : qty = reqs[p].new.qty
  BY <1>1, SaleServed DEF SaleGuard
<1>5. /\ reqs[p].row = old /\ Exists(old) /\ old.status \in {"draft", "posted"}
      /\ old \in Sale /\ SaleOK(s, old) /\ <<"order", s>> \notin Asked
  <2>1. /\ reqs[p].row = old /\ Exists(old) /\ SaleGuard(reqs[p])
        /\ <<"edit", s>> \in Asked
    BY <1>1, <1>2, <1>3, SaleServed
  <2> QED
    BY <1>1, <1>3, <2>1 DEF SaleGuard, Orderly, IInv, RowsOK
<1>6. PICK mid : mid = [old EXCEPT !.qty = qty, !.line = @ + 1,
                                   !.delivered = old.delivered, !.relieved = old.relieved]
  OBVIOUS
<1>7. PICK back : back = PutBack(old)
  OBVIOUS
<1>8. PICK take : take = IF old.status = "posted" THEN ToRelieve(mid) ELSE 0
  OBVIOUS
<1>9. PICK new : new = [mid EXCEPT !.status = IF old.status = "posted" THEN "posted" ELSE @,
                                   !.postedAt = @ \/ old.status = "posted",
                                   !.relieved = IF take > 0 THEN take ELSE @]
  OBVIOUS
<1>10. qty \in Nat /\ qty > 0
  BY DeliveryAssumption DEF DeliveryAssumption
<1>11. /\ mid.status = old.status /\ mid.qty = qty /\ mid.line = old.line + 1
       /\ mid.delivered = 0 /\ mid.relieved = old.relieved /\ mid \in Sale
  <2>1. old.delivered = 0 /\ old.line + 1 \in Nat
    BY <1>5 DEF SaleOK, Sale
  <2> QED
    BY <1>5, <1>6, <1>10, <2>1 DEF Sale
<1>12. take = IF old.status = "posted" THEN qty ELSE 0
  BY <1>8, <1>10, <1>11 DEF ToRelieve, Remaining
<1>13. /\ new.status = old.status /\ new.qty = qty /\ new.line = old.line + 1
       /\ new.delivered = 0 /\ new.relieved = (IF take > 0 THEN take ELSE old.relieved)
       /\ new \in Sale
  BY <1>9, <1>10, <1>11, <1>12 DEF Sale
<1>14. /\ stock' = stock + back - take /\ sales' = [sales EXCEPT ![s] = new]
       /\ orders' = Unlinked(s, old.line) /\ Finish(p)
  BY <1>2, <1>3, <1>4, <1>5, <1>6, <1>7, <1>8, <1>9 DEF SaleEditCommit
<1>15. orders' = orders
  <2>1. orders \in [Orders -> Order] /\ \A o \in Orders : orders[o].sale # s
    BY <1>5 DEF IInv, RowsOK, OrderOK
  <2> QED
    BY <1>14, <2>1 DEF Unlinked
<1>16. Exists(new) /\ SaleOK(s, new)
  <2>1. new.line > 0
    BY <1>5, <1>13 DEF Sale
  <2>2. new.status # "posted" => new.relieved = 0
    BY <1>5, <1>12, <1>13 DEF SaleOK
  <2> QED
    BY <1>5, <1>10, <1>13, <2>1, <2>2 DEF Exists, SaleOK
<1>17. stock' = stock + Out(old) - Out(new)
  <2>1. Out(old) = back
    BY <1>7 DEF Out, PutBack
  <2>2. Out(new) = take
    BY <1>10, <1>12, <1>13 DEF Out
  <2> QED
    BY <1>14, <2>1, <2>2
<1>18. new.delivered = old.delivered
  BY <1>5, <1>13 DEF SaleOK
<1> QED
  BY <1>1, <1>2, <1>3, <1>5, <1>14, <1>15, <1>16, <1>17, <1>18, SaleRowKeeps

LEMMA SaleRemoveKeeps ==
    ASSUME FamiliesApart, IInv, NEW p \in Procs, SaleRemoveCommit(p)
    PROVE  IInv'
<1>0. RowsOK /\ AllServed /\ Balanced /\ (LinesNamed => AllSent)
  BY DEF IInv
<1>1. /\ reqs[p].stage = "checked" /\ reqs[p].op = "remove" /\ reqs[p] # Idle
      /\ "remove" \in SaleOps
  <2>1. reqs[p].stage = "checked" /\ reqs[p].op = "remove"
    BY DEF SaleRemoveCommit, Committing
  <2>2. "remove" \in SaleOps
    BY DEF SaleOps
  <2> QED
    BY <2>1, <2>2, NotIdle
<1>2. PICK s \in Sales : s = reqs[p].id
  BY <1>1, SaleServed
<1>3. reqs[p].row = sales[s] /\ sales[s] \in Sale /\ reqs[p].stage # "reversed"
  BY <1>0, <1>1, <1>2, SaleServed DEF RowsOK
<1>4. PICK new : new = [NoRow EXCEPT !.status = "deleted"]
  OBVIOUS
<1>5. /\ stock' = stock + Out(sales[s]) /\ sales' = [sales EXCEPT ![s] = new]
      /\ orders' = [o \in Orders |-> IF orders[o].sale = s
                                     THEN [orders[o] EXCEPT !.sale = NoSale, !.line = 0]
                                     ELSE orders[o]]
      /\ Finish(p)
  BY <1>2, <1>3, <1>4 DEF SaleRemoveCommit, PutBack, Out
<1>6. new \in Sale /\ ~Exists(new) /\ SaleOK(s, new) /\ Out(new) = 0
  <2>1. new = [status |-> "deleted", qty |-> 0, line |-> 0, delivered |-> 0,
               relieved |-> 0, postedAt |-> FALSE]
    BY <1>4 DEF NoRow
  <2> QED
    BY <2>1 DEF Sale, Statuses, Exists, SaleOK, Out
<1>7. sales'[s] = new /\ \A x \in Sales : x # s => sales'[x] = sales[x]
  BY <1>0, <1>5 DEF RowsOK
<1>8. ASSUME NEW o \in Orders
      PROVE  /\ orders'[o] \in Order
             /\ orders'[o].status = orders[o].status /\ orders'[o].qty = orders[o].qty
             /\ orders'[o].relieves = orders[o].relieves
             /\ IF orders[o].sale = s
                THEN orders'[o].sale = NoSale /\ orders'[o].line = 0
                ELSE orders'[o] = orders[o]
  <2>1. orders[o] \in Order
    BY <1>0 DEF RowsOK
  <2>2. PICK cut : cut = [orders[o] EXCEPT !.sale = NoSale, !.line = 0]
    OBVIOUS
  <2>3. /\ cut \in Order /\ cut.status = orders[o].status /\ cut.qty = orders[o].qty
        /\ cut.relieves = orders[o].relieves /\ cut.sale = NoSale /\ cut.line = 0
    BY <2>1, <2>2 DEF Order
  <2>4. orders'[o] = IF orders[o].sale = s THEN cut ELSE orders[o]
    BY <1>5, <2>2
  <2> QED
    BY <2>1, <2>3, <2>4
<1>9. NoSale \notin Sales
  BY DeliveryAssumption DEF DeliveryAssumption
<1>10. RowsOK'
  <2>1. sales' \in [Sales -> Sale]
    BY <1>0, <1>5, <1>6 DEF RowsOK
  <2>2. orders' \in [Orders -> Order]
    <3>1. DOMAIN orders' = Orders /\ orders' = [o \in Orders |-> orders'[o]]
      BY <1>5
    <3> QED
      BY <1>8, <3>1
  <2>3. stock' \in Int
    <3>1. Out(sales[s]) \in Int /\ stock \in Int
      BY <1>0, Terms DEF RowsOK
    <3>2. stock' = stock + Out(sales[s])
      BY <1>5
    <3> QED
      BY <3>1, <3>2
  <2>4. \A x \in Sales : SaleOK(x, sales'[x])
    BY <1>0, <1>6, <1>7 DEF RowsOK
  <2>5. ASSUME NEW o \in Orders PROVE OrderOK(orders'[o], sales')
    <3>1. OrderOK(orders[o], sales)
      BY <1>0 DEF RowsOK
    <3>2. CASE orders[o].sale = s
      BY <1>8, <1>9, <3>2 DEF OrderOK
    <3>3. CASE orders[o].sale # s
      BY <1>7, <1>8, <3>1, <3>3 DEF OrderOK
    <3> QED
      BY <3>2, <3>3
  <2> QED
    BY <2>1, <2>2, <2>3, <2>4, <2>5 DEF RowsOK
<1>11. AllServed'
  <2>1. ASSUME NEW o \in Orders, Family(o) \cap Family(s) = {}
        PROVE  orders'[o] = orders[o]
    <3>1. o \notin Sales
      BY DeliveryAssumption DEF DeliveryAssumption
    <3>2. orders[o].sale # s
      BY <2>1, <3>1 DEF Family
    <3> QED
      BY <1>8, <3>2
  <2>2. Leaves(s)
    BY <1>7, <2>1 DEF Leaves, Family
  <2> QED
    BY <1>0, <1>1, <1>2, <1>5, <2>2, FinishServed
<1>12. \A o \in Orders : Undone(o)' = Undone(o)
  BY <1>0, <1>3, <1>5, UndoneSame
<1>13. Balanced'
  <2>1. \A x \in Sales : x # s => Out(sales'[x]) = Out(sales[x])
    BY <1>7
  <2>2. \A o \in Orders : TakenIn(orders'[o], Undone(o)') = TakenIn(orders[o], Undone(o))
    BY <1>8, <1>12 DEF TakenIn
  <2>3. stock' = stock + Out(sales[s]) - Out(sales'[s])
    <3>1. Out(sales'[s]) = 0
      BY <1>6, <1>7
    <3>2. stock \in Int /\ Out(sales[s]) \in Int
      BY <1>0, Terms DEF RowsOK
    <3>3. stock' = stock + Out(sales[s])
      BY <1>5
    <3> QED
      BY <3>1, <3>2, <3>3
  <2> QED
    BY <1>0, <1>10, <2>1, <2>2, <2>3, SaleMoves
<1>14. (LinesNamed => AllSent)'
  <2>1. ASSUME NEW x \in Sales, Exists(sales'[x])
        PROVE  /\ x # s /\ sales'[x] = sales[x]
               /\ \A o \in Orders :
                     SentIn(orders'[o], Undone(o)', x) = SentIn(orders[o], Undone(o), x)
    <3>1. x # s /\ sales'[x] = sales[x]
      BY <1>6, <1>7, <2>1
    <3>2. ASSUME NEW o \in Orders
          PROVE  SentIn(orders'[o], Undone(o)', x) = SentIn(orders[o], Undone(o), x)
      BY <1>8, <1>9, <1>12, <3>1 DEF SentIn
    <3> QED
      BY <3>1, <3>2
  <2> QED
    BY <1>0, <2>1, CountersKept
<1> QED
  BY <1>10, <1>11, <1>13, <1>14 DEF IInv

-------------------------------------------------------------------------------
(* Dispatching an order, and reversing it.                                  *)

\* The counter of the line that an order names moves, and nothing else of the invoices.
LEMMA DeliveredMoves ==
    ASSUME RowsOK, NEW o \in Orders, NEW req, req.row = orders[o], NEW n \in Int,
           sales' = Delivered(req, n)
    PROVE  /\ sales' \in [Sales -> Sale]
           /\ \A s \in Sales :
                 /\ SaleOK(s, sales'[s])
                 /\ Exists(sales'[s]) <=> Exists(sales[s])
                 /\ sales'[s].qty = sales[s].qty /\ sales'[s].line = sales[s].line
                 /\ Out(sales'[s]) = Out(sales[s])
                 /\ sales'[s].delivered = IF orders[o].sale = s /\ orders[o].line # 0
                                          THEN sales[s].delivered + n
                                          ELSE sales[s].delivered
           /\ \A x \in Orders : OrderOK(orders[x], sales')
<1>1. OrderOK(orders[o], sales) /\ \A s \in Sales : SaleOK(s, sales[s]) /\ sales[s] \in Sale
  BY DEF RowsOK
<1>2. CASE orders[o].line = 0
  <2>1. sales' = sales
    BY <1>2 DEF Delivered
  <2> QED
    BY <1>1, <1>2, <2>1 DEF RowsOK
<1>3. CASE orders[o].line # 0
  <2>1. PICK s \in Sales : s = orders[o].sale
    BY <1>1, <1>3 DEF OrderOK
  <2>2. PICK new : new = [sales[s] EXCEPT !.delivered = @ + n]
    OBVIOUS
  <2>3. sales' = [sales EXCEPT ![s] = new]
    BY <1>3, <2>1, <2>2 DEF Delivered
  <2>4. sales'[s] = new /\ \A x \in Sales : x # s => sales'[x] = sales[x]
    BY <2>3 DEF RowsOK
  <2>5. sales[s].delivered + n \in Int
    BY <1>1 DEF Sale
  <2>6. /\ new.status = sales[s].status /\ new.qty = sales[s].qty
        /\ new.line = sales[s].line /\ new.relieved = sales[s].relieved
        /\ new.delivered = sales[s].delivered + n /\ new \in Sale
    BY <1>1, <2>2, <2>5 DEF Sale
  <2>7. <<"order", s>> \in Asked
    BY <1>1, <2>1 DEF OrderOK
  <2>8. /\ SaleOK(s, new) /\ (Exists(new) <=> Exists(sales[s])) /\ Out(new) = Out(sales[s])
    BY <1>1, <2>6, <2>7 DEF SaleOK, Exists, Out
  <2>9. sales' \in [Sales -> Sale]
    BY <2>3, <2>6 DEF RowsOK
  <2>10. ASSUME NEW x \in Sales
         PROVE  /\ SaleOK(x, sales'[x])
                /\ Exists(sales'[x]) <=> Exists(sales[x])
                /\ sales'[x].qty = sales[x].qty /\ sales'[x].line = sales[x].line
                /\ Out(sales'[x]) = Out(sales[x])
                /\ sales'[x].delivered = IF orders[o].sale = x /\ orders[o].line # 0
                                         THEN sales[x].delivered + n
                                         ELSE sales[x].delivered
    <3>1. CASE x = s
      BY <1>3, <2>1, <2>4, <2>6, <2>8, <3>1
    <3>2. CASE x # s
      BY <1>1, <2>1, <2>4, <3>2
    <3> QED
      BY <3>1, <3>2
  <2>11. \A x \in Orders : OrderOK(orders[x], sales')
    BY <2>10 DEF RowsOK, OrderOK
  <2> QED
    BY <2>9, <2>10, <2>11
<1> QED
  BY <1>2, <1>3

\* ... which is in the family of the order.
LEMMA DeliveredLeaves ==
    ASSUME RowsOK, NEW o \in Orders, NEW req, req.row = orders[o], NEW n \in Int,
           sales' = Delivered(req, n), \A x \in Orders : x # o => orders'[x] = orders[x]
    PROVE  Leaves(o)
<1>1. ASSUME NEW s \in Sales, s \notin Family(o)
      PROVE  sales'[s] = sales[s]
  <2>1. orders[o].sale # s
    <3>1. o \notin Sales
      BY DeliveryAssumption DEF DeliveryAssumption
    <3> QED
      BY <1>1, <3>1 DEF Family
  <2> QED
    BY <2>1 DEF Delivered, RowsOK
<1>2. ASSUME NEW x \in Orders, Family(x) \cap Family(o) = {}
      PROVE  orders'[x] = orders[x]
  BY <1>2 DEF Family
<1> QED
  BY <1>1, <1>2 DEF Leaves

\* The counter of every invoice moves with the quantity that its order sends, as clients
\* name the line.
LEMMA SentFollows ==
    ASSUME LinesNamed, AllSent, RowsOK, RowsOK', NEW o \in Orders, NEW n \in Int,
           \A s \in Sales :
              /\ Exists(sales'[s]) <=> Exists(sales[s])
              /\ sales'[s].qty = sales[s].qty
              /\ sales'[s].delivered = IF orders[o].sale = s /\ orders[o].line # 0
                                       THEN sales[s].delivered + n
                                       ELSE sales[s].delivered,
           \A s \in Sales : SentIn(orders'[o], Undone(o)', s)
              = SentIn(orders[o], Undone(o), s) + (IF orders[o].sale = s THEN n ELSE 0),
           \A s \in Sales, x \in Orders : x # o =>
              SentIn(orders'[x], Undone(x)', s) = SentIn(orders[x], Undone(x), s),
           \A s \in Sales : orders[o].sale = s => sales[s].delivered + n <= sales[s].qty
    PROVE  AllSent'
<1> SUFFICES ASSUME NEW s \in Sales, Exists(sales'[s])
             PROVE  /\ sales'[s].delivered = SentOn(s)'
                    /\ sales'[s].delivered <= sales'[s].qty
  BY DEF AllSent
<1>1. /\ sales[s].delivered = SentOn(s) /\ sales[s].delivered <= sales[s].qty
      /\ sales[s].delivered \in Int
  BY DEF AllSent, RowsOK, Sale
<1>2. SentOn(s)' = SentOn(s) - SentIn(orders[o], Undone(o), s)
                             + SentIn(orders'[o], Undone(o)', s)
  BY SentMoves
<1>3. SentIn(orders[o], Undone(o), s) \in Int /\ SentOn(s) \in Int
  BY Terms, UndoneType, OutType
<1>4. CASE orders[o].sale = s
  <2>1. orders[o].line # 0
    <3>1. Exists(sales[s]) /\ orders[o].line = sales[s].line
      BY <1>4 DEF RowsOK, OrderOK
    <3>2. sales[s].line > 0 /\ sales[s].line \in Nat
      BY <3>1 DEF RowsOK, SaleOK, Sale
    <3> QED
      BY <3>1, <3>2
  <2>2. SentIn(orders'[o], Undone(o)', s) = SentIn(orders[o], Undone(o), s) + n
    BY <1>4
  <2>3. SentOn(s)' = SentOn(s) + n
    BY <1>2, <1>3, <2>2
  <2> QED
    BY <1>1, <1>4, <2>1, <2>3
<1>5. CASE orders[o].sale # s
  <2>1. SentIn(orders'[o], Undone(o)', s) = SentIn(orders[o], Undone(o), s) + 0
    BY <1>5
  <2>2. SentOn(s)' = SentOn(s)
    BY <1>2, <1>3, <2>1
  <2> QED
    BY <1>1, <1>5, <2>2
<1> QED
  BY <1>4, <1>5

LEMMA OrderPostKeeps ==
    ASSUME FamiliesApart, IInv, NEW p \in Procs, OrderPostCommit(p)
    PROVE  IInv'
<1>0. RowsOK /\ AllServed /\ Balanced /\ (LinesNamed => AllSent)
  BY DEF IInv
<1>1. /\ reqs[p].stage = "tx" /\ reqs[p].op = "dispatch" /\ reqs[p] # Idle
      /\ "dispatch" \in OrderOps
  BY DEF OrderPostCommit, Committing, Idle, OrderOps
<1>2. PICK o \in Orders : o = reqs[p].id
  BY <1>1, OrderServed
<1>3. PICK old : old = orders[o]
  OBVIOUS
<1>4. /\ reqs[p].row = old /\ reqs[p].sale = SaleOf(old) /\ old.status # "posted"
      /\ old \in Order /\ OrderOK(old, sales)
      /\ Exists(SaleOf(old)) => old.qty <= Remaining(SaleOf(old))
  <2>1. reqs[p].row = old /\ reqs[p].sale = SaleOf(old) /\ OrderGuard(reqs[p])
    BY <1>1, <1>2, <1>3, OrderServed DEF InvoiceOf
  <2> QED
    BY <1>0, <1>1, <1>3, <2>1 DEF OrderGuard, Unposted, Shippable, RowsOK
<1>5. PICK relieves \in BOOLEAN : relieves = Relieves(SaleOf(old))
  BY DEF Relieves
<1>6. PICK new : new = [old EXCEPT !.status = "posted", !.relieves = relieves]
  OBVIOUS
<1>7. /\ stock' = stock - (IF relieves THEN old.qty ELSE 0)
      /\ sales' = Delivered(reqs[p], old.qty)
      /\ orders' = [orders EXCEPT ![o] = new]
      /\ Finish(p)
  BY <1>2, <1>3, <1>4, <1>5, <1>6 DEF OrderPostCommit
<1>8. /\ new.status = "posted" /\ new.relieves = relieves /\ new.sale = old.sale
      /\ new.qty = old.qty /\ new.line = old.line /\ new \in Order
  <2>1. "posted" \in Statuses
    BY DEF Statuses
  <2> QED
    BY <1>4, <1>6, <2>1 DEF Order
<1>9. orders'[o] = new /\ \A x \in Orders : x # o => orders'[x] = orders[x]
  BY <1>0, <1>7 DEF RowsOK
<1>10. old.qty \in Int
  BY <1>4 DEF Order
<1>11. /\ sales' \in [Sales -> Sale]
       /\ \A s \in Sales :
             /\ SaleOK(s, sales'[s])
             /\ Exists(sales'[s]) <=> Exists(sales[s])
             /\ sales'[s].qty = sales[s].qty /\ sales'[s].line = sales[s].line
             /\ Out(sales'[s]) = Out(sales[s])
             /\ sales'[s].delivered = IF orders[o].sale = s /\ orders[o].line # 0
                                      THEN sales[s].delivered + old.qty
                                      ELSE sales[s].delivered
       /\ \A x \in Orders : OrderOK(orders[x], sales')
  BY <1>0, <1>3, <1>4, <1>7, <1>10, DeliveredMoves
<1>12. AllServed' /\ ~Undone(o)' /\ \A x : x # o => Undone(x)' = Undone(x)
  <2>1. Leaves(o)
    BY <1>0, <1>3, <1>4, <1>7, <1>9, <1>10, DeliveredLeaves
  <2> QED
    BY <1>0, <1>1, <1>2, <1>7, <2>1, FinishServed
<1>14. RowsOK'
  <2>1. orders' \in [Orders -> Order]
    BY <1>0, <1>7, <1>8 DEF RowsOK
  <2>2. stock' \in Int
    <3>1. stock \in Int
      BY <1>0 DEF RowsOK
    <3>2. stock' = stock - (IF relieves THEN old.qty ELSE 0)
      BY <1>7
    <3> QED
      BY <1>10, <3>1, <3>2
  <2>3. \A x \in Orders : OrderOK(orders'[x], sales')
    <3>1. OrderOK(new, sales')
      BY <1>3, <1>8, <1>11 DEF OrderOK
    <3> QED
      BY <1>9, <1>11, <3>1
  <2> QED
    BY <1>11, <2>1, <2>2, <2>3 DEF RowsOK
<1>15. Balanced'
  <2>1. TakenIn(orders[o], Undone(o)) = 0
    BY <1>3, <1>4 DEF TakenIn
  <2>2. TakenIn(orders'[o], Undone(o)') = IF relieves THEN old.qty ELSE 0
    BY <1>8, <1>9, <1>12 DEF TakenIn
  <2>3. stock' = stock + TakenIn(orders[o], Undone(o)) - TakenIn(orders'[o], Undone(o)')
    <3>1. stock' = stock - (IF relieves THEN old.qty ELSE 0)
      BY <1>7
    <3>2. stock \in Int
      BY <1>0 DEF RowsOK
    <3> QED
      BY <1>10, <2>1, <2>2, <3>1, <3>2
  <2>4. \A x \in Orders : x # o =>
           TakenIn(orders'[x], Undone(x)') = TakenIn(orders[x], Undone(x))
    BY <1>9, <1>12
  <2>5. \A s \in Sales : Out(sales'[s]) = Out(sales[s])
    BY <1>11
  <2> QED
    BY <1>0, <1>14, <2>3, <2>4, <2>5, OrderMoves
<1>16. ASSUME LinesNamed, AllSent PROVE AllSent'
  <2>1. ASSUME NEW s \in Sales
        PROVE  SentIn(orders'[o], Undone(o)', s)
                 = SentIn(orders[o], Undone(o), s) + (IF orders[o].sale = s THEN old.qty ELSE 0)
    <3>1. SentIn(orders[o], Undone(o), s) = 0
      BY <1>3, <1>4 DEF SentIn
    <3>2. SentIn(orders'[o], Undone(o)', s) = IF orders[o].sale = s THEN old.qty ELSE 0
      BY <1>3, <1>8, <1>9, <1>12 DEF SentIn
    <3> QED
      BY <1>10, <3>1, <3>2
  <2>2. \A s \in Sales, x \in Orders : x # o =>
           SentIn(orders'[x], Undone(x)', s) = SentIn(orders[x], Undone(x), s)
    BY <1>9, <1>12
  <2>3. ASSUME NEW s \in Sales, orders[o].sale = s
        PROVE  sales[s].delivered + old.qty <= sales[s].qty
    <3>1. SaleOf(old) = sales[s] /\ Exists(sales[s])
      BY <1>3, <1>4, <2>3 DEF SaleOf, OrderOK
    <3>2. old.qty <= sales[s].qty - sales[s].delivered
      BY <1>4, <3>1 DEF Remaining
    <3>3. sales[s].qty \in Int /\ sales[s].delivered \in Int
      BY <1>0 DEF RowsOK, Sale
    <3> QED
      BY <1>10, <3>2, <3>3
  <2>4. \A s \in Sales :
           /\ Exists(sales'[s]) <=> Exists(sales[s])
           /\ sales'[s].qty = sales[s].qty
           /\ sales'[s].delivered = IF orders[o].sale = s /\ orders[o].line # 0
                                    THEN sales[s].delivered + old.qty
                                    ELSE sales[s].delivered
    BY <1>11
  <2> QED
    BY <1>0, <1>10, <1>14, <1>16, <2>1, <2>2, <2>3, <2>4, SentFollows
<1>17. (LinesNamed => AllSent)'
  BY <1>0, <1>16 DEF LinesNamed
<1> QED
  BY <1>12, <1>14, <1>15, <1>17 DEF IInv

LEMMA OrderReverseKeeps ==
    ASSUME FamiliesApart, IInv, NEW p \in Procs, OrderReverse(p)
    PROVE  IInv'
<1>0. RowsOK /\ AllServed /\ Balanced /\ (LinesNamed => AllSent)
  BY DEF IInv
<1>1. /\ reqs[p].stage = "checked" /\ reqs[p].op \in {"recall", "discard"} /\ reqs[p] # Idle
      /\ reqs[p].op \in OrderOps
  <2>1. reqs[p].stage = "checked" /\ reqs[p].op \in {"recall", "discard"}
    BY DEF OrderReverse, Committing
  <2> QED
    BY <2>1, NotIdle DEF OrderOps
<1>2. PICK o \in Orders : o = reqs[p].id
  BY <1>1, OrderServed
<1>3. PICK old : old = orders[o]
  OBVIOUS
<1>4. /\ reqs[p].row = old /\ old.status = "posted" /\ old \in Order /\ DOMAIN reqs[p] = Fields
  <2>1. reqs[p].row = old /\ DOMAIN reqs[p] = Fields
    BY <1>1, <1>2, <1>3, OrderServed
  <2>2. reqs[p].row.status = "posted"
    BY DEF OrderReverse
  <2> QED
    BY <1>0, <1>3, <2>1, <2>2 DEF RowsOK
<1>5. /\ stock' = stock + (IF old.relieves THEN old.qty ELSE 0)
      /\ sales' = Delivered(reqs[p], 0 - old.qty) /\ orders' = orders
      /\ reqs' = [reqs EXCEPT ![p].stage = "reversed"]
  BY <1>4 DEF OrderReverse
<1>6. PICK new : new = [reqs[p] EXCEPT !.stage = "reversed"]
  OBVIOUS
<1>7. /\ reqs'[p] = new /\ DOMAIN reqs' = Procs /\ Others(p)
      /\ new.stage = "reversed" /\ new.op = reqs[p].op /\ new.id = o /\ new.row = old
      /\ DOMAIN new = Fields
  <2>1. reqs'[p] = new /\ DOMAIN reqs' = Procs /\ Others(p)
    BY <1>0, <1>5, <1>6 DEF AllServed, Others
  <2>2. /\ new.stage = "reversed" /\ new.op = reqs[p].op /\ new.id = reqs[p].id
        /\ new.row = reqs[p].row /\ DOMAIN new = Fields
    BY <1>4, <1>6 DEF Fields
  <2> QED
    BY <1>2, <1>4, <2>1, <2>2
<1>8. ~Undone(o) /\ Undone(o)' /\ \A x \in Orders : x # o => Undone(x)' = Undone(x)
  <2>1. ~Undone(o)
    BY <1>1, <1>2, UndoneBy
  <2>2. Undone(o)'
    BY <1>7 DEF Undone
  <2>3. \A x \in Orders : x # o => Undone(x)' = Undone(x)
    BY <1>2, <1>7, UndoneElse
  <2> QED
    BY <2>1, <2>2, <2>3
<1>9. AllServed'
  <2>1. <<new.op, new.id>> \in Asked /\ Exists(new.row)
    <3>1. Serving(reqs[p])
      BY <1>0 DEF AllServed
    <3> QED
      BY <1>1, <1>2, <1>4, <1>7, <3>1 DEF Serving
  <2>2. ServesOrder(new)'
    BY <1>1, <1>3, <1>4, <1>5, <1>7 DEF ServesOrder
  <2>3. Serving(reqs[p])'
    BY <1>7, <2>1, <2>2 DEF Serving, Exists
  <2>4. Leaves(o)
    <3>1. old.qty \in Int /\ 0 - old.qty \in Int
      BY <1>4 DEF Order
    <3> QED
      BY <1>0, <1>3, <1>4, <1>5, <3>1, DeliveredLeaves
  <2> QED
    BY <1>0, <1>1, <1>2, <1>7, <2>3, <2>4, ServedAfter
<1>10. old.qty \in Int /\ 0 - old.qty \in Int
  BY <1>4 DEF Order
<1>11. /\ sales' \in [Sales -> Sale]
       /\ \A s \in Sales :
             /\ SaleOK(s, sales'[s])
             /\ Exists(sales'[s]) <=> Exists(sales[s])
             /\ sales'[s].qty = sales[s].qty /\ sales'[s].line = sales[s].line
             /\ Out(sales'[s]) = Out(sales[s])
             /\ sales'[s].delivered = IF orders[o].sale = s /\ orders[o].line # 0
                                      THEN sales[s].delivered + (0 - old.qty)
                                      ELSE sales[s].delivered
       /\ \A x \in Orders : OrderOK(orders[x], sales')
  BY <1>0, <1>3, <1>4, <1>5, <1>10, DeliveredMoves
<1>12. RowsOK'
  <2>1. stock' \in Int
    <3>1. stock \in Int
      BY <1>0 DEF RowsOK
    <3>2. stock' = stock + (IF old.relieves THEN old.qty ELSE 0)
      BY <1>5
    <3> QED
      BY <1>10, <3>1, <3>2
  <2> QED
    BY <1>0, <1>5, <1>11, <2>1 DEF RowsOK
<1>13. Balanced'
  <2>1. TakenIn(orders[o], Undone(o)) = IF old.relieves THEN old.qty ELSE 0
    BY <1>3, <1>4, <1>8 DEF TakenIn
  <2>2. TakenIn(orders'[o], Undone(o)') = 0
    BY <1>8 DEF TakenIn
  <2>3. stock' = stock + TakenIn(orders[o], Undone(o)) - TakenIn(orders'[o], Undone(o)')
    <3>1. stock' = stock + (IF old.relieves THEN old.qty ELSE 0)
      BY <1>5
    <3>2. stock \in Int
      BY <1>0 DEF RowsOK
    <3> QED
      BY <1>10, <2>1, <2>2, <3>1, <3>2
  <2>4. \A x \in Orders : x # o =>
           TakenIn(orders'[x], Undone(x)') = TakenIn(orders[x], Undone(x))
    BY <1>5, <1>8
  <2>5. \A s \in Sales : Out(sales'[s]) = Out(sales[s])
    BY <1>11
  <2> QED
    BY <1>0, <1>12, <2>3, <2>4, <2>5, OrderMoves
<1>14. ASSUME LinesNamed, AllSent PROVE AllSent'
  <2>1. ASSUME NEW s \in Sales
        PROVE  SentIn(orders'[o], Undone(o)', s)
                 = SentIn(orders[o], Undone(o), s) + (IF orders[o].sale = s THEN 0 - old.qty ELSE 0)
    <3>1. SentIn(orders[o], Undone(o), s) = IF orders[o].sale = s THEN old.qty ELSE 0
      BY <1>3, <1>4, <1>8 DEF SentIn
    <3>2. SentIn(orders'[o], Undone(o)', s) = 0
      BY <1>8 DEF SentIn
    <3> QED
      BY <1>10, <3>1, <3>2
  <2>2. \A s \in Sales, x \in Orders : x # o =>
           SentIn(orders'[x], Undone(x)', s) = SentIn(orders[x], Undone(x), s)
    BY <1>5, <1>8
  <2>3. ASSUME NEW s \in Sales, orders[o].sale = s
        PROVE  sales[s].delivered + (0 - old.qty) <= sales[s].qty
    <3>1. Exists(sales[s])
      BY <1>0, <2>3 DEF RowsOK, OrderOK
    <3>2. sales[s].delivered <= sales[s].qty
      BY <1>14, <3>1 DEF AllSent
    <3>3. sales[s].qty \in Int /\ sales[s].delivered \in Int
      BY <1>0 DEF RowsOK, Sale
    <3>4. old.qty >= 0
      BY <1>4 DEF Order
    <3> QED
      BY <1>10, <3>2, <3>3, <3>4
  <2>4. \A s \in Sales :
           /\ Exists(sales'[s]) <=> Exists(sales[s])
           /\ sales'[s].qty = sales[s].qty
           /\ sales'[s].delivered = IF orders[o].sale = s /\ orders[o].line # 0
                                    THEN sales[s].delivered + (0 - old.qty)
                                    ELSE sales[s].delivered
    BY <1>11
  <2> QED
    BY <1>0, <1>10, <1>12, <1>14, <2>1, <2>2, <2>3, <2>4, SentFollows
<1>15. (LinesNamed => AllSent)'
  BY <1>0, <1>14 DEF LinesNamed
<1> QED
  BY <1>9, <1>12, <1>13, <1>15 DEF IInv

-------------------------------------------------------------------------------
(* Every step.                                                              *)

LEMMA InitHolds ==
    ASSUME Init
    PROVE  IInv
<1>1. NoRow \in Sale /\ ~Exists(NoRow) /\ \A s \in Sales : SaleOK(s, NoRow)
  BY DEF NoRow, Sale, Statuses, Exists, SaleOK
<1>2. PICK none : none = [status |-> "absent", sale |-> NoSale, qty |-> 0, line |-> 0,
                          relieves |-> FALSE]
  OBVIOUS
<1>3. /\ sales = [s \in Sales |-> NoRow] /\ orders = [o \in Orders |-> none]
      /\ stock = InitialStock /\ reqs = [p \in Procs |-> Idle]
  BY <1>2 DEF Init
<1>4. NoSale \notin Sales /\ InitialStock \in Int /\ IsFiniteSet(Sales) /\ IsFiniteSet(Orders)
  BY DeliveryAssumption DEF DeliveryAssumption
<1>5. none \in Order /\ OrderOK(none, sales)
  BY <1>2, <1>4 DEF Order, Statuses, OrderOK
<1>6. RowsOK
  BY <1>1, <1>3, <1>4, <1>5 DEF RowsOK
<1>7. AllServed
  BY <1>3 DEF AllServed, Serving
<1>8. Balanced
  <2> DEFINE f == [s \in Sales |-> Out(sales[s])]
             g == [o \in Orders |-> TakenIn(orders[o], Undone(o))]
  <2>1. \A s \in Sales : f[s] = 0
    BY <1>3 DEF Out, NoRow
  <2>2. \A o \in Orders : g[o] = 0
    BY <1>2, <1>3 DEF TakenIn
  <2> HIDE DEF f, g
  <2>3. SumFunctionOnSet(f, Sales) = 0 /\ SumFunctionOnSet(g, Orders) = 0
    BY <1>4, <2>1, <2>2, SumZero
  <2>4. OutOfSales = 0 /\ OutOfOrders = 0
    BY <2>3 DEF f, g, OutOfSales, OutOfOrders
  <2> QED
    BY <1>3, <1>4, <2>4 DEF Balanced
<1>9. AllSent
  BY <1>1, <1>3 DEF AllSent
<1> QED
  BY <1>6, <1>7, <1>8, <1>9 DEF IInv

LEMMA StepKeeps ==
    ASSUME Orderly, FamiliesApart, IInv, [Next]_vars
    PROVE  IInv'
<1>0. ~Interruptions
  BY DEF Orderly
<1>1. ASSUME NEW s \in Sales, NEW qty \in Quantities, SaleCreate(s, qty)
      PROVE  IInv'
  BY <1>0, <1>1, SaleCreateKeeps
<1>2. ASSUME NEW o \in Orders, NEW s \in Sales \cup {NoSale}, NEW qty \in Quantities,
             NEW named \in NamesLine, OrderCreate(o, s, qty, named)
      PROVE  IInv'
  BY <1>0, <1>2, OrderCreateKeeps
<1>3. ASSUME NEW p \in Procs, NEW s \in Sales,
             \/ SalePostRead(p, s) \/ SaleRemoveRead(p, s) \/ SaleCancelRead(p, s)
             \/ SaleSubmitRead(p, s) \/ SaleRejectRead(p, s)
             \/ \E qty \in Quantities : SaleEditRead(p, s, qty)
      PROVE  IInv'
  BY <1>0, <1>3, SaleReadKeeps
<1>4. ASSUME NEW p \in Procs, NEW o \in Orders,
             \/ OrderPostRead(p, o) \/ OrderCancelRead(p, o) \/ OrderRemoveRead(p, o)
             \/ OrderSubmitRead(p, o) \/ OrderRejectRead(p, o)
             \/ \E s \in Sales \cup {NoSale}, qty \in Quantities, named \in NamesLine :
                   OrderChangeRead(p, o, s, qty, named)
      PROVE  IInv'
  BY <1>0, <1>4, OrderReadKeeps
<1>5. ASSUME NEW p \in Procs,
             \/ Begin(p)
             \/ SalePostCommit(p) \/ SaleEditCommit(p) \/ SaleRemoveCommit(p)
             \/ SaleCancelCommit(p) \/ SubmitCommit(p) \/ RejectCommit(p)
             \/ OrderChangeCommit(p) \/ OrderPostCommit(p) \/ OrderReverse(p)
             \/ OrderCancelCommit(p) \/ OrderRemoveCommit(p)
             \/ Fail(p)
      PROVE  IInv'
  <2>1. CASE Begin(p)
    BY <1>0, <2>1, BeginKeeps
  <2>2. CASE SalePostCommit(p)
    BY <1>0, <2>2, SalePostKeeps
  <2>3. CASE SaleEditCommit(p)
    BY <2>3, SaleEditKeeps
  <2>4. CASE SaleRemoveCommit(p)
    BY <1>0, <2>4, SaleRemoveKeeps
  <2>5. CASE SaleCancelCommit(p) \/ SubmitCommit(p) \/ RejectCommit(p)
    BY <1>0, <2>5, SaleStatusKeeps, OrderStatusKeeps
       DEF SaleCancelCommit, SubmitCommit, RejectCommit
  <2>6. CASE OrderChangeCommit(p)
    BY <1>0, <2>6, OrderChangeKeeps
  <2>7. CASE OrderPostCommit(p)
    BY <1>0, <2>7, OrderPostKeeps
  <2>8. CASE OrderReverse(p)
    BY <1>0, <2>8, OrderReverseKeeps
  <2>9. CASE OrderCancelCommit(p) \/ OrderRemoveCommit(p)
    BY <1>0, <2>9, OrderStatusKeeps
  <2>10. CASE Fail(p)
    BY <1>0, <2>10, FailKeeps
  <2> QED
    BY <1>5, <2>1, <2>2, <2>3, <2>4, <2>5, <2>6, <2>7, <2>8, <2>9, <2>10
<1>6. CASE SetLock \/ UNCHANGED vars
  BY <1>6, LockKeeps
<1> QED
  BY <1>1, <1>2, <1>3, <1>4, <1>5, <1>6 DEF Next

LEMMA InvariantHolds == Orderly => (Spec /\ []FamiliesApart => []IInv)
<1> SUFFICES ASSUME Orderly PROVE Spec /\ []FamiliesApart => []IInv
  OBVIOUS
<1>1. Init => IInv
  BY InitHolds
<1>2. IInv /\ FamiliesApart /\ [Next]_vars => IInv'
  BY StepKeeps
<1> QED
  BY <1>1, <1>2, PTL DEF Spec

-------------------------------------------------------------------------------
(* What is proved, for any number of invoices and orders and any quantities. *)

\* The stock is what it was at the start, less what the posted invoices and the posted
\* orders say they took out of it, as SalesService and DeliveryOrdersService move it while
\* the requests for one invoice and its orders follow each other.
THEOREM StockIsAccounted == Orderly => (Spec /\ []FamiliesApart => []StockAccounted)
<1> SUFFICES ASSUME Orderly PROVE Spec /\ []FamiliesApart => []StockAccounted
  OBVIOUS
<1>1. Spec /\ []FamiliesApart => []IInv
  BY InvariantHolds
<1>2. IInv => StockAccounted
  BY BalancedMeans DEF IInv
<1> QED
  BY <1>1, <1>2, PTL

\* Where clients name the line, the delivered quantity of an invoice is the sum of the
\* orders posted for it, which is what the checks of DeliveryOrdersService go by.
THEOREM DeliveryMatches == Orderly /\ LinesNamed => (Spec /\ []FamiliesApart => []DeliveredMatches)
<1> SUFFICES ASSUME Orderly, LinesNamed PROVE Spec /\ []FamiliesApart => []DeliveredMatches
  OBVIOUS
<1>1. Spec /\ []FamiliesApart => []IInv
  BY InvariantHolds
<1>2. IInv => DeliveredMatches
  BY SentMeans DEF IInv
<1> QED
  BY <1>1, <1>2, PTL

\* ... and no invoice is dispatched beyond its quantity, however many orders are raised
\* for it.
THEOREM NoneOverDispatched == Orderly /\ LinesNamed => (Spec /\ []FamiliesApart => []NeverOverDispatched)
<1> SUFFICES ASSUME Orderly, LinesNamed PROVE Spec /\ []FamiliesApart => []NeverOverDispatched
  OBVIOUS
<1>1. Spec /\ []FamiliesApart => []IInv
  BY InvariantHolds
<1>2. IInv => NeverOverDispatched
  BY SentMeans DEF IInv
<1> QED
  BY <1>1, <1>2, PTL
=============================================================================
