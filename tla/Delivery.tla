------------------------------- MODULE Delivery -------------------------------
(***************************************************************************)
(* Sales invoices and the delivery orders that dispatch their goods:       *)
(* SalesService and DeliveryOrdersService on the stock of one item in one  *)
(* warehouse.  Either document may take the goods out of the warehouse,    *)
(* "once and only once per line"; every invoice and every order here has   *)
(* one line.  The money of an invoice is in Payments.                      *)
(*                                                                         *)
(* A handler reads the documents and checks them before its transaction    *)
(* (row, sale) and writes with what it read.  recordOut compares with a    *)
(* balance that it reads in the transaction (seen) before it inserts its   *)
(* movement.  Cancelling and deleting a posted order first commits a       *)
(* reversal and then, by itself, the change of the order.                  *)
(***************************************************************************)
EXTENDS Integers, FiniteSets, Functions

CONSTANTS
    Sales, Orders,  \* ids of the invoices and of the delivery orders
    NoSale,         \* the invoice of an order raised without one
    Quantities,     \* the quantities clients ask for
    InitialStock,   \* what is in the warehouse at the start
    Procs,          \* requests that may be in progress at the same time
    Serves,         \* the documents whose requests a process serves
    Asked,          \* <<operation, document>>: what clients ask for ("order": an order for it)
    NamesLine,      \* whether clients say which invoice line an order settles
    Locking,        \* whether the administrator closes and reopens the period
    Interruptions,  \* whether a request may stop after its reversal committed
    MaxLines        \* bound: no edit of an invoice starts after so many

SaleOps  == {"post", "edit", "remove", "cancel", "submit", "reject"}
OrderOps == {"dispatch", "change", "recall", "discard", "submit order", "reject order"}

ASSUME DeliveryAssumption ==
    /\ Sales \cap Orders = {} /\ NoSale \notin Sales
    /\ IsFiniteSet(Sales) /\ IsFiniteSet(Orders)
    /\ Quantities \subseteq Nat \ {0}
    /\ InitialStock \in Nat
    /\ Serves \in [Procs -> SUBSET (Sales \cup Orders)]
    /\ Asked \subseteq (SaleOps \X Sales) \cup (OrderOps \X Orders)
                         \cup ({"order"} \X (Sales \cup {NoSale}))
    /\ NamesLine \in SUBSET BOOLEAN
    /\ Locking \in BOOLEAN /\ Interruptions \in BOOLEAN
    /\ MaxLines \in Nat

VARIABLES
    sales,          \* tables Sale and SaleItem; line is the id of the row of SaleItem
    orders,         \* tables DeliveryOrder and DeliveryOrderItem; line is
                    \* saleItemId, 0 for null; relieves is stockRelieved
    stock,          \* the sum of the movements, as getBalance returns it
    locked,         \* whether fiscal.locked_until covers the documents
    reqs

vars == <<sales, orders, stock, locked, reqs>>
rows == <<sales, orders, stock, locked>>

Statuses == {"absent", "draft", "pending", "posted", "cancelled", "deleted"}
Sale     == [status : Statuses, qty : Nat, line : Nat, delivered : Int, relieved : Nat,
             postedAt : BOOLEAN]
Order    == [status : Statuses, sale : Sales \cup {NoSale}, qty : Nat, line : Nat,
             relieves : BOOLEAN]
Idle     == [stage |-> "idle"]
NoRow    == [status |-> "absent", qty |-> 0, line |-> 0, delivered |-> 0, relieved |-> 0,
             postedAt |-> FALSE]

TypeOK ==
    /\ sales \in [Sales -> Sale]
    /\ orders \in [Orders -> Order]
    /\ stock \in Int
    /\ locked \in BOOLEAN
    /\ \A p \in Procs :
          \/ reqs[p] = Idle
          \/ /\ reqs[p].stage \in {"checked", "tx", "reversed"}
             /\ \/ reqs[p].op \in SaleOps /\ reqs[p].id \in Sales /\ reqs[p].row \in Sale
                \/ reqs[p].op \in OrderOps /\ reqs[p].id \in Orders /\ reqs[p].row \in Order
             /\ reqs[p].sale \in Sale
             /\ reqs[p].seen \in Int

Init ==
    /\ sales = [s \in Sales |-> NoRow]
    /\ orders = [o \in Orders |-> [status |-> "absent", sale |-> NoSale, qty |-> 0,
                                   line |-> 0, relieves |-> FALSE]]
    /\ stock = InitialStock
    /\ locked = FALSE
    /\ reqs = [p \in Procs |-> Idle]

-------------------------------------------------------------------------------
Exists(doc) == doc.status \notin {"absent", "deleted"}

\* What an invoice line still has to dispatch, or to relieve when it is posted.
Remaining(sale) == sale.qty - sale.delivered

\* The invoice of an order, NoRow if it has none.
SaleOf(order) == IF order.sale \in Sales THEN sales[order.sale] ELSE NoRow

\* A request starts: it has read the document and, for an order, its invoice.
Read(p, op, id, row, sale, new) ==
    /\ <<op, id>> \in Asked
    /\ id \in Serves[p]
    /\ reqs[p] = Idle
    /\ Exists(row)
    /\ reqs' = [reqs EXCEPT ![p] = [stage |-> "checked", op |-> op, id |-> id,
                                    row |-> row, sale |-> sale, new |-> new,
                                    seen |-> 0]]
    /\ UNCHANGED rows

SaleRead(p, op, s, new) == Read(p, op, s, sales[s], NoRow, new)
OrderRead(p, op, o, new) == Read(p, op, o, orders[o], SaleOf(orders[o]), new)

Unposted(doc) == doc.status \in {"draft", "pending"}

\* Invoices.

SaleCreate(s, qty) ==
    /\ sales[s].status = "absent"
    /\ ~locked
    /\ sales' = [sales EXCEPT ![s] = [NoRow EXCEPT !.status = "draft", !.qty = qty,
                                                   !.line = 1]]
    /\ UNCHANGED <<orders, stock, locked, reqs>>

SalePostRead(p, s) == ~locked /\ Unposted(sales[s]) /\ SaleRead(p, "post", s, NoRow)

SaleEditRead(p, s, qty) ==
    /\ ~locked
    /\ sales[s].status \in {"draft", "posted"}
    /\ sales[s].line < MaxLines
    /\ SaleRead(p, "edit", s, [qty |-> qty])

SaleRemoveRead(p, s) ==
    ~locked /\ sales[s].status # "cancelled" /\ SaleRead(p, "remove", s, NoRow)

SaleCancelRead(p, s) == ~locked /\ Unposted(sales[s]) /\ SaleRead(p, "cancel", s, NoRow)

SaleSubmitRead(p, s) == sales[s].status = "draft" /\ SaleRead(p, "submit", s, NoRow)
SaleRejectRead(p, s) ==
    /\ sales[s].status = "pending" /\ ~sales[s].postedAt
    /\ SaleRead(p, "reject", s, NoRow)

\* Delivery orders.

\* Mutant: the quantity is not compared with the invoice.
MutantShippable(sale, qty) == TRUE

\* An order is checked against its invoice line, found by its id or by the item.
\* (Creation is one step here: dispatching repeats its check.)
Shippable(sale, qty) == qty <= Remaining(sale)

OrderCreate(o, s, qty, named) ==
    /\ <<"order", s>> \in Asked
    /\ orders[o].status = "absent"
    /\ ~locked
    /\ s # NoSale => /\ Exists(sales[s]) /\ sales[s].status # "cancelled"
                     /\ Shippable(sales[s], qty)
    /\ orders' = [orders EXCEPT ![o] =
                    [status |-> "draft", sale |-> s, qty |-> qty, relieves |-> FALSE,
                     line |-> IF s # NoSale /\ named THEN sales[s].line ELSE 0]]
    /\ UNCHANGED <<sales, stock, locked, reqs>>

\* A draft may be pointed at another invoice (s) that was ever created, whatever has
\* become of it; without one it keeps its own.
OrderChangeRead(p, o, s, qty, named) ==
    LET to   == IF s = NoSale THEN orders[o].sale ELSE s
        sale == IF to \in Sales THEN sales[to] ELSE NoRow
    IN  /\ s # NoSale => <<"order", s>> \in Asked /\ sales[s].status # "absent"
        /\ ~locked
        /\ orders[o].status = "draft"
        /\ Exists(sale) => Shippable(sale, qty)
        /\ Read(p, "change", o, orders[o], sale,
                [sale |-> to, qty |-> qty,
                 line |-> IF Exists(sale) /\ named THEN sale.line ELSE 0])

\* The invoice may have moved since the order was raised; a cancelled one is not
\* refused here.
OrderPostRead(p, o) ==
    LET sale == SaleOf(orders[o])
    IN  /\ ~locked
        /\ Unposted(orders[o])
        /\ Exists(sale) => Shippable(sale, orders[o].qty)
        /\ OrderRead(p, "dispatch", o, NoRow)

\* Cancelling and deleting an order ask nothing of the fiscal period.
OrderCancelRead(p, o) ==
    orders[o].status # "cancelled" /\ OrderRead(p, "recall", o, NoRow)
OrderRemoveRead(p, o) == OrderRead(p, "discard", o, NoRow)

OrderSubmitRead(p, o) ==
    orders[o].status = "draft" /\ OrderRead(p, "submit order", o, NoRow)
OrderRejectRead(p, o) ==
    orders[o].status = "pending" /\ OrderRead(p, "reject order", o, NoRow)

-------------------------------------------------------------------------------
(* Transactions.                                                            *)

\* The handler returns, or throws.
Finish(p) == reqs' = [reqs EXCEPT ![p] = Idle]

\* A transaction that moves stock opens and reads the balance.
Begin(p) ==
    /\ reqs[p].stage = "checked"
    /\ reqs[p].op \in {"post", "edit", "dispatch"}
    /\ reqs' = [reqs EXCEPT ![p].stage = "tx", ![p].seen = stock]
    /\ UNCHANGED rows

Committing(p, op, stage) ==
    /\ reqs[p].stage = stage
    /\ reqs[p].op = op
    /\ Exists(IF op \in SaleOps THEN sales[reqs[p].id] ELSE orders[reqs[p].id])

\* recordOut, unless negative stock is allowed (which no instance does).
Available(balance, qty) == qty <= balance

\* The row of the line that a request read is still there.
SameLine(s, line) == Exists(sales[s]) /\ sales[s].line = line

\* What posting takes out: what no delivery order has dispatched.
ToRelieve(sale) == IF Remaining(sale) > 0 THEN Remaining(sale) ELSE 0

SalePostCommit(p) ==
    LET req  == reqs[p]
        take == ToRelieve(req.row)
    IN  /\ Committing(p, "post", "tx")
        /\ take > 0 => Available(req.seen, take) /\ SameLine(req.id, req.row.line)
        /\ stock' = stock - take
        /\ sales' = [sales EXCEPT ![req.id].status = "posted",
                                  ![req.id].postedAt = TRUE,
                                  ![req.id].relieved = IF take > 0 THEN take ELSE @]
        /\ Finish(p)
        /\ UNCHANGED <<orders, locked>>

\* Deleting a row of SaleItem sets saleItemId to null in the order lines that point
\* at it.
Unlinked(s, line) ==
    [o \in Orders |-> IF orders[o].sale = s /\ orders[o].line = line
                      THEN [orders[o] EXCEPT !.line = 0]
                      ELSE orders[o]]

\* Mutant: nothing is put back.
MutantPutBack(sale) == 0

\* What reversing an invoice puts back: what it says it relieved.
PutBack(sale) == IF sale.status = "posted" THEN sale.relieved ELSE 0

\* The lines are deleted and created again: the new line gets the history that was
\* read before the reversal.  The orders of the old line are pointed at the new one
\* only after the deletion has cut them off, so none is.  A posted invoice is then
\* posted again in the same transaction.
SaleEditCommit(p) ==
    LET req  == reqs[p]
        row  == req.row
        back == PutBack(row)
        new  == [sales[req.id] EXCEPT !.qty = req.new.qty, !.line = @ + 1,
                                      !.delivered = row.delivered, !.relieved = row.relieved]
        take == IF row.status = "posted" THEN ToRelieve(new) ELSE 0
    IN  /\ Committing(p, "edit", "tx")
        /\ back > 0 => SameLine(req.id, row.line)
        /\ take > 0 => Available(req.seen + back, take)
        /\ stock' = stock + back - take
        /\ sales' = [sales EXCEPT ![req.id] =
                       [new EXCEPT !.status = IF row.status = "posted" THEN "posted" ELSE @,
                                   !.postedAt = @ \/ row.status = "posted",
                                   !.relieved = IF take > 0 THEN take ELSE @]]
        /\ orders' = Unlinked(req.id, sales[req.id].line)
        /\ Finish(p)
        /\ UNCHANGED locked

\* The lines go with the invoice, and its orders lose the reference to it.
SaleRemoveCommit(p) ==
    LET req  == reqs[p]
        back == PutBack(req.row)
    IN  /\ Committing(p, "remove", "checked")
        /\ back > 0 => SameLine(req.id, req.row.line)
        /\ stock' = stock + back
        /\ sales' = [sales EXCEPT ![req.id] = [NoRow EXCEPT !.status = "deleted"]]
        /\ orders' = [o \in Orders |->
                        IF orders[o].sale = req.id
                        THEN [orders[o] EXCEPT !.sale = NoSale, !.line = 0]
                        ELSE orders[o]]
        /\ Finish(p)
        /\ UNCHANGED locked

\* One UPDATE of the status of an invoice or of an order.
SetStatus(p, op, stage, status) ==
    LET id == reqs[p].id
    IN  /\ Committing(p, op, stage)
        /\ IF op \in SaleOps
           THEN sales' = [sales EXCEPT ![id].status = status] /\ UNCHANGED orders
           ELSE orders' = [orders EXCEPT ![id].status = status] /\ UNCHANGED sales
        /\ Finish(p)
        /\ UNCHANGED <<stock, locked>>

SaleCancelCommit(p) == SetStatus(p, "cancel", "checked", "cancelled")

SubmitCommit(p) == \/ SetStatus(p, "submit", "checked", "pending")
                   \/ SetStatus(p, "submit order", "checked", "pending")

RejectCommit(p) == \/ SetStatus(p, "reject", "checked", "draft")
                   \/ SetStatus(p, "reject order", "checked", "draft")

\* The lines of the order are replaced, whatever its status is by now; what it points
\* at must be there.
OrderChangeCommit(p) ==
    LET req == reqs[p]
    IN  /\ Committing(p, "change", "checked")
        /\ req.new.sale # NoSale => Exists(sales[req.new.sale])
        /\ req.new.line # 0 => SameLine(req.new.sale, req.new.line)
        /\ orders' = [orders EXCEPT ![req.id].sale = req.new.sale,
                                    ![req.id].qty = req.new.qty,
                                    ![req.id].line = req.new.line]
        /\ Finish(p)
        /\ UNCHANGED <<sales, stock, locked>>

\* Mutant: the dispatch is not recorded.
MutantDelivered(req, qty) == sales

\* deliveredQuantity is incremented by the database, on the line the order names.
Delivered(req, qty) ==
    IF req.row.line = 0 THEN sales
    ELSE [sales EXCEPT ![req.row.sale].delivered = @ + qty]

\* The order takes the goods out unless the invoice was posted when it was read.
Relieves(sale) == sale.status # "posted"

OrderPostCommit(p) ==
    LET req  == reqs[p]
        take == IF Relieves(req.sale) THEN req.row.qty ELSE 0
    IN  /\ Committing(p, "dispatch", "tx")
        /\ take > 0 => Available(req.seen, take)
        /\ req.row.line # 0 => SameLine(req.row.sale, req.row.line)
        /\ stock' = stock - take
        /\ sales' = Delivered(req, req.row.qty)
        /\ orders' = [orders EXCEPT ![req.id].status = "posted",
                                    ![req.id].relieves = Relieves(req.sale)]
        /\ Finish(p)
        /\ UNCHANGED locked

\* The transaction of reversePostedEffects.
OrderReverse(p) ==
    LET req == reqs[p]
    IN  /\ \/ Committing(p, "recall", "checked")
           \/ Committing(p, "discard", "checked")
        /\ req.row.status = "posted"
        /\ req.row.line # 0 => SameLine(req.row.sale, req.row.line)
        /\ stock' = stock + (IF req.row.relieves THEN req.row.qty ELSE 0)
        /\ sales' = Delivered(req, 0 - req.row.qty)
        /\ reqs' = [reqs EXCEPT ![p].stage = "reversed"]
        /\ UNCHANGED <<orders, locked>>

\* ... and the statement after it.
LastStage(p) == IF reqs[p].row.status = "posted" THEN "reversed" ELSE "checked"

OrderCancelCommit(p) ==
    reqs[p] # Idle /\ SetStatus(p, "recall", LastStage(p), "cancelled")

OrderRemoveCommit(p) ==
    /\ reqs[p] # Idle
    /\ Committing(p, "discard", LastStage(p))
    /\ orders' = [orders EXCEPT ![reqs[p].id].status = "deleted"]
    /\ Finish(p)
    /\ UNCHANGED <<sales, stock, locked>>

Fail(p) ==
    /\ reqs[p] # Idle
    /\ reqs[p].stage = "reversed" => Interruptions
    /\ Finish(p)
    /\ UNCHANGED rows

\* The administrator closes or reopens the period while nothing is in progress.
SetLock ==
    /\ Locking
    /\ \A p \in Procs : reqs[p] = Idle
    /\ locked' = ~locked
    /\ UNCHANGED <<sales, orders, stock, reqs>>

Next ==
    \/ \E s \in Sales, qty \in Quantities : SaleCreate(s, qty)
    \/ \E o \in Orders, s \in Sales \cup {NoSale}, qty \in Quantities, named \in NamesLine :
          OrderCreate(o, s, qty, named)
    \/ \E p \in Procs, s \in Sales :
          \/ SalePostRead(p, s) \/ SaleRemoveRead(p, s) \/ SaleCancelRead(p, s)
          \/ SaleSubmitRead(p, s) \/ SaleRejectRead(p, s)
          \/ \E qty \in Quantities : SaleEditRead(p, s, qty)
    \/ \E p \in Procs, o \in Orders :
          \/ OrderPostRead(p, o) \/ OrderCancelRead(p, o) \/ OrderRemoveRead(p, o)
          \/ OrderSubmitRead(p, o) \/ OrderRejectRead(p, o)
          \/ \E s \in Sales \cup {NoSale}, qty \in Quantities, named \in NamesLine :
                OrderChangeRead(p, o, s, qty, named)
    \/ \E p \in Procs :
          \/ Begin(p)
          \/ SalePostCommit(p) \/ SaleEditCommit(p) \/ SaleRemoveCommit(p)
          \/ SaleCancelCommit(p) \/ SubmitCommit(p) \/ RejectCommit(p)
          \/ OrderChangeCommit(p) \/ OrderPostCommit(p) \/ OrderReverse(p)
          \/ OrderCancelCommit(p) \/ OrderRemoveCommit(p)
          \/ Fail(p)
    \/ SetLock

Spec == Init /\ [][Next]_vars

-------------------------------------------------------------------------------
(* Correctness.                                                             *)

\* Orders in force: posted, and not reversed by a request that is about to cancel
\* or delete them.
InForce == {o \in Orders : /\ orders[o].status = "posted"
                           /\ \A p \in Procs : reqs[p].stage = "reversed" => reqs[p].id # o}
OrdersOf(s)   == {o \in InForce : orders[o].sale = s}
Posted        == {s \in Sales : sales[s].status = "posted"}
Shipped(some) == SumFunction([o \in some |-> orders[o].qty])
TakenBy(some) == Shipped({o \in some : orders[o].relieves})

\* The warehouse misses exactly what the documents in force say they took out: no
\* movement is lost, repeated or put back twice.
StockAccounted ==
    stock = InitialStock - SumFunction([s \in Posted |-> sales[s].relieved])
                         - TakenBy(InForce)

\* "The stock is relieved once and only once per line": the goods of a posted
\* invoice are out of the warehouse, taken by the invoice or by its orders.  The code does
\* not have it: an order that is recalled after its invoice was posted puts them back.
RelievedOnce ==
    \A s \in Posted : sales[s].relieved + TakenBy(OrdersOf(s)) = sales[s].qty

\* The dispatched quantity that an invoice shows is what its orders dispatched.
DeliveredMatches ==
    \A s \in Sales : Exists(sales[s]) => sales[s].delivered = Shipped(OrdersOf(s))

\* "An order can never ship more than was invoiced - not even across two orders
\* raised for the same invoice."
NeverOverDispatched ==
    \A s \in Sales : Exists(sales[s]) => Shipped(OrdersOf(s)) <= sales[s].qty

\* Nothing is taken out that is not there.
StockNeverNegative == stock >= 0
=============================================================================
