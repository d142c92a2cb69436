--------------------------------- MODULE Stock ---------------------------------
(***************************************************************************)
(* The stock ledger of one item: purchases, purchase returns, sales        *)
(* returns, transfers and the opening stock, each of which writes          *)
(* movements (InventoryTransaction) through InventoryService, and the      *)
(* vouchers that carry their value.  Three caches hang on the sequence of  *)
(* the movements: the running balance of every movement, the item's        *)
(* weighted-average cost and the value booked.                             *)
(*                                                                         *)
(* Every document has one line.  Costs are in the smallest amount the      *)
(* database stores.  A handler reads the document and checks it, and       *)
(* writes in a transaction with what it read (row).  The transaction reads *)
(* the stock and the average before it writes what follows from them, and  *)
(* nothing is locked in between: what it read is in seen, taken at once    *)
(* where the code has a query for each figure.  Goods leave by an invoice  *)
(* here as one movement: its own protocol is in Delivery.                  *)
(***************************************************************************)
EXTENDS Integers, Sequences, FiniteSets, SequencesExt

CONSTANTS
    Locations,
    Purchases, PurchaseReturns, SalesReturns, Transfers,  \* ids of documents
    Item, Invoice,  \* what opening movements and sold goods refer to
    NoDoc,          \* the document of a return raised without one
    NoCost,         \* a movement or an opening without a unit cost
    Quantities, Costs,
    Forms,          \* <<document, form>>: what clients send; only documents of
                    \* purchases have a cost, only a transfer two locations
    Sales,          \* <<location, quantity>>: what invoices take out
    Invoiced,       \* the quantity of the invoice that sales returns refer to
    AllowNegative,  \* the setting inventory.negative_stock
    Procs,          \* requests that may be in progress at the same time
    Asked,          \* <<operation, document>>: what clients ask for
    Undone,         \* the posted documents that clients delete
    Openings,       \* the opening stocks <<location, quantity, cost>> asked for
    Locking,        \* whether the administrator closes and reopens the period
    Overlap,        \* whether transactions on the stock may overlap
    Unread,         \* seen: the transaction has not read the stock
    MaxMovements    \* bound: no request starts that could write more

Docs == Purchases \cup PurchaseReturns \cup SalesReturns \cup Transfers
Ops  == {"post", "edit", "remove", "cancel", "submit", "reject"}

Form == [loc : Locations, to : Locations, qty : Quantities, cost : Costs \cup {NoCost},
         of : Purchases \cup {Invoice, NoDoc}]

ASSUME StockAssumption ==
    /\ Purchases \cap (PurchaseReturns \cup SalesReturns \cup Transfers) = {}
    /\ PurchaseReturns \cap (SalesReturns \cup Transfers) = {}
    /\ SalesReturns \cap Transfers = {}
    /\ {Item, Invoice, NoDoc} \cap Docs = {} /\ Item # Invoice /\ Invoice # NoDoc
    /\ NoCost \notin Int
    /\ Quantities \subseteq Nat \ {0} /\ Costs \subseteq Nat \ {0} /\ Invoiced \in Nat
    /\ Asked \subseteq Ops \X Docs /\ Undone \subseteq Docs
    /\ Openings \subseteq Locations \X (Quantities \cup {0}) \X (Costs \cup {NoCost})
    /\ Sales \subseteq Locations \X Quantities
    /\ Forms \subseteq Docs \X Form
    /\ \A q \in Forms :
          LET d == q[1]  f == q[2]
          IN  /\ d \in Purchases \cup PurchaseReturns <=> f.cost # NoCost
              /\ f.of \in Purchases => d \in PurchaseReturns
              /\ f.of = Invoice => d \in SalesReturns
              /\ d \notin Transfers => f.to = f.loc
    /\ AllowNegative \in BOOLEAN /\ Locking \in BOOLEAN /\ Overlap \in BOOLEAN
    /\ Invoice \notin Procs
    /\ MaxMovements \in Nat

VARIABLES
    docs,       \* the headers with their line; "of" is purchaseId or saleId
    movements,  \* table InventoryTransaction in the order of createdAt
    item,       \* averageCost, the opening columns and defaultLocationId
    booked,     \* document -> the amounts of the posted vouchers of its number
    locked,     \* whether fiscal.locked_until covers the documents
    reqs,
    seen        \* what the transaction of a request, or of a sale (Invoice), read of the
                \* stock

vars == <<docs, movements, item, booked, locked, reqs, seen>>
rows == <<docs, movements, item, booked, locked>>

Statuses == {"absent", "draft", "pending", "posted", "cancelled", "deleted"}
Movement == [doc : Docs \cup {Item, Invoice}, loc : Locations, qty : Int,
             cost : Int \cup {NoCost}, bal : Int]
Idle     == [stage |-> "idle"]

TypeOK ==
    /\ \A d \in Docs : /\ docs[d].status \in Statuses
                       /\ docs[d].status # "absent" => docs[d].form \in Form
    /\ movements \in Seq(Movement)
    /\ item \in [average : Int, loc : Locations, qty : Nat, cost : Costs \cup {NoCost}]
    /\ booked \in [Docs -> Seq(Int)]
    /\ locked \in BOOLEAN
    /\ \A p \in Procs :
          \/ reqs[p] = Idle
          \/ /\ reqs[p].stage \in {"checked", "repost"}
             /\ <<reqs[p].op, reqs[p].id>> \in Asked \cup ({"post"} \X Purchases)
             /\ reqs[p].row.status \in Statuses \ {"absent", "deleted"}

Init ==
    /\ docs = [d \in Docs |-> [status |-> "absent"]]
    /\ movements = <<>>
    /\ item \in [average : {0}, loc : Locations, qty : {0}, cost : {NoCost}]
    /\ booked = [d \in Docs |-> <<>>]
    /\ locked = FALSE
    /\ reqs = [p \in Procs |-> Idle]
    /\ seen = [x \in Procs \cup {Invoice} |-> Unread]

-------------------------------------------------------------------------------
(* InventoryService.                                                        *)

\* The sum of the quantities of some movements: getBalance and totalOnHand.
Total(ms, some) == SumFunctionOnSet([i \in DOMAIN ms |-> ms[i].qty], some)

Balance(ms, loc) == Total(ms, {i \in DOMAIN ms : ms[i].loc = loc})
OnHand(ms) == Total(ms, DOMAIN ms)

\* The balance that a movement leaves in its location.
BalanceAt(ms, i) == Total(ms, {j \in 1..i : ms[j].loc = ms[i].loc})

\* recordIn (qty > 0) and recordOut (qty < 0): a movement with the balance it leaves in
\* the table that was read.
Moved(ms, read, doc, loc, qty, cost) ==
    Append(ms, [doc |-> doc, loc |-> loc, qty |-> qty, cost |-> cost,
                bal |-> Balance(read, loc) + qty])

\* n / d as the column stores it: rounded to the nearest amount, halves away from 0.
Rounded(n, d) == IF n >= 0 THEN (2 * n + d) \div (2 * d) ELSE 0 - ((d - 2 * n) \div (2 * d))

\* Mutant: the new cost replaces the average.
MutantAveraged(average, before, qty, cost) == cost

\* updateAverageCost: the value on hand is spread over the units held and diluted by
\* what comes in.
Averaged(average, before, qty, cost) ==
    IF before + qty <= 0 THEN cost
    ELSE Rounded(average * before + cost * qty, before + qty)

\* What a movement makes of the average, an exact fraction num / den, and of the
\* quantity held.
Extended(h, m) ==
    LET after == h.held + m.qty
    IN  IF m.qty <= 0 \/ m.cost = NoCost THEN [h EXCEPT !.held = after]
        ELSE IF after <= 0 THEN [num |-> m.cost, den |-> 1, held |-> after]
        ELSE [num  |-> h.num * h.held + m.cost * m.qty * h.den,
              den  |-> h.den * after,
              held |-> after]

\* recomputeAverageCost: along the whole history.
History(ms) ==
    LET h[n \in 0..Len(ms)] ==
          IF n = 0 THEN [num |-> 0, den |-> 1, held |-> 0] ELSE Extended(h[n - 1], ms[n])
    IN  h[Len(ms)]

Recomputed(ms) == LET h == History(ms) IN Rounded(h.num, h.den)

\* Mutant: the rows are left as they are.
MutantRebalanced(ms, locs) == ms

\* recomputeBalances of some locations.
Rebalanced(ms, locs) ==
    [i \in DOMAIN ms |->
        IF ms[i].loc \in locs THEN [ms[i] EXCEPT !.bal = BalanceAt(ms, i)] ELSE ms[i]]

\* recordOut compares with the balance it read unless negative stock is allowed.
Enough(read, loc, qty) == AllowNegative \/ Balance(read, loc) >= qty

\* A transaction reads the stock, and ends.
Undisturbed == Overlap \/ \A x \in Procs \cup {Invoice} : seen[x] = Unread
ReadBy(x) == /\ seen[x] = Unread /\ Undisturbed
             /\ seen' = [seen EXCEPT ![x] = [table |-> movements, average |-> item.average]]
             /\ UNCHANGED <<docs, movements, item, booked, locked, reqs>>
Ended(x)  == seen' = [seen EXCEPT ![x] = Unread]

-------------------------------------------------------------------------------
(* Requests.                                                                *)

Exists(d)   == docs[d].status \notin {"absent", "deleted"}
Unposted(d) == docs[d].status \in {"draft", "pending"}

\* Posted returns of a purchase or of the invoice.
Returned(doc) ==
    {d \in PurchaseReturns \cup SalesReturns :
        docs[d].status = "posted" /\ docs[d].form.of = doc}
ReturnedQty(doc) == FoldSet(LAMBDA d, sum : docs[d].form.qty + sum, 0, Returned(doc))

\* A new document is a draft.
Create(d, form) ==
    /\ docs[d].status = "absent"
    /\ ~locked
    /\ docs' = [docs EXCEPT ![d] = [status |-> "draft", form |-> form]]
    /\ UNCHANGED <<movements, item, booked, locked, reqs, seen>>

PurchaseCreate(d, form) == d \in Purchases /\ Create(d, form)

\* A return is compared with what was bought, or sold, and not yet returned; the
\* status of that document is not asked for.  Only creation checks it.
PurchaseReturnCreate(d, form) ==
    /\ d \in PurchaseReturns
    /\ form.of # NoDoc => /\ Exists(form.of)
                          /\ form.qty <= docs[form.of].form.qty - ReturnedQty(form.of)
                          /\ form.loc = docs[form.of].form.loc
    /\ Create(d, form)

SalesReturnCreate(d, form) ==
    /\ d \in SalesReturns
    /\ form.of # NoDoc => form.qty <= Invoiced - ReturnedQty(Invoice)
    /\ Create(d, form)

TransferCreate(d, form) == d \in Transfers /\ form.loc # form.to /\ Create(d, form)

\* A request starts: it has read and checked the document.
Read(p, op, d, form) ==
    /\ <<op, d>> \in Asked
    /\ reqs[p] = Idle
    /\ Exists(d)
    /\ Len(movements) + 2 <= MaxMovements
    /\ reqs' = [reqs EXCEPT ![p] = [stage |-> "checked", op |-> op, id |-> d,
                                    row |-> docs[d], form |-> form]]
    /\ UNCHANGED rows /\ UNCHANGED seen

PostRead(p, d) == ~locked /\ Unposted(d) /\ Read(p, "post", d, docs[d].form)

Edit(p, d, form) ==
    ~locked /\ (form.of \in Purchases => Exists(form.of)) /\ Read(p, "edit", d, form)

\* Only a purchase may be edited after it was posted.
PurchaseEdit(p, d, form) ==
    d \in Purchases /\ docs[d].status \in {"draft", "posted"} /\ Edit(p, d, form)
PurchaseReturnEdit(p, d, form) ==
    d \in PurchaseReturns /\ docs[d].status = "draft" /\ Edit(p, d, form)
SalesReturnEdit(p, d, form) ==
    d \in SalesReturns /\ docs[d].status = "draft" /\ Edit(p, d, form)
TransferEdit(p, d, form) ==
    /\ d \in Transfers /\ docs[d].status = "draft" /\ form.loc # form.to
    /\ Edit(p, d, form)

Discard(p, d) ==
    /\ ~locked /\ docs[d].status # "cancelled" /\ (docs[d].status = "posted" => d \in Undone)
    /\ Read(p, "remove", d, docs[d].form)
TransferRemove(p, d) == d \in Transfers /\ docs[d].status = "draft" /\ Discard(p, d)

\* Cancelling what is cancelled changes nothing.
Cancel(p, d)         == ~locked /\ Unposted(d) /\ Read(p, "cancel", d, docs[d].form)
PurchaseCancel(p, d) == d \in Purchases /\ Cancel(p, d)
PurchaseReturnCancel(p, d) == d \in PurchaseReturns /\ Cancel(p, d)
SalesReturnCancel(p, d) == d \in SalesReturns /\ Cancel(p, d)
TransferCancel(p, d) == d \in Transfers /\ Cancel(p, d)

\* Submitting a draft for approval, and rejecting it; neither asks for the period.
Approval(p, d) == \/ docs[d].status = "draft" /\ Read(p, "submit", d, docs[d].form)
                  \/ docs[d].status = "pending" /\ Read(p, "reject", d, docs[d].form)
PurchaseApproval(p, d) == d \in Purchases /\ Approval(p, d)
PurchaseReturnApproval(p, d) == d \in PurchaseReturns /\ Approval(p, d)
SalesReturnApproval(p, d) == d \in SalesReturns /\ Approval(p, d)
TransferApproval(p, d) == d \in Transfers /\ Approval(p, d)

\* The handler returns, or throws.
Finish(p) == reqs' = [reqs EXCEPT ![p] = Idle]

\* A request commits what it was asked for; the rows it updates must be there.
Committing(p, op) == /\ reqs[p].stage = "checked" /\ reqs[p].op = op /\ Exists(reqs[p].id)
SetStatus(d, status) == docs' = [docs EXCEPT ![d].status = status]

\* What posts, and what undoes a posting, reads the stock first.
Moves(p) == reqs[p].op = "post" \/ reqs[p].row.status = "posted"
ReadStock(p) == reqs[p].stage = "checked" /\ Moves(p) /\ ReadBy(p)
HasRead(p) == seen[p] # Unread

\* The goods a purchase brings move the average; its value is booked.
PurchasePost(p) ==
    LET d == reqs[p].id  form == reqs[p].row.form  read == seen[p].table
    IN  /\ Committing(p, "post") /\ d \in Purchases /\ HasRead(p)
        /\ movements' = Moved(movements, read, d, form.loc, form.qty, form.cost)
        /\ item' = [item EXCEPT !.average =
                      Averaged(seen[p].average, OnHand(read), form.qty, form.cost)]
        /\ booked' = [booked EXCEPT ![d] = Append(@, form.qty * form.cost)]
        /\ SetStatus(d, "posted") /\ Finish(p) /\ Ended(p)
        /\ UNCHANGED locked

\* Eligibility is not checked again.
PurchaseReturnPost(p) ==
    LET d == reqs[p].id  form == reqs[p].row.form  read == seen[p].table
    IN  /\ Committing(p, "post") /\ d \in PurchaseReturns /\ HasRead(p)
        /\ Enough(read, form.loc, form.qty)
        /\ movements' = Moved(movements, read, d, form.loc, 0 - form.qty, form.cost)
        /\ booked' = [booked EXCEPT ![d] = Append(@, form.qty * form.cost)]
        /\ SetStatus(d, "posted") /\ Finish(p) /\ Ended(p)
        /\ UNCHANGED <<item, locked>>

\* The goods come back at the average, which stays as it is; their cost of sales is
\* reversed.
SalesReturnPost(p) ==
    LET d == reqs[p].id  form == reqs[p].row.form
        read == seen[p].table  cost == seen[p].average
    IN  /\ Committing(p, "post") /\ d \in SalesReturns /\ HasRead(p)
        /\ movements' = Moved(movements, read, d, form.loc, form.qty, cost)
        /\ item' = [item EXCEPT !.average = Averaged(cost, OnHand(read), form.qty, cost)]
        /\ booked' = [booked EXCEPT ![d] = Append(@, form.qty * cost)]
        /\ SetStatus(d, "posted") /\ Finish(p) /\ Ended(p)
        /\ UNCHANGED locked

\* A transaction sees what it wrote itself.
TransferPost(p) ==
    LET d == reqs[p].id  form == reqs[p].row.form  read == seen[p].table
        out  == Moved(movements, read, d, form.loc, 0 - form.qty, NoCost)
        left == Moved(read, read, d, form.loc, 0 - form.qty, NoCost)
    IN  /\ Committing(p, "post") /\ d \in Transfers /\ HasRead(p)
        /\ Enough(read, form.loc, form.qty)
        /\ movements' = Moved(out, left, d, form.to, form.qty, NoCost)
        /\ SetStatus(d, "posted") /\ Finish(p) /\ Ended(p)
        /\ UNCHANGED <<item, booked, locked>>

\* Mutant: the goods of a purchase stay.
MutantPurchaseReversed(read, d, form) == movements

\* What undoing a posted document writes: a purchase is taken out again, whatever is
\* on hand, and a return repeats its own movement, at no cost.
PurchaseReversed(read, d, form) ==
    Moved(movements, read, d, form.loc, 0 - form.qty, form.cost)
PurchaseReturnReversed(read, d, form) == Moved(movements, read, d, form.loc, 0 - form.qty, 0)
SalesReturnReversed(read, d, form) == Moved(movements, read, d, form.loc, form.qty, 0)

Reversed(read, d, row) ==
    IF row.status # "posted" THEN movements
    ELSE IF d \in Purchases THEN PurchaseReversed(read, d, row.form)
    ELSE IF d \in PurchaseReturns THEN PurchaseReturnReversed(read, d, row.form)
    ELSE SalesReturnReversed(read, d, row.form)

\* Mutant: the vouchers are left.
MutantUnbooked(d, row) == booked

\* ... and every voucher of its number is cancelled.
Unbooked(d, row) == IF row.status = "posted" THEN [booked EXCEPT ![d] = <<>>] ELSE booked

\* A posted purchase becomes a draft and is then posted by a call of its own.
EditCommit(p) ==
    LET d == reqs[p].id  row == reqs[p].row
    IN  /\ Committing(p, "edit") /\ (row.status = "posted" => HasRead(p))
        /\ movements' = Reversed(seen[p].table, d, row)
        /\ booked' = Unbooked(d, row)
        /\ docs' = [docs EXCEPT ![d].form = reqs[p].form,
                                ![d].status = IF row.status = "posted" THEN "draft" ELSE @]
        /\ IF row.status = "posted"
           THEN reqs' = [reqs EXCEPT ![p].stage = "repost", ![p].op = "post"]
           ELSE Finish(p)
        /\ Ended(p)
        /\ UNCHANGED <<item, locked>>

\* post reads and checks the purchase again.
Repost(p) ==
    /\ reqs[p].stage = "repost"
    /\ ~locked /\ Unposted(reqs[p].id)
    /\ reqs' = [reqs EXCEPT ![p].stage = "checked", ![p].row = docs[reqs[p].id]]
    /\ UNCHANGED rows /\ UNCHANGED seen

\* The returns of a deleted purchase lose the reference to it.
RemoveCommit(p) ==
    LET d == reqs[p].id  row == reqs[p].row
    IN  /\ Committing(p, "remove") /\ (row.status = "posted" => HasRead(p))
        /\ movements' = Reversed(seen[p].table, d, row)
        /\ booked' = Unbooked(d, row)
        /\ docs' = [e \in Docs |->
                      IF e = d THEN [docs[d] EXCEPT !.status = "deleted"]
                      ELSE IF docs[e].status # "absent" /\ docs[e].form.of = d
                      THEN [docs[e] EXCEPT !.form.of = NoDoc]
                      ELSE docs[e]]
        /\ Finish(p) /\ Ended(p)
        /\ UNCHANGED <<item, locked>>

StatusCommit(p, op, status) ==
    /\ Committing(p, op)
    /\ SetStatus(reqs[p].id, status) /\ Finish(p)
    /\ UNCHANGED <<movements, item, booked, locked, seen>>

Fail(p) == reqs[p] # Idle /\ Finish(p) /\ Ended(p) /\ UNCHANGED rows

\* An invoice or a delivery order takes goods out, in a transaction that reads what
\* there is first.
SaleRead  == Len(movements) < MaxMovements /\ ReadBy(Invoice)
SaleFails == HasRead(Invoice) /\ Ended(Invoice) /\ UNCHANGED rows /\ UNCHANGED reqs

Sell(loc, qty) ==
    /\ HasRead(Invoice)
    /\ Enough(seen[Invoice].table, loc, qty)
    /\ movements' = Moved(movements, seen[Invoice].table, Invoice, loc, 0 - qty, NoCost)
    /\ Ended(Invoice)
    /\ UNCHANGED <<docs, item, booked, locked, reqs>>

\* The opening columns are edited and the movement follows them, at the place its date
\* gives it: of an opening without a date the movement keeps its place, and a new one
\* is the last.  What comes after it is derived again, in the locations it left and
\* entered.  An opening of nothing at no cost has no movement.  The item's row, which
\* the transaction writes first, keeps two changes of the opening apart.
Opened(ms) == \E i \in DOMAIN ms : ms[i].doc = Item
OpeningAt(ms) == CHOOSE i \in DOMAIN ms : ms[i].doc = Item

SetOpening(loc, qty, cost, at) ==
    LET was  == Opened(movements)
        none == qty = 0 /\ (cost = NoCost \/ ~was)
        rest == IF was THEN RemoveAt(movements, OpeningAt(movements)) ELSE movements
        row  == [doc |-> Item, loc |-> loc, qty |-> qty, cost |-> cost, bal |-> qty]
        now  == IF none THEN rest ELSE InsertAt(rest, at, row)
    IN  /\ <<loc, qty, cost>> \in Openings
        /\ Len(movements) < MaxMovements
        /\ Undisturbed
        /\ at \in 1..Len(rest) + 1
        /\ movements' = Rebalanced(now,
                          (IF was THEN {movements[OpeningAt(movements)].loc} ELSE {})
                             \cup (IF none THEN {} ELSE {loc}))
        /\ item' = [average |-> Recomputed(now), loc |-> loc, qty |-> qty, cost |-> cost]
        /\ UNCHANGED <<docs, booked, locked, reqs, seen>>

SetLock ==
    /\ Locking
    /\ locked' = ~locked
    /\ UNCHANGED <<docs, movements, item, booked, reqs, seen>>

Next ==
    \/ \E f \in Forms :
          \/ PurchaseCreate(f[1], f[2]) \/ PurchaseReturnCreate(f[1], f[2])
          \/ SalesReturnCreate(f[1], f[2]) \/ TransferCreate(f[1], f[2])
          \/ \E p \in Procs :
                \/ PurchaseEdit(p, f[1], f[2]) \/ PurchaseReturnEdit(p, f[1], f[2])
                \/ SalesReturnEdit(p, f[1], f[2]) \/ TransferEdit(p, f[1], f[2])
    \/ \E p \in Procs, d \in Docs :
          \/ PostRead(p, d)
          \/ (d \notin Transfers /\ Discard(p, d)) \/ TransferRemove(p, d)
          \/ PurchaseCancel(p, d) \/ PurchaseReturnCancel(p, d)
          \/ SalesReturnCancel(p, d) \/ TransferCancel(p, d)
          \/ PurchaseApproval(p, d) \/ PurchaseReturnApproval(p, d)
          \/ SalesReturnApproval(p, d) \/ TransferApproval(p, d)
    \/ \E p \in Procs :
          \/ ReadStock(p)
          \/ PurchasePost(p) \/ PurchaseReturnPost(p) \/ SalesReturnPost(p) \/ TransferPost(p)
          \/ EditCommit(p) \/ Repost(p) \/ RemoveCommit(p)
          \/ StatusCommit(p, "cancel", "cancelled") \/ StatusCommit(p, "submit", "pending")
          \/ StatusCommit(p, "reject", "draft")
          \/ Fail(p)
    \/ SaleRead \/ SaleFails
    \/ \E s \in Sales : Sell(s[1], s[2])
    \/ \E o \in Openings : \E at \in 1..Len(movements) + 1 : SetOpening(o[1], o[2], o[3], at)
    \/ SetLock

Spec == Init /\ [][Next]_vars

-------------------------------------------------------------------------------
(* Correctness.                                                             *)

\* What a document in force does to a location.
Effect(d, row, loc) ==
    LET form == row.form
        in   == IF loc = form.to THEN form.qty ELSE 0
        out  == IF loc = form.loc THEN form.qty ELSE 0
    IN  IF row.status # "posted" THEN 0
        ELSE IF d \in PurchaseReturns THEN 0 - out
        ELSE IF d \in Transfers THEN in - out
        ELSE out

\* What the movements of a document did to it.
MovedBy(ms, doc, loc) == Total(ms, {i \in DOMAIN ms : ms[i].doc = doc /\ ms[i].loc = loc})

\* The last movement of a document.
Latest(ms, i, doc) ==
    i \in DOMAIN ms /\ ms[i].doc = doc /\ \A j \in DOMAIN ms : ms[j].doc = doc => j <= i

\* The warehouse holds what the documents in force and the opening columns say: over
\* any number of edits and deletions no movement is lost, repeated or left behind.
StockFollowsDocuments ==
    \A loc \in Locations :
        /\ \A d \in Docs : MovedBy(movements, d, loc) = Effect(d, docs[d], loc)
        /\ MovedBy(movements, Item, loc) = IF loc = item.loc THEN item.qty ELSE 0

\* "Each movement stores the balance it left behind": also after the opening, wherever
\* its date puts it, was changed, moved or dropped.
BalancesAreRunning ==
    \A i \in DOMAIN movements : movements[i].bal = BalanceAt(movements, i)

NeverShort == \A i \in DOMAIN movements : movements[i].bal >= 0

\* "Averages are stored so repeated movements do not drift": while nothing was ever
\* short, the average kept step by step is the one the history gives, up to half an
\* amount of rounding for each movement that brought goods, and one for the opening.
AverageFollowsHistory ==
    LET h == History(movements)
        n == Cardinality({i \in DOMAIN movements :
                            movements[i].qty > 0 /\ movements[i].cost # NoCost})
    IN  NeverShort => /\ 2 * (item.average * h.den - h.num) <= (n + 1) * h.den
                      /\ 2 * (h.num - item.average * h.den) <= (n + 1) * h.den

\* The amounts booked for a document are what its last movement was worth, or none.
BookedAs(ms, d, row, amounts) ==
    IF row.status # "posted" THEN amounts = <<>>
    ELSE \E i \in DOMAIN ms : Latest(ms, i, d) /\ amounts = <<row.form.qty * ms[i].cost>>

\* The value of a posted document is in one voucher, at the cost its goods moved at,
\* and an unposted one has none.
BookedOnce ==
    \A d \in Docs \ Transfers : BookedAs(movements, d, docs[d], booked[d])
=============================================================================
