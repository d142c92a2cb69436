------------------------------ MODULE Quotations ------------------------------
(***************************************************************************)
(* QuotationsService and the QuotationPage of a browser.  An offer is      *)
(* drawn up, sent, decided by the customer and turned into a draft      *)
(* invoice.                                                                *)
(*                                                                         *)
(* A page shows the rows of its last fetch, however old, and none before   *)
(* the first answer to its query: when it is opened, and after its user    *)
(* turned to other rows.  The form of an edit is a copy of a shown row.    *)
(* That a list query fails is not modelled.                                *)
(*                                                                         *)
(* The server reads a quotation, checks it, and writes what it decided     *)
(* without reading it again.  A request is read in the step that sends it, *)
(* which a row as old as one likes leads to; one that its first check      *)
(* refuses changes nothing.                                                *)
(*                                                                         *)
(* What is offered is the total of its lines, 0 for no lines, and the      *)
(* discount on the whole.  Invoices are cancelled and deleted, but not     *)
(* edited; a posted one may be deleted like a draft and is a draft here.    *)
(***************************************************************************)
EXTENDS Integers, FiniteSets

CONSTANTS
    Ids,         \* ids of quotations
    Invoices,    \* ids of invoices
    NoInvoice,   \* convertedSaleId of a quotation that was not converted
    Users,       \* each with a page open; a page waits for the answer to what it sent
    Others,      \* users whose pages may show anything, and may ask for anything
    Lines,       \* the totals of lines that users type
    Discounts,   \* the discounts that they type
    Overlap,     \* whether the server serves two requests at the same time
    MaxWrites    \* bound: no edit is begun of a quotation that was written so often

ASSUME QuotationsAssumption ==
    /\ NoInvoice \notin Invoices
    /\ Lines \subseteq Nat /\ Discounts \subseteq Nat
    /\ Overlap \in BOOLEAN /\ MaxWrites \in Nat

VARIABLES
    quotations,  \* table Quotation with its items
    invoices,    \* table Sale, as far as it comes from quotations
    shown,       \* user -> the rows on the page
    fetching,    \* user -> the list query that is underway
    missed,      \* user -> a change was reported before the first answer to the query
    dialog,      \* user -> the form or the dialog that is open
    reqs,        \* user or other -> the mutation that is underway
    wrote        \* history: user -> the writes of a quotation that answers to it reported

tables == <<quotations, invoices>>
pageVars == <<shown, fetching, missed, dialog>>
vars == <<tables, pageVars, reqs, wrote>>

Clients == Users \cup Others

Content == [lines : Nat, discount : Nat]
Row     == [status : {"absent", "draft", "sent", "accepted", "rejected", "deleted"},
            content : Content, sale : Invoices \cup {NoInvoice}, updatedAt : Nat]
Invoice == [status : {"absent", "draft", "cancelled", "deleted"},
            content : Content, quotation : Ids \cup {NoInvoice}]
Rows    == [Ids -> Row]

Operations == {"create", "update", "send", "accept", "reject", "convert", "remove"}
Idle     == [stage |-> "none"]
NoDialog == [kind |-> "none"]
NoLines  == [lines |-> 0, discount |-> 0]
Blank    == [status |-> "absent", content |-> NoLines, sale |-> NoInvoice, updatedAt |-> 0]
NoRows   == [q \in Ids |-> Blank]

IsDialog(d) ==
    \/ d = NoDialog
    \/ d.kind = "new" /\ d.content \in Content
    \/ d.kind = "edit" /\ d.id \in Ids /\ d.content \in Content
    \/ d.kind \in {"reject", "convert", "remove"} /\ d.id \in Ids

IsFetch(f) == f = Idle \/ (f.stage \in {"first", "again"} /\ f.rows \in Rows)

IsRequest(r) ==
    \/ r = Idle
    \/ /\ r.stage = "checked" /\ r.id \in Ids
       /\ r.op \in Operations
       /\ r.content \in Content /\ r.row \in Row
    \/ r.stage = "done" /\ r.id \in Ids /\ r.updatedAt \in Nat

TypeOK ==
    /\ quotations \in Rows
    /\ invoices \in [Invoices -> Invoice]
    /\ shown \in [Users -> Rows]
    /\ DOMAIN fetching = Users /\ DOMAIN dialog = Users /\ DOMAIN reqs = Clients
    /\ \A u \in Users : IsFetch(fetching[u]) /\ IsDialog(dialog[u])
    /\ missed \in [Users -> BOOLEAN]
    /\ \A u \in Clients : IsRequest(reqs[u])
    /\ wrote \in [Users -> [Ids -> Nat]]

Init ==
    /\ quotations = NoRows
    /\ invoices = [s \in Invoices |-> [status |-> "absent", content |-> NoLines,
                                       quotation |-> NoInvoice]]
    /\ shown = [u \in Users |-> NoRows]
    /\ fetching = [u \in Users |-> [stage |-> "first", rows |-> NoRows]]
    /\ missed = [u \in Users |-> FALSE]
    /\ dialog = [u \in Users |-> NoDialog]
    /\ reqs = [u \in Clients |-> Idle]
    /\ wrote = [u \in Users |-> [q \in Ids |-> 0]]

-------------------------------------------------------------------------------
(* The page.                                                                *)

Exists(row)    == row.status \notin {"absent", "deleted"}
Converted(row) == row.sale # NoInvoice

Read(stage) == [stage |-> stage, rows |-> quotations]

Fetch(u, stage) ==
    /\ dialog[u] = NoDialog
    /\ fetching' = [fetching EXCEPT ![u] = Read(stage)]
    /\ missed' = [missed EXCEPT ![u] = FALSE]
    /\ UNCHANGED <<tables, dialog, reqs, wrote>>

\* The user comes back to the page, whose rows are still there.  An open dialog prevents it.
Refetch(u) == fetching[u] = Idle /\ Fetch(u, "again") /\ UNCHANGED shown

\* Another page of the list, another search or status: a query of its own, without rows.
\* The answer to the one before is not shown.
TurnPage(u) == Fetch(u, "first") /\ shown' = [shown EXCEPT ![u] = NoRows]

FetchDone(u) ==
    /\ fetching[u] # Idle
    /\ shown' = [shown EXCEPT ![u] = fetching[u].rows]
    /\ fetching' = [fetching EXCEPT ![u] = Idle]
    /\ UNCHANGED <<tables, missed, dialog, reqs, wrote>>

ShowDialog(u, d) ==
    /\ dialog[u] = NoDialog
    /\ reqs[u] = Idle
    /\ dialog' = [dialog EXCEPT ![u] = d]
    /\ UNCHANGED <<tables, shown, fetching, missed, reqs, wrote>>

OpenNew(u) == ShowDialog(u, [kind |-> "new", content |-> NoLines])

\* The form of an edit is a copy of the row on the page.
StartEdit(u, q) ==
    /\ Exists(shown[u][q]) /\ ~Converted(shown[u][q])
    /\ quotations[q].updatedAt < MaxWrites
    /\ ShowDialog(u, [kind |-> "edit", id |-> q, content |-> shown[u][q].content])

\* The buttons that ask first.
ActionsOf(row) ==
    IF ~Exists(row) THEN {}
    ELSE (IF row.status = "sent" THEN {"reject"} ELSE {})
         \cup (IF row.status = "accepted" /\ ~Converted(row) THEN {"convert"} ELSE {})
         \cup (IF ~Converted(row) THEN {"remove"} ELSE {})

OpenTarget(u, q, kind) ==
    kind \in ActionsOf(shown[u][q]) /\ ShowDialog(u, [kind |-> kind, id |-> q])

Type(u, field, amount) ==
    /\ dialog[u].kind \in {"new", "edit"} /\ reqs[u] = Idle
    /\ dialog' = [dialog EXCEPT ![u].content[field] = amount]
    /\ UNCHANGED <<tables, shown, fetching, missed, reqs, wrote>>

CloseDialog(u) ==
    /\ dialog[u] # NoDialog /\ reqs[u] = Idle
    /\ dialog' = [dialog EXCEPT ![u] = NoDialog]
    /\ UNCHANGED <<tables, shown, fetching, missed, reqs, wrote>>

-------------------------------------------------------------------------------
(* The server: what a request must find.                                    *)

\* computeTotals: what is taken off is at most what is offered.
Affordable(content) == content.discount <= content.lines

\* Mutant: an offer that became an invoice is edited.
MutantEditable(row) == Exists(row)

Editable(row) == Exists(row) /\ ~Converted(row)

\* Mutant: an offer that became an invoice becomes another one.
MutantConvertible(row) == row.status = "accepted"

Convertible(row) == ~Converted(row) /\ row.status = "accepted"

Sendable(row)  == ~Converted(row) /\ row.status = "draft"
Decidable(row) == ~Converted(row) /\ row.status = "sent"
Removable(row) == Exists(row) /\ ~Converted(row)

Accepted(op, row, content) ==
    \/ op = "create" /\ Affordable(content)
    \/ op = "update" /\ Editable(row) /\ Affordable(content)
    \/ op = "send" /\ Sendable(row)
    \/ op \in {"accept", "reject"} /\ Decidable(row)
    \/ op = "convert" /\ Convertible(row)
    \/ op = "remove" /\ Removable(row)

-------------------------------------------------------------------------------
(* What the page sends, and what it does with the answer.                   *)

Mutate(u, op, q, content) ==
    /\ reqs[u] = Idle
    /\ Overlap \/ \A other \in Clients : reqs[other].stage # "checked"
    /\ Accepted(op, quotations[q], content)
    /\ reqs' = [reqs EXCEPT ![u] = [stage |-> "checked", op |-> op, id |-> q,
                                    content |-> content, row |-> quotations[q]]]
    /\ UNCHANGED <<tables, pageVars, wrote>>

\* The id of a new quotation is the server's choice.
Submit(u, q) ==
    LET d == dialog[u]
    IN  /\ d.kind \in {"new", "edit"}
        /\ d.content.lines > 0
        /\ IF d.kind = "new" THEN quotations[q].status = "absent"
           ELSE d.id = q
        /\ Mutate(u, IF d.kind = "new" THEN "create" ELSE "update", q, d.content)

\* Sending and accepting ask nothing first.
Press(u, q, op) ==
    /\ dialog[u] = NoDialog
    /\ \/ op = "send" /\ shown[u][q].status = "draft"
       \/ op = "accept" /\ shown[u][q].status = "sent"
    /\ Mutate(u, op, q, NoLines)

Confirm(u) ==
    /\ dialog[u].kind \in {"reject", "convert", "remove"}
    /\ Mutate(u, dialog[u].kind, dialog[u].id, NoLines)

\* A request of a page that is not modelled, on a row of any age.
Ask(u, q, op, content) ==
    /\ op = "create" => quotations[q].status = "absent"
    /\ op = "update" => quotations[q].updatedAt < MaxWrites
    /\ op \in {"create", "update"} => content.lines > 0
    /\ op \notin {"create", "update"} => content = NoLines
    /\ Mutate(u, op, q, content)

OtherAnswered(u) ==
    /\ reqs[u].stage = "done"
    /\ reqs' = [reqs EXCEPT ![u] = Idle]
    /\ UNCHANGED <<tables, pageVars, wrote>>

\* Mutant: any list query that is underway is left to finish.
MutantRefreshed(u) == IF fetching[u] = Idle THEN Read("again") ELSE fetching[u]

\* refresh: invalidateQueries drops a list query that is underway and starts another,
\* unless there are no rows yet: then it leaves the query to finish.
Refreshed(u) == IF fetching[u].stage = "first" THEN fetching[u] ELSE Read("again")

Succeeded(u) ==
    /\ reqs[u].stage = "done"
    /\ fetching' = [fetching EXCEPT ![u] = Refreshed(u)]
    /\ missed' = [missed EXCEPT ![u] = fetching[u].stage = "first"]
    /\ dialog' = [dialog EXCEPT ![u] = NoDialog]
    /\ wrote' = [wrote EXCEPT ![u][reqs[u].id] = reqs[u].updatedAt]
    /\ reqs' = [reqs EXCEPT ![u] = Idle]
    /\ UNCHANGED <<tables, shown>>

\* The period is closed, the customer or a row is gone, or the database fails: the dialog
\* stays as it is.
Failed(u) ==
    /\ reqs[u].stage = "checked"
    /\ reqs' = [reqs EXCEPT ![u] = Idle]
    /\ UNCHANGED <<tables, pageVars, wrote>>

-------------------------------------------------------------------------------
(* The server writes; a row that is gone by then fails the statement.       *)

Writing(u, op) ==
    /\ reqs[u].stage = "checked" /\ reqs[u].op = op
    /\ IF op = "create" THEN quotations[reqs[u].id].status = "absent"
       ELSE Exists(quotations[reqs[u].id])

Write(u, row) ==
    LET q  == reqs[u].id
        at == quotations[q].updatedAt + 1
    IN  /\ quotations' = [quotations EXCEPT ![q] = [row EXCEPT !.updatedAt = at]]
        /\ reqs' = [reqs EXCEPT ![u] = [stage |-> "done", id |-> q, updatedAt |-> at]]
        /\ UNCHANGED <<pageVars, wrote>>

Create(u) ==
    /\ Writing(u, "create")
    /\ Write(u, [Blank EXCEPT !.status = "draft", !.content = reqs[u].content])
    /\ UNCHANGED invoices

\* Whatever its status.
Update(u) ==
    /\ Writing(u, "update")
    /\ Write(u, [quotations[reqs[u].id] EXCEPT !.content = reqs[u].content])
    /\ UNCHANGED invoices

Send(u) ==
    /\ Writing(u, "send")
    /\ Write(u, [quotations[reqs[u].id] EXCEPT !.status = "sent"])
    /\ UNCHANGED invoices

Decide(u) ==
    /\ \/ Writing(u, "accept") /\ Write(u, [quotations[reqs[u].id] EXCEPT !.status = "accepted"])
       \/ Writing(u, "reject") /\ Write(u, [quotations[reqs[u].id] EXCEPT !.status = "rejected"])
    /\ UNCHANGED invoices

\* The invoice carries the lines that were read before the transaction.
ConvertToSale(u, s) ==
    LET req == reqs[u]
    IN  /\ Writing(u, "convert")
        /\ invoices[s].status = "absent"
        /\ invoices' = [invoices EXCEPT ![s] = [status |-> "draft", content |-> req.row.content,
                                                quotation |-> req.id]]
        /\ Write(u, [quotations[req.id] EXCEPT !.sale = s])

Delete(u) ==
    /\ Writing(u, "remove")
    /\ Write(u, [quotations[reqs[u].id] EXCEPT !.status = "deleted", !.sale = NoInvoice])
    /\ UNCHANGED invoices

-------------------------------------------------------------------------------
(* The invoices, in one step each.                                          *)

SetInvoice(s, from, to) ==
    /\ invoices[s].status \in from
    /\ invoices' = [invoices EXCEPT ![s].status = to]
    /\ UNCHANGED <<pageVars, reqs, wrote>>

CancelInvoice(s) == SetInvoice(s, {"draft"}, "cancelled") /\ UNCHANGED quotations

\* The foreign key frees the quotation, which may be converted again.
DeleteInvoice(s) ==
    /\ SetInvoice(s, {"draft"}, "deleted")
    /\ quotations' = [q \in Ids |-> IF quotations[q].sale = s
                                    THEN [quotations[q] EXCEPT !.sale = NoInvoice]
                                    ELSE quotations[q]]

Contents == [lines : Lines \cup {0}, discount : Discounts \cup {0}]

Next ==
    \/ \E u \in Users :
          \/ Refetch(u) \/ TurnPage(u) \/ FetchDone(u)
          \/ OpenNew(u) \/ CloseDialog(u) \/ Confirm(u) \/ Succeeded(u)
          \/ \E q \in Ids :
                \/ StartEdit(u, q) \/ Submit(u, q)
                \/ \E kind \in {"reject", "convert", "remove"} : OpenTarget(u, q, kind)
                \/ \E op \in {"send", "accept"} : Press(u, q, op)
          \/ \E lines \in Lines : Type(u, "lines", lines)
          \/ \E discount \in Discounts : Type(u, "discount", discount)
    \/ \E u \in Others :
          \/ OtherAnswered(u)
          \/ \E q \in Ids, op \in Operations, content \in Contents : Ask(u, q, op, content)
    \/ \E u \in Clients :
          \/ Failed(u)
          \/ Create(u) \/ Update(u) \/ Send(u) \/ Decide(u) \/ Delete(u)
          \/ \E s \in Invoices : ConvertToSale(u, s)
    \/ \E s \in Invoices : CancelInvoice(s) \/ DeleteInvoice(s)

Spec == Init /\ [][Next]_vars

-------------------------------------------------------------------------------
(* Properties.                                                              *)

FromQuotation(q) ==
    {s \in Invoices : invoices[s].quotation = q /\ invoices[s].status \notin {"absent", "deleted"}}

\* A quotation has at most one invoice, which it points to, and is not deleted while it
\* has one: convertToSale, update and remove decide on a convertedSaleId that they read
\* before they write, on requests of pages that still show the offer as open.
ConvertedOnce ==
    \A q \in Ids :
        FromQuotation(q) = IF Converted(quotations[q]) THEN {quotations[q].sale} ELSE {}

\* The invoice of a quotation carries what the quotation offers, also when a page sends an
\* edit that was begun before the conversion.
InvoiceCarriesOffer ==
    \A q \in Ids : \A s \in FromQuotation(q) :
        invoices[s].content = quotations[q].content /\ quotations[q].status = "accepted"

\* A page on which nothing is underway shows its user every change that this user made:
\* the answer of a list query that was read before the change never replaces it.  The
\* exception is a query that has no rows yet when the change is reported: what it read
\* before the change is shown, until the list is fetched again.
ShowsOwnWrites ==
    \A u \in Users, q \in Ids :
        reqs[u] = Idle /\ fetching[u] = Idle /\ ~missed[u] =>
            shown[u][q].updatedAt >= wrote[u][q]

\* What goes into an edit is what the quotation says now.  The code does not have it:
\* between the answer to a change and the end of the list query that follows it, the page
\* offers the old row for editing, and the edit brings the old lines back.
EditsStartFresh ==
    [][\A u \in Users : dialog'[u].kind = "edit" /\ dialog[u] = NoDialog =>
          dialog'[u].content = quotations[dialog'[u].id].content]_vars

\* A quotation that was converted can be brought back to an open offer.  The code does not
\* have it: a cancelled invoice cannot be deleted, and the quotation stays with it.
NeverStuck ==
    \A q \in Ids : Converted(quotations[q]) => invoices[quotations[q].sale].status # "cancelled"
=============================================================================
