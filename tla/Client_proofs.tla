---------------------------- MODULE Client_proofs ----------------------------
(***************************************************************************)
(* What the client's pages show and leave, for any number of users:        *)
(*                                                                         *)
(*   Quotations: a page shows its user what the user wrote, however        *)
(*   requests overlap on the server and on the network; a quotation        *)
(*   becomes one invoice at a time, with what it offers, as long as the    *)
(*   requests that overlap concern different quotations.                   *)
(*                                                                         *)
(*   Roles: what the edits of a role leave, for any number of overlapping  *)
(*   edits and restarts, any screen and any editors.                       *)
(*                                                                         *)
(*   Pages: a screen shows what its user's requests left, a button that    *)
(*   is shown works unless the page is out of date, and no page opens on   *)
(*   a list that is refused, whatever others change in the meantime.       *)
(*                                                                         *)
(*   Sessions: the tabs of a browser hold the refresh token of the cookie  *)
(*   or none, a change of password leaves its user with a good one, and    *)
(*   the cookie decides, as long as the user waits for one tab before      *)
(*   starting something in another.                                        *)
(***************************************************************************)
EXTENDS Quotations, Web, Sessions, TLAPS

-------------------------------------------------------------------------------
(* What changes a quotation, and how.                                       *)

\* The steps of a request on the server.
Commit(u) ==
    \/ Create(u) \/ Update(u) \/ Send(u) \/ Decide(u) \/ Delete(u)
    \/ \E s \in Invoices : ConvertToSale(u, s)

\* The steps that leave the tables alone.
Aside ==
    \/ \E u \in Users : Refetch(u) \/ TurnPage(u) \/ FetchDone(u) \/ Succeeded(u)
    \/ \E u \in Users : \E d : IsDialog(d) /\ ShowDialog(u, d)
    \/ \E u \in Users, field \in {"lines", "discount"}, amount \in Nat : Type(u, field, amount)
    \/ \E u \in Users : CloseDialog(u)
    \/ \E u \in Clients, op \in Operations, q \in Ids, content \in Content : Mutate(u, op, q, content)
    \/ \E u \in Others : OtherAnswered(u)
    \/ \E u \in Clients : Failed(u)

\* Every step is one of these.
LEMMA Steps ==
    ASSUME TypeOK, [Next]_vars
    PROVE  \/ Aside
           \/ \E u \in Clients : Commit(u)
           \/ \E s \in Invoices : CancelInvoice(s) \/ DeleteInvoice(s)
           \/ UNCHANGED vars
<1>1. ASSUME NEW u \in Users, OpenNew(u) PROVE Aside
  <2>1. IsDialog([kind |-> "new", content |-> NoLines])
    BY DEF IsDialog, NoLines, Content
  <2> QED
    BY <1>1, <2>1, Zenon DEF OpenNew, Aside
<1>2. ASSUME NEW u \in Users, NEW q \in Ids, StartEdit(u, q) PROVE Aside
  <2>1. IsDialog([kind |-> "edit", id |-> q, content |-> shown[u][q].content])
    BY DEF IsDialog, TypeOK, Rows, Row
  <2> QED
    BY <1>2, <2>1, Zenon DEF StartEdit, Aside
<1>12. ASSUME NEW u \in Users, NEW q \in Ids, NEW kind \in {"reject", "convert", "remove"},
              OpenTarget(u, q, kind)
       PROVE  Aside
  <2>1. IsDialog([kind |-> kind, id |-> q])
    BY DEF IsDialog
  <2> QED
    BY <1>12, <2>1, Zenon DEF OpenTarget, Aside
<1>3. Users \subseteq Clients /\ Others \subseteq Clients /\ NoLines \in Content
  BY DEF Clients, NoLines, Content
<1>4. ASSUME NEW u \in Users, NEW q \in Ids, Submit(u, q) PROVE Aside
  <2>1. \E op \in Operations : Mutate(u, op, q, dialog[u].content)
    BY <1>4 DEF Submit, Operations
  <2>2. dialog[u].content \in Content
    BY <1>4 DEF Submit, TypeOK, IsDialog, NoDialog
  <2> QED
    BY <1>3, <2>1, <2>2, Zenon DEF Aside
<1>5. ASSUME NEW u \in Users, NEW q \in Ids, NEW op \in {"send", "accept"}, Press(u, q, op)
      PROVE  Aside
  <2>1. op \in Operations
    BY DEF Operations
  <2> QED
    BY <1>3, <1>5, <2>1, Zenon DEF Press, Aside
<1>6. ASSUME NEW u \in Users, Confirm(u) PROVE Aside
  <2>1. dialog[u].kind \in Operations /\ dialog[u].id \in Ids
    BY <1>6 DEF Confirm, Operations, TypeOK, IsDialog, NoDialog
  <2> QED
    BY <1>3, <1>6, <2>1, Zenon DEF Confirm, Aside
<1>7. ASSUME NEW u \in Others, NEW q \in Ids, NEW op \in Operations, NEW content \in Contents,
             Ask(u, q, op, content)
      PROVE  Aside
  <2>1. content \in Content
    <3>1. Lines \cup {0} \subseteq Nat /\ Discounts \cup {0} \subseteq Nat
      BY QuotationsAssumption
    <3>2. content \in [lines : Lines \cup {0}, discount : Discounts \cup {0}]
      BY DEF Contents
    <3> QED
      BY <3>1, <3>2 DEF Content
  <2> QED
    BY <1>3, <1>7, <2>1, Zenon DEF Ask, Aside
<1>8. ASSUME NEW u \in Users, NEW amount,
             \/ amount \in Lines /\ Type(u, "lines", amount)
             \/ amount \in Discounts /\ Type(u, "discount", amount)
      PROVE  Aside
  BY <1>8, QuotationsAssumption DEF Aside
<1>9. ASSUME NEW u \in Users,
             Refetch(u) \/ TurnPage(u) \/ FetchDone(u) \/ CloseDialog(u) \/ Succeeded(u)
      PROVE  Aside
  BY <1>9, Zenon DEF Aside
<1>10. ASSUME NEW u \in Others, OtherAnswered(u) PROVE Aside
  BY <1>10, Zenon DEF Aside
<1>11. ASSUME NEW u \in Clients, Failed(u) PROVE Aside
  BY <1>11, Zenon DEF Aside
<1> QED
  BY <1>1, <1>2, <1>12, <1>4, <1>5, <1>6, <1>7, <1>8, <1>9, <1>10, <1>11, Zenon DEF Next, Commit

-------------------------------------------------------------------------------
(* Types.                                                                   *)

\* The rows that the server builds.
LEMMA Rewritten ==
    ASSUME NEW rec \in Row
    PROVE  /\ \A at \in Nat : /\ [rec EXCEPT !.updatedAt = at] \in Row
                            /\ [rec EXCEPT !.updatedAt = at].updatedAt = at
                            /\ [rec EXCEPT !.updatedAt = at].status = rec.status
                            /\ [rec EXCEPT !.updatedAt = at].content = rec.content
                            /\ [rec EXCEPT !.updatedAt = at].sale = rec.sale
           /\ \A content \in Content : [rec EXCEPT !.content = content] \in Row
           /\ \A sale \in Invoices \cup {NoInvoice} :
                 /\ [rec EXCEPT !.sale = sale] \in Row
                 /\ [rec EXCEPT !.status = "deleted", !.sale = sale] \in Row
           /\ \A status \in {"sent", "accepted", "rejected"} :
                 [rec EXCEPT !.status = status] \in Row
BY DEF Row

LEMMA BlankRow ==
    /\ Blank \in Row /\ Blank.sale = NoInvoice /\ Blank.status = "absent"
    /\ NoRows \in Rows
BY DEF Blank, Row, NoLines, Content, NoRows, Rows

\* Which row a commit writes: the quotation it is about, changed as its operation says.
Written(u, rec) ==
    LET req == reqs[u]
        old == quotations[req.id]
    IN  \/ /\ req.op = "create" /\ old.status = "absent"
           /\ rec = [Blank EXCEPT !.status = "draft", !.content = req.content]
        \/ /\ req.op # "create" /\ Exists(old)
           /\ \/ req.op = "update" /\ rec = [old EXCEPT !.content = req.content]
              \/ req.op = "send" /\ rec = [old EXCEPT !.status = "sent"]
              \/ req.op = "accept" /\ rec = [old EXCEPT !.status = "accepted"]
              \/ req.op = "reject" /\ rec = [old EXCEPT !.status = "rejected"]
              \/ req.op = "remove" /\ rec = [old EXCEPT !.status = "deleted", !.sale = NoInvoice]

\* A commit writes one row, and an invoice if it converts.
LEMMA Committed ==
    ASSUME NEW u \in Clients, Commit(u)
    PROVE  /\ reqs[u].stage = "checked"
           /\ \/ UNCHANGED invoices /\ \E rec : Written(u, rec) /\ Write(u, rec)
              \/ \E s \in Invoices : ConvertToSale(u, s)
<1>1. CASE Create(u)
  BY <1>1 DEF Create, Writing, Written
<1>2. CASE Update(u)
  BY <1>2 DEF Update, Writing, Written
<1>3. CASE Send(u)
  BY <1>3 DEF Send, Writing, Written
<1>4. CASE Decide(u)
  BY <1>4 DEF Decide, Writing, Written
<1>5. CASE Delete(u)
  BY <1>5 DEF Delete, Writing, Written
<1>6. CASE \E s \in Invoices : ConvertToSale(u, s)
  BY <1>6 DEF ConvertToSale, Writing
<1> QED
  BY <1>1, <1>2, <1>3, <1>4, <1>5, <1>6 DEF Commit

LEMMA NextRow ==
    ASSUME TypeOK, NEW u \in Clients, reqs[u].stage = "checked", NEW rec, Written(u, rec)
    PROVE  rec \in Row
<1>1. reqs[u].id \in Ids /\ reqs[u].content \in Content
  BY DEF TypeOK, IsRequest, Idle
<1>2. quotations[reqs[u].id] \in Row
  BY <1>1 DEF TypeOK, Rows
<1>3. [Blank EXCEPT !.status = "draft", !.content = reqs[u].content] \in Row
  BY <1>1, BlankRow DEF Row
<1> DEFINE old == quotations[reqs[u].id]
<1> HIDE DEF old
<1>4. old \in Row
  BY <1>2 DEF old
<1>5. CASE rec = [old EXCEPT !.content = reqs[u].content]
  BY <1>1, <1>4, <1>5, Rewritten
<1>6. CASE \E status \in {"sent", "accepted", "rejected"} : rec = [old EXCEPT !.status = status]
  BY <1>4, <1>6, Rewritten
<1>7. CASE rec = [old EXCEPT !.status = "deleted", !.sale = NoInvoice]
  BY <1>4, <1>7, Rewritten
<1>8. CASE rec = [Blank EXCEPT !.status = "draft", !.content = reqs[u].content]
  BY <1>3, <1>8
<1> QED
  BY <1>5, <1>6, <1>7, <1>8, Zenon DEF Written, old

\* What the server's commits do to the tables, for any of them.
LEMMA CommitTypes ==
    ASSUME TypeOK, NEW u \in Clients, Commit(u)
    PROVE  TypeOK'
<1>1. reqs[u].stage = "checked"
  BY Committed
<1>2. reqs[u].id \in Ids /\ reqs[u].row \in Row
  BY <1>1 DEF TypeOK, IsRequest, Idle
<1>3. ASSUME NEW rec \in Row, Write(u, rec)
      PROVE  /\ quotations' \in Rows
             /\ \A c \in Clients : IsRequest(reqs[c])'
             /\ DOMAIN reqs' = Clients
             /\ UNCHANGED <<pageVars, wrote>>
  <2> DEFINE q == reqs[u].id
             at == quotations[q].updatedAt + 1
             new == [rec EXCEPT !.updatedAt = at]
             told == [stage |-> "done", id |-> q, updatedAt |-> at]
  <2>1. quotations \in Rows /\ at \in Nat
    BY <1>2 DEF TypeOK, Rows, Row
  <2>2. new \in Row
    BY <2>1, Rewritten
  <2>3. /\ quotations' = [quotations EXCEPT ![q] = new]
        /\ reqs' = [reqs EXCEPT ![u] = told]
        /\ UNCHANGED <<pageVars, wrote>>
    BY <1>3, Zenon DEF Write
  <2>4. quotations' \in Rows
    BY <2>1, <2>2, <2>3 DEF Rows
  <2>5. IsRequest(told)
    BY <1>2, <2>1 DEF IsRequest
  <2>6. ASSUME NEW c \in Clients PROVE IsRequest(reqs'[c])
    <3>1. IsRequest(reqs[c])
      BY DEF TypeOK
    <3>2. reqs'[c] = reqs[c] \/ reqs'[c] = told
      BY <2>3
    <3> QED
      BY <2>5, <3>1, <3>2, Zenon
  <2> QED
    BY <2>3, <2>4, <2>6 DEF IsRequest, TypeOK
<1>4. CASE UNCHANGED invoices /\ \E rec : Written(u, rec) /\ Write(u, rec)
  BY <1>1, <1>3, <1>4, NextRow DEF TypeOK, pageVars
<1>5. CASE \E s \in Invoices : ConvertToSale(u, s)
  <2>1. PICK s \in Invoices : ConvertToSale(u, s)
    BY <1>5
  <2>2. [quotations[reqs[u].id] EXCEPT !.sale = s] \in Row
    BY <1>2, Rewritten DEF TypeOK, Rows
  <2>3. [status |-> "draft", content |-> reqs[u].row.content, quotation |-> reqs[u].id] \in Invoice
    BY <1>2 DEF Invoice, Row
  <2>4. invoices' \in [Invoices -> Invoice]
    BY <2>1, <2>3 DEF ConvertToSale, TypeOK
  <2> QED
    BY <1>3, <2>1, <2>2, <2>4 DEF ConvertToSale, TypeOK, pageVars
<1> QED
  BY <1>4, <1>5, Committed

\* Init and every step keep the types.
LEMMA TypesKept == (Init => TypeOK) /\ (TypeOK /\ [Next]_vars => TypeOK')
<1>1. Init => TypeOK
  <2> SUFFICES ASSUME Init PROVE TypeOK
    OBVIOUS
  <2>1. [status |-> "absent", content |-> NoLines, quotation |-> NoInvoice] \in Invoice
    BY DEF Invoice, NoLines, Content
  <2> QED
    BY <2>1, BlankRow DEF Init, TypeOK, IsFetch, IsDialog, IsRequest
<1>2. ASSUME TypeOK, [Next]_vars PROVE TypeOK'
  <2> USE <1>2
  <2>1. CASE UNCHANGED vars
    BY <2>1 DEF vars, tables, pageVars, TypeOK, IsFetch, IsDialog, IsRequest
  <2>2. ASSUME NEW u \in Clients, Commit(u) PROVE TypeOK'
    BY <2>2, CommitTypes
  <2>3. ASSUME NEW s \in Invoices, CancelInvoice(s) \/ DeleteInvoice(s) PROVE TypeOK'
    <3>1. \E status \in {"cancelled", "deleted"} :
             invoices' = [invoices EXCEPT ![s].status = status] /\ UNCHANGED <<pageVars, reqs, wrote>>
      BY <2>3 DEF CancelInvoice, DeleteInvoice, SetInvoice
    <3>2. invoices' \in [Invoices -> Invoice]
      BY <3>1 DEF TypeOK, Invoice
    <3>3. quotations' \in Rows
      <4>1. \A q \in Ids : [quotations[q] EXCEPT !.sale = NoInvoice] \in Row
        BY Rewritten DEF TypeOK, Rows
      <4> QED
        BY <2>3, <4>1 DEF CancelInvoice, DeleteInvoice, SetInvoice, TypeOK, Rows
    <3> QED
      BY <3>1, <3>2, <3>3 DEF pageVars, TypeOK
  <2>4. CASE Aside
    <3>1. ASSUME NEW u \in Users, Refetch(u) \/ TurnPage(u) \/ FetchDone(u) PROVE TypeOK'
      <4>1. quotations \in Rows /\ (fetching[u] # Idle => fetching[u].rows \in Rows)
        BY DEF TypeOK, IsFetch
      <4> DEFINE starts == {Read("first"), Read("again"), Idle}
      <4>2. \A f \in starts : IsFetch(f)
        BY <4>1 DEF IsFetch, Read
      <4> HIDE DEF starts
      <4>3. \E f \in starts : fetching' = [fetching EXCEPT ![u] = f]
        BY <3>1, Zenon DEF Refetch, TurnPage, Fetch, FetchDone, starts
      <4>4. \A c \in Users : fetching'[c] = fetching[c] \/ fetching'[c] \in starts
        BY <4>3 DEF TypeOK
      <4>5. \A c \in Users : IsFetch(fetching'[c])
        BY <4>2, <4>4, Zenon DEF TypeOK
      <4>6. shown' \in [Users -> Rows]
        BY <3>1, <4>1, BlankRow DEF Refetch, TurnPage, Fetch, FetchDone, TypeOK
      <4>7. DOMAIN fetching' = Users
        BY <4>3 DEF TypeOK
      <4>8. missed' \in [Users -> BOOLEAN]
        BY <3>1 DEF Refetch, TurnPage, Fetch, FetchDone, TypeOK
      <4> QED
        BY <3>1, <4>5, <4>6, <4>7, <4>8
        DEF Refetch, TurnPage, Fetch, FetchDone, tables, TypeOK
    <3>2. ASSUME NEW u \in Users, Succeeded(u) PROVE TypeOK'
      <4>1. u \in Clients
        BY DEF Clients
      <4>2. reqs[u].id \in Ids /\ reqs[u].updatedAt \in Nat
        BY <3>2, <4>1 DEF Succeeded, TypeOK, IsRequest, Idle
      <4>3. wrote' \in [Users -> [Ids -> Nat]]
        BY <3>2, <4>2 DEF Succeeded, TypeOK
      <4>4. \A c \in Users : IsFetch(fetching'[c]) /\ IsDialog(dialog'[c])
        BY <3>2 DEF Succeeded, Refreshed, Read, TypeOK, IsFetch, IsDialog
      <4>6. missed' \in [Users -> BOOLEAN]
        BY <3>2 DEF Succeeded, TypeOK
      <4>5. \A c \in Clients : IsRequest(reqs'[c])
        BY <3>2, <4>1 DEF Succeeded, TypeOK, IsRequest
      <4> QED
        BY <3>2, <4>3, <4>4, <4>5, <4>6 DEF Succeeded, tables, TypeOK
    <3>3. ASSUME NEW u \in Users, NEW d, IsDialog(d), ShowDialog(u, d) PROVE TypeOK'
      <4>1. \A c \in Users : IsDialog(dialog'[c])
        <5>1. \A c \in Users : dialog'[c] = dialog[c] \/ dialog'[c] = d
          BY <3>3 DEF ShowDialog, TypeOK
        <5> QED
          BY <3>3, <5>1, Zenon DEF TypeOK
      <4> QED
        BY <3>3, <4>1 DEF ShowDialog, tables, TypeOK
    <3>4. ASSUME NEW u \in Users, CloseDialog(u) PROVE TypeOK'
      BY <3>4 DEF CloseDialog, TypeOK, IsDialog, tables
    <3>5. ASSUME NEW u \in Users, NEW field \in {"lines", "discount"}, NEW amount \in Nat,
                 Type(u, field, amount)
          PROVE  TypeOK'
      <4>1. IsDialog([dialog[u] EXCEPT !.content[field] = amount])
        <5> DEFINE d == dialog[u]
        <5>1. IsDialog(d) /\ d.kind \in {"new", "edit"}
          BY <3>5 DEF Type, TypeOK
        <5> HIDE DEF d
        <5>2. IsDialog([d EXCEPT !.content[field] = amount])
          BY <5>1 DEF IsDialog, NoDialog, Content
        <5> QED
          BY <5>2 DEF d
      <4>2. \A c \in Users : IsDialog(dialog'[c])
        BY <3>5, <4>1 DEF Type, TypeOK
      <4> QED
        BY <3>5, <4>2 DEF Type, tables, TypeOK
    <3>6. ASSUME NEW u \in Clients, NEW op \in Operations, NEW q \in Ids, NEW content \in Content,
                 Mutate(u, op, q, content)
          PROVE  TypeOK'
      <4> DEFINE req == [stage |-> "checked", op |-> op, id |-> q,
                         content |-> content, row |-> quotations[q]]
      <4>1. IsRequest(req)
        BY DEF TypeOK, Rows, IsRequest
      <4>2. \A c \in Clients : IsRequest(reqs'[c])
        <5> HIDE DEF req
        <5>1. reqs' = [reqs EXCEPT ![u] = req]
          BY <3>6, Zenon DEF Mutate, req
        <5>2. \A c \in Clients : reqs'[c] = reqs[c] \/ reqs'[c] = req
          BY <5>1
        <5> QED
          BY <4>1, <5>2, Zenon DEF TypeOK
      <4> QED
        BY <3>6, <4>2 DEF Mutate, tables, pageVars, TypeOK
    <3>7. ASSUME NEW u \in Clients, OtherAnswered(u) \/ Failed(u) PROVE TypeOK'
      <4>1. reqs' = [reqs EXCEPT ![u] = Idle] /\ UNCHANGED <<tables, pageVars, wrote>>
        BY <3>7, Zenon DEF OtherAnswered, Failed
      <4>2. \A c \in Clients : reqs'[c] = reqs[c] \/ reqs'[c] = Idle
        BY <4>1 DEF TypeOK
      <4>3. \A c \in Clients : IsRequest(reqs'[c])
        BY <4>2, Zenon DEF TypeOK, IsRequest
      <4> QED
        BY <4>1, <4>3 DEF tables, pageVars, TypeOK
    <3>8. Others \subseteq Clients
      BY DEF Clients
    <3> QED
      BY <2>4, <3>1, <3>2, <3>3, <3>4, <3>5, <3>6, <3>7, <3>8, Zenon DEF Aside
  <2> QED
    BY <2>1, <2>2, <2>3, <2>4, Steps, Zenon
<1> QED
  BY <1>1, <1>2

-------------------------------------------------------------------------------
(* A page shows its user what the user wrote.  A query that replaces the    *)
(* rows of the page was read after every write whose answer has arrived,    *)
(* since Succeeded drops the one that is underway, or notes that it missed  *)
(* the write.                                                               *)

OwnWrites ==
    /\ \A u \in Users, q \in Ids :
          /\ wrote[u][q] <= quotations[q].updatedAt
          /\ fetching[u] = Idle /\ ~missed[u] => wrote[u][q] <= shown[u][q].updatedAt
          /\ fetching[u] # Idle /\ ~missed[u] => wrote[u][q] <= fetching[u].rows[q].updatedAt
    /\ \A c \in Clients :
          reqs[c].stage = "done" => reqs[c].updatedAt <= quotations[reqs[c].id].updatedAt

\* No step makes a quotation older.
LEMMA NeverOlder ==
    ASSUME TypeOK, [Next]_vars, NEW q \in Ids
    PROVE  quotations[q].updatedAt <= quotations'[q].updatedAt
<1>1. /\ quotations[q] \in Row /\ quotations[q].updatedAt \in Nat
      /\ quotations \in Rows /\ DOMAIN quotations = Ids
  BY DEF TypeOK, Rows, Row
<1>2. CASE Aside \/ UNCHANGED vars
  <2>1. UNCHANGED quotations
    BY <1>2 DEF Aside, Refetch, TurnPage, Fetch, FetchDone, Succeeded, ShowDialog, Type,
                CloseDialog, Mutate, OtherAnswered, Failed, tables, vars
  <2> QED
    BY <1>1, <2>1
<1>3. ASSUME NEW u \in Clients, NEW rec \in Row, reqs[u].id \in Ids, Write(u, rec)
      PROVE  quotations[q].updatedAt <= quotations'[q].updatedAt
  <2> DEFINE at == quotations[reqs[u].id].updatedAt + 1
             new == [rec EXCEPT !.updatedAt = at]
  <2>1. at \in Nat /\ (reqs[u].id = q => at = quotations[q].updatedAt + 1)
    BY <1>1, <1>3 DEF Rows, Row
  <2>2. new.updatedAt = at
    BY <2>1, Rewritten
  <2>3. quotations' = [quotations EXCEPT ![reqs[u].id] = new]
    BY <1>3, Zenon DEF Write
  <2> HIDE DEF new, at
  <2>4. quotations'[q] = IF q = reqs[u].id THEN new ELSE quotations[q]
    BY <1>1, <2>3
  <2> QED
    BY <1>1, <2>1, <2>2, <2>4
<1>4. ASSUME NEW u \in Clients, Commit(u)
      PROVE  quotations[q].updatedAt <= quotations'[q].updatedAt
  <2>1. reqs[u].stage = "checked"
    BY <1>4, Committed
  <2>2. reqs[u].id \in Ids
    BY <2>1 DEF TypeOK, IsRequest, Idle
  <2>3. CASE \E rec : Written(u, rec) /\ Write(u, rec)
    BY <1>3, <2>1, <2>2, <2>3, NextRow, Zenon
  <2>4. CASE \E s \in Invoices : ConvertToSale(u, s)
    <3>1. PICK s \in Invoices : ConvertToSale(u, s)
      BY <2>4
    <3>2. [quotations[reqs[u].id] EXCEPT !.sale = s] \in Row
      BY <2>2, Rewritten DEF TypeOK, Rows
    <3> QED
      BY <1>3, <2>2, <3>1, <3>2, Zenon DEF ConvertToSale
  <2> QED
    BY <1>4, <2>3, <2>4, Committed, Zenon
<1>5. ASSUME NEW s \in Invoices, CancelInvoice(s) \/ DeleteInvoice(s)
      PROVE  quotations[q].updatedAt <= quotations'[q].updatedAt
  <2> DEFINE freed == [quotations[q] EXCEPT !.sale = NoInvoice]
  <2>1. quotations'[q] = quotations[q] \/ quotations'[q] = freed
    BY <1>1, <1>5 DEF CancelInvoice, DeleteInvoice
  <2>2. freed.updatedAt = quotations[q].updatedAt
    BY <1>1 DEF Row
  <2> HIDE DEF freed
  <2> QED
    BY <1>1, <2>1, <2>2
<1> QED
  BY <1>2, <1>4, <1>5, Steps, Zenon

\* The steps on which the promise rests; the others leave the page and what was
\* answered alone.
LEMMA OwnWritesKept == TypeOK /\ OwnWrites /\ [Next]_vars => OwnWrites'
<1> SUFFICES ASSUME TypeOK, OwnWrites, [Next]_vars PROVE OwnWrites'
  OBVIOUS
<1>1. \A q \in Ids : /\ quotations[q].updatedAt \in Nat /\ quotations'[q].updatedAt \in Nat
                     /\ quotations[q].updatedAt <= quotations'[q].updatedAt
  BY TypesKept, NeverOlder DEF TypeOK, Rows, Row
<1>2. /\ \A u \in Users, q \in Ids : /\ wrote[u][q] \in Nat /\ shown[u][q].updatedAt \in Nat
                                     /\ fetching[u] # Idle => fetching[u].rows[q].updatedAt \in Nat
      /\ \A c \in Clients : reqs[c].stage = "done" => reqs[c].id \in Ids /\ reqs[c].updatedAt \in Nat
  BY DEF TypeOK, Rows, Row, IsFetch, IsRequest, Idle
<1>3. ASSUME UNCHANGED <<shown, fetching, missed, wrote>>,
             \A c \in Clients : \/ reqs'[c] = reqs[c]
                                \/ reqs'[c].stage # "done"
                                \/ /\ reqs'[c].id \in Ids
                                   /\ reqs'[c].updatedAt = quotations'[reqs'[c].id].updatedAt
      PROVE  OwnWrites'
  BY <1>1, <1>2, <1>3 DEF OwnWrites
<1>4. ASSUME NEW u \in Clients, Commit(u) PROVE OwnWrites'
  <2>1. reqs[u].stage = "checked"
    BY <1>4, Committed
  <2>2. reqs[u].id \in Ids
    BY <2>1 DEF TypeOK, IsRequest, Idle
  <2>3. \E rec : Write(u, rec)
    BY <1>4, Committed, Zenon DEF ConvertToSale
  <2>4. PICK rec : Write(u, rec)
    BY <2>3
  <2> DEFINE at == quotations[reqs[u].id].updatedAt + 1
             told == [stage |-> "done", id |-> reqs[u].id, updatedAt |-> at]
             new == [rec EXCEPT !.updatedAt = at]
  <2>5. /\ reqs' = [reqs EXCEPT ![u] = told]
        /\ quotations' = [quotations EXCEPT ![reqs[u].id] = new]
        /\ UNCHANGED <<shown, fetching, missed, wrote>>
    BY <2>4 DEF Write, pageVars
  <2>6. \A c \in Clients : reqs'[c] = reqs[c] \/ reqs'[c] = told
    <3> HIDE DEF told
    <3> QED
      BY <2>5 DEF TypeOK
  <2>7. quotations'[reqs[u].id].updatedAt = at
    BY <2>2, <2>5 DEF TypeOK, Rows
  <2>8. told.id = reqs[u].id /\ told.updatedAt = at
    OBVIOUS
  <2> QED
    BY <1>3, <2>2, <2>5, <2>6, <2>7, <2>8, Zenon
<1>5. ASSUME NEW s \in Invoices, CancelInvoice(s) \/ DeleteInvoice(s) PROVE OwnWrites'
  BY <1>3, <1>5, Zenon DEF CancelInvoice, DeleteInvoice, SetInvoice, pageVars
<1>6. CASE UNCHANGED vars
  BY <1>3, <1>6 DEF vars, pageVars
<1>7. CASE Aside
  <2>1. ASSUME NEW u \in Users, Refetch(u) \/ TurnPage(u) PROVE OwnWrites'
    <3>1. PICK stage \in {"first", "again"} : fetching' = [fetching EXCEPT ![u] = Read(stage)]
      BY <2>1 DEF Refetch, TurnPage, Fetch
    <3>2. /\ UNCHANGED <<quotations, reqs, wrote>>
          /\ missed' = [missed EXCEPT ![u] = FALSE]
          /\ \A c \in Users : c # u => shown'[c] = shown[c]
      BY <2>1 DEF Refetch, TurnPage, Fetch, tables, TypeOK
    <3>3. Read(stage) # Idle /\ Read(stage).rows = quotations
      BY <3>1 DEF Read, Idle
    <3>4. \A c \in Users : /\ fetching'[c] = IF c = u THEN Read(stage) ELSE fetching[c]
                           /\ c # u => missed'[c] = missed[c]
      BY <3>1, <3>2, Zenon DEF TypeOK
    <3> QED
      BY <3>2, <3>3, <3>4 DEF OwnWrites
  <2>2. ASSUME NEW u \in Users, FetchDone(u) PROVE OwnWrites'
    BY <1>1, <1>2, <2>2 DEF FetchDone, tables, OwnWrites, TypeOK
  <2>3. ASSUME NEW u \in Users, Succeeded(u) PROVE OwnWrites'
    <3>1. u \in Clients /\ reqs[u].stage = "done"
      BY <2>3 DEF Clients, Succeeded
    <3>2. /\ reqs[u].id \in Ids /\ reqs[u].updatedAt \in Nat
          /\ reqs[u].updatedAt <= quotations[reqs[u].id].updatedAt
      BY <1>2, <3>1 DEF OwnWrites
    <3>3. UNCHANGED <<quotations, shown>>
      BY <2>3 DEF Succeeded, tables
    <3>4. \A c \in Users, q \in Ids :
             wrote'[c][q] = IF c = u /\ q = reqs[u].id THEN reqs[u].updatedAt ELSE wrote[c][q]
      BY <2>3 DEF Succeeded, TypeOK
    <3>5. /\ \A c \in Users : c # u => fetching'[c] = fetching[c] /\ missed'[c] = missed[c]
          /\ missed'[u] \/ fetching'[u] = Read("again")
      BY <2>3, Zenon DEF Succeeded, Refreshed, TypeOK
    <3>6. Read("again") # Idle /\ Read("again").rows = quotations
      BY DEF Read, Idle
    <3>7. ASSUME NEW c \in Users, NEW q \in Ids
          PROVE  /\ wrote'[c][q] <= quotations'[q].updatedAt
                 /\ fetching'[c] = Idle /\ ~missed'[c] => wrote'[c][q] <= shown'[c][q].updatedAt
                 /\ fetching'[c] # Idle /\ ~missed'[c] =>
                       wrote'[c][q] <= fetching'[c].rows[q].updatedAt
      <4>1. wrote'[c][q] <= quotations[q].updatedAt
        BY <3>2, <3>4 DEF OwnWrites
      <4>2. CASE c = u
        BY <3>3, <3>5, <3>6, <4>1, <4>2
      <4>3. CASE c # u
        BY <3>3, <3>4, <3>5, <4>1, <4>3 DEF OwnWrites
      <4> QED
        BY <4>2, <4>3
    <3>8. \A c \in Clients : reqs'[c] = reqs[c] \/ reqs'[c] = Idle
      BY <2>3, Zenon DEF Succeeded, TypeOK
    <3>9. ASSUME NEW c \in Clients, reqs'[c].stage = "done"
          PROVE  reqs'[c].updatedAt <= quotations'[reqs'[c].id].updatedAt
      BY <3>3, <3>8, <3>9 DEF OwnWrites, Idle
    <3> QED
      BY <3>7, <3>9 DEF OwnWrites
  <2>4. ASSUME NEW u \in Users, NEW d, ShowDialog(u, d) PROVE OwnWrites'
    BY <1>3, <2>4 DEF ShowDialog
  <2>5. ASSUME NEW u \in Users, CloseDialog(u) \/ \E field, amount : Type(u, field, amount)
        PROVE  OwnWrites'
    BY <1>3, <2>5 DEF CloseDialog, Type
  <2>6. ASSUME NEW u \in Clients, OtherAnswered(u) \/ Failed(u) PROVE OwnWrites'
    <3>1. reqs' = [reqs EXCEPT ![u] = Idle] /\ UNCHANGED <<shown, fetching, missed, wrote>>
      BY <2>6 DEF OtherAnswered, Failed, pageVars
    <3>2. \A c \in Clients : reqs'[c] = reqs[c] \/ reqs'[c] = Idle
      BY <3>1 DEF TypeOK
    <3>3. Idle.stage # "done"
      BY DEF Idle
    <3> QED
      BY <1>3, <3>1, <3>2, <3>3, Zenon
  <2>7. ASSUME NEW u \in Clients, NEW op, NEW q, NEW content, Mutate(u, op, q, content)
        PROVE  OwnWrites'
    <3> DEFINE req == [stage |-> "checked", op |-> op, id |-> q,
                       content |-> content, row |-> quotations[q]]
    <3>1. req.stage # "done"
      OBVIOUS
    <3>2. reqs' = [reqs EXCEPT ![u] = req] /\ UNCHANGED <<shown, fetching, missed, wrote>>
      BY <2>7, Zenon DEF Mutate, pageVars
    <3> HIDE DEF req
    <3>3. \A c \in Clients : reqs'[c] = reqs[c] \/ reqs'[c] = req
      BY <3>2 DEF TypeOK
    <3> QED
      BY <1>3, <3>1, <3>2, <3>3, Zenon
  <2>8. Others \subseteq Clients
    BY DEF Clients
  <2> QED
    BY <1>7, <2>1, <2>2, <2>3, <2>4, <2>5, <2>6, <2>7, <2>8, Zenon DEF Aside
<1> QED
  BY <1>4, <1>5, <1>6, <1>7, Steps, Zenon

\* A page on which nothing is underway shows its user every change that this user made,
\* unless the change was reported while the page had no rows yet, however the requests of
\* any users overlap (the refresh of QuotationPage).
THEOREM PagesShowOwnWrites == Spec => []ShowsOwnWrites
<1>1. Init => OwnWrites
  BY DEF Init, OwnWrites, NoRows, Blank, Idle
<1>2. TypeOK /\ OwnWrites => ShowsOwnWrites
  BY DEF TypeOK, Rows, Row, OwnWrites, ShowsOwnWrites
<1> QED
  BY <1>1, <1>2, TypesKept, OwnWritesKept, PTL DEF Spec

-------------------------------------------------------------------------------
(* Requests on different quotations.  A request that is past its checks     *)
(* still sees the row that it checked when it writes: no other request is   *)
(* on that row, and the deletion of an invoice only changes a row that was  *)
(* converted, which no request is let through on.                           *)

\* The requests that are past their checks concern different quotations.
RequestsApart ==
    \A c, d \in Clients :
        c # d /\ reqs[c].stage = "checked" /\ reqs[d].stage = "checked"
            => reqs[c].id # reqs[d].id

\* What a request has checked is still so.
StillChecked ==
    \A c \in Clients : reqs[c].stage = "checked" =>
        /\ Accepted(reqs[c].op, reqs[c].row, reqs[c].content)
        /\ reqs[c].op # "create" => reqs[c].row = quotations[reqs[c].id]

InUse(s, q) == invoices[s].quotation = q /\ invoices[s].status \notin {"absent", "deleted"}

\* A quotation and its invoice point to each other and agree.
Linked ==
    \A q \in Ids :
        /\ ~Exists(quotations[q]) => ~Converted(quotations[q])
        /\ \A s \in Invoices :
              /\ InUse(s, q) <=> quotations[q].sale = s
              /\ InUse(s, q) => /\ invoices[s].content = quotations[q].content
                                /\ quotations[q].status = "accepted"

\* No request but a creation is let through on a row that was converted.
LEMMA OpenOffer ==
    ASSUME NEW op, NEW rec, NEW content, Accepted(op, rec, content), op # "create"
    PROVE  ~Converted(rec)
BY DEF Accepted, Editable, Sendable, Decidable, Convertible, Removable

\* What a request writes to was not converted.
LEMMA WritesOpenOffer ==
    ASSUME TypeOK, StillChecked, Linked, NEW u \in Clients, Commit(u)
    PROVE  /\ reqs[u].stage = "checked" /\ reqs[u].id \in Ids
           /\ ~Converted(quotations[reqs[u].id])
<1>1. reqs[u].stage = "checked"
  BY Committed
<1>2. reqs[u].id \in Ids
  BY <1>1 DEF TypeOK, IsRequest, Idle
<1>3. CASE reqs[u].op = "create"
  <2>1. quotations[reqs[u].id].status = "absent"
    BY <1>3, Committed DEF Written, ConvertToSale, Writing
  <2> QED
    BY <1>1, <1>2, <2>1 DEF Linked, Exists
<1>4. CASE reqs[u].op # "create"
  BY <1>1, <1>2, <1>4, OpenOffer DEF StillChecked
<1> QED
  BY <1>1, <1>2, <1>3, <1>4

LEMMA CheckedKept ==
    ASSUME RequestsApart, TypeOK, StillChecked, Linked, [Next]_vars
    PROVE  StillChecked'
<1>1. ASSUME \A c \in Clients : reqs'[c] = reqs[c] \/ reqs'[c].stage # "checked",
             \A c \in Clients : reqs'[c].stage = "checked" /\ reqs'[c].op # "create" =>
                                    quotations'[reqs[c].id] = quotations[reqs[c].id]
      PROVE  StillChecked'
  BY <1>1 DEF StillChecked, Accepted, Editable, Convertible, Sendable, Decidable, Removable,
              Affordable, Exists, Converted
<1>2. CASE UNCHANGED vars
  BY <1>1, <1>2 DEF vars, tables
<1>3. ASSUME NEW u \in Clients, Commit(u) PROVE StillChecked'
  <2>1. reqs[u].stage = "checked"
    BY <1>3, Committed
  <2>2. \A c \in Clients : c # u /\ reqs[c].stage = "checked" => reqs[c].id # reqs[u].id
    BY <2>1 DEF RequestsApart
  <2>3. PICK rec : Write(u, rec)
    BY <1>3, Committed, Zenon DEF ConvertToSale
  <2> DEFINE told == [stage |-> "done", id |-> reqs[u].id,
                        updatedAt |-> quotations[reqs[u].id].updatedAt + 1]
             new == [rec EXCEPT !.updatedAt = quotations[reqs[u].id].updatedAt + 1]
  <2>4. /\ reqs' = [reqs EXCEPT ![u] = told] /\ told.stage # "checked"
        /\ quotations' = [quotations EXCEPT ![reqs[u].id] = new]
    BY <2>3 DEF Write
  <2> HIDE DEF told, new
  <2>5. \A c \in Clients : reqs'[c] = IF c = u THEN told ELSE reqs[c]
    BY <2>4 DEF TypeOK
  <2>6. ASSUME NEW c \in Clients, reqs'[c].stage = "checked"
        PROVE  quotations'[reqs[c].id] = quotations[reqs[c].id]
    <3>1. c # u /\ reqs[c].stage = "checked"
      BY <2>4, <2>5, <2>6
    <3>2. reqs[c].id \in Ids /\ reqs[c].id # reqs[u].id
      BY <2>2, <3>1 DEF TypeOK, IsRequest, Idle
    <3> QED
      BY <2>4, <3>2 DEF TypeOK, Rows
  <2> QED
    BY <1>1, <2>4, <2>5, <2>6
<1>4. ASSUME NEW s \in Invoices, CancelInvoice(s) \/ DeleteInvoice(s) PROVE StillChecked'
  <2>1. UNCHANGED reqs
    BY <1>4 DEF CancelInvoice, DeleteInvoice, SetInvoice
  <2>2. ASSUME NEW c \in Clients, reqs[c].stage = "checked", reqs[c].op # "create"
        PROVE  quotations'[reqs[c].id] = quotations[reqs[c].id]
    <3>1. reqs[c].id \in Ids
      BY <2>2 DEF TypeOK, IsRequest, Idle
    <3>2. quotations[reqs[c].id].sale # s
      BY <2>2, OpenOffer, QuotationsAssumption DEF StillChecked, Converted
    <3> QED
      BY <1>4, <3>1, <3>2 DEF CancelInvoice, DeleteInvoice
  <2> QED
    BY <1>1, <2>1, <2>2, Zenon
<1>5. ASSUME NEW u \in Clients, NEW op, NEW q, NEW content, Mutate(u, op, q, content)
      PROVE  StillChecked'
  <2> DEFINE req == [stage |-> "checked", op |-> op, id |-> q,
                     content |-> content, row |-> quotations[q]]
  <2>1. reqs' = [reqs EXCEPT ![u] = req] /\ UNCHANGED quotations
    BY <1>5, Zenon DEF Mutate, tables
  <2>2. /\ Accepted(req.op, req.row, req.content)
        /\ req.row = quotations[req.id]
    BY <1>5 DEF Mutate
  <2> HIDE DEF req
  <2>3. \A c \in Clients : reqs'[c] = IF c = u THEN req ELSE reqs[c]
    BY <2>1 DEF TypeOK
  <2>4. ASSUME NEW c \in Clients, reqs'[c].stage = "checked"
        PROVE  /\ Accepted(reqs'[c].op, reqs'[c].row, reqs'[c].content)
               /\ reqs'[c].op # "create" => reqs'[c].row = quotations'[reqs'[c].id]
    <3>1. CASE c = u
      BY <2>1, <2>2, <2>3, <3>1, Zenon
    <3>2. CASE c # u
      BY <2>1, <2>3, <2>4, <3>2, Zenon DEF StillChecked
    <3> QED
      BY <3>1, <3>2
  <2> QED
    BY <2>4 DEF StillChecked, Accepted, Editable, Convertible, Sendable, Decidable, Removable,
                      Affordable, Exists, Converted
<1>6. ASSUME NEW u \in Clients, OtherAnswered(u) \/ Failed(u) \/ Succeeded(u) PROVE StillChecked'
  <2>1. reqs' = [reqs EXCEPT ![u] = Idle] /\ UNCHANGED quotations
    BY <1>6 DEF OtherAnswered, Failed, Succeeded, tables
  <2>2. \A c \in Clients : reqs'[c] = reqs[c] \/ reqs'[c] = Idle
    BY <2>1 DEF TypeOK
  <2>3. Idle.stage # "checked"
    BY DEF Idle
  <2> QED
    BY <1>1, <2>1, <2>2, <2>3, Zenon
<1>7. ASSUME NEW u \in Users,
             \/ Refetch(u) \/ TurnPage(u) \/ FetchDone(u) \/ CloseDialog(u)
             \/ \E d : ShowDialog(u, d)
             \/ \E field, amount : Type(u, field, amount)
      PROVE  StillChecked'
  <2>1. UNCHANGED <<reqs, quotations>>
    BY <1>7 DEF Refetch, TurnPage, Fetch, FetchDone, CloseDialog, ShowDialog, Type, tables
  <2> QED
    BY <1>1, <2>1
<1>8. Others \subseteq Clients /\ Users \subseteq Clients
  BY DEF Clients
<1>9. CASE Aside
  BY <1>5, <1>6, <1>7, <1>8, <1>9, Zenon DEF Aside
<1> QED
  BY <1>2, <1>3, <1>4, <1>9, Steps, Zenon

LEMMA LinkedKept ==
    ASSUME TypeOK, StillChecked, Linked, [Next]_vars
    PROVE  Linked'
<1> USE DEF Linked, Exists, Converted, InUse
<1>1. CASE UNCHANGED vars \/ Aside
  <2>1. UNCHANGED <<quotations, invoices>>
    BY <1>1 DEF Aside, Refetch, TurnPage, Fetch, FetchDone, Succeeded, ShowDialog, Type,
                CloseDialog, Mutate, OtherAnswered, Failed, tables, vars
  <2> QED
    BY <2>1
<1>2. ASSUME NEW u \in Clients, Commit(u) PROVE Linked'
  <2>1. reqs[u].stage = "checked" /\ reqs[u].id \in Ids /\ ~Converted(quotations[reqs[u].id])
    BY <1>2, WritesOpenOffer
  <2> PICK q \in Ids : q = reqs[u].id
    BY <2>1
  <2> DEFINE old == quotations[q]
  <2>2. old \in Row /\ old.updatedAt + 1 \in Nat /\ old.sale = NoInvoice
    BY <2>1 DEF TypeOK, Rows, Row
  <2>3. \A s \in Invoices : ~InUse(s, q)
    BY <2>2, QuotationsAssumption
  <2>4. ASSUME NEW rec \in Row, Write(u, rec)
        PROVE  /\ \A other \in Ids : other # q => quotations'[other] = quotations[other]
               /\ quotations'[q].status = rec.status /\ quotations'[q].content = rec.content
               /\ quotations'[q].sale = rec.sale
    <3> DEFINE new == [rec EXCEPT !.updatedAt = old.updatedAt + 1]
    <3>1. quotations' = [quotations EXCEPT ![q] = new]
      BY <2>4 DEF Write
    <3>2. new.status = rec.status /\ new.content = rec.content /\ new.sale = rec.sale
      BY <2>2, Rewritten
    <3> HIDE DEF new
    <3>3. \A other \in Ids : quotations'[other] = IF other = q THEN new ELSE quotations[other]
      BY <3>1 DEF TypeOK, Rows
    <3> QED
      BY <3>2, <3>3
  <2>5. ASSUME UNCHANGED invoices, NEW rec, Written(u, rec), Write(u, rec)
        PROVE  Linked'
    <3>1. rec \in Row
      BY <2>1, <2>5, NextRow
    <3>2. rec.sale = NoInvoice
      <4>1. CASE rec = [old EXCEPT !.content = reqs[u].content]
        BY <2>2, <4>1 DEF Row
      <4>2. CASE \E status : rec = [old EXCEPT !.status = status]
        BY <2>2, <4>2 DEF Row
      <4>3. CASE rec = [old EXCEPT !.status = "deleted", !.sale = NoInvoice]
        BY <2>2, <4>3 DEF Row
      <4>4. CASE rec = [Blank EXCEPT !.status = "draft", !.content = reqs[u].content]
        BY <4>4 DEF Blank
      <4> HIDE DEF old
      <4> QED
        BY <2>5, <4>1, <4>2, <4>3, <4>4 DEF Written, old
    <3>3. ASSUME NEW other \in Ids
          PROVE  /\ ~Exists(quotations'[other]) => ~Converted(quotations'[other])
                 /\ \A s \in Invoices :
                       /\ InUse(s, other)' <=> quotations'[other].sale = s
                       /\ InUse(s, other)' => /\ invoices'[s].content = quotations'[other].content
                                              /\ quotations'[other].status = "accepted"
      <4>1. CASE other # q
        BY <2>4, <2>5, <3>1, <4>1
      <4>2. CASE other = q
        BY <2>3, <2>4, <2>5, <3>1, <3>2, <4>2, QuotationsAssumption
      <4> QED
        BY <4>1, <4>2
    <3> QED
      BY <3>3
  <2>6. ASSUME NEW s \in Invoices, ConvertToSale(u, s)
        PROVE  Linked'
    <3> DEFINE invoice == [status |-> "draft", content |-> reqs[u].row.content, quotation |-> q]
               rec == [old EXCEPT !.sale = s]
    <3>1. /\ reqs[u].op = "convert" /\ Exists(old)
          /\ invoices[s].status = "absent"
          /\ invoices' = [invoices EXCEPT ![s] = invoice]
          /\ Write(u, rec)
      BY <2>6 DEF ConvertToSale, Writing
    <3>2. reqs[u].row = old /\ old.status = "accepted"
      BY <2>1, <3>1 DEF StillChecked, Accepted, Convertible
    <3>3. rec \in Row /\ rec.status = "accepted" /\ rec.content = old.content /\ rec.sale = s
      BY <2>2, <3>2 DEF Row
    <3>4. \A t \in Invoices : invoices'[t] = IF t = s THEN invoice ELSE invoices[t]
      BY <3>1 DEF TypeOK
    <3>5. /\ invoice.status = "draft" /\ invoice.content = old.content /\ invoice.quotation = q
      BY <3>2
    <3>6. /\ \A other \in Ids : other # q => quotations'[other] = quotations[other]
          /\ quotations'[q].status = "accepted" /\ quotations'[q].content = old.content
          /\ quotations'[q].sale = s
      BY <2>4, <3>1, <3>3
    <3> HIDE DEF invoice, rec
    <3>7. \A other \in Ids : ~InUse(s, other)
      BY <3>1
    <3>8. \A other \in Ids, t \in Invoices :
             InUse(t, other)' <=> IF t = s THEN other = q ELSE InUse(t, other)
      BY <3>4, <3>5
    <3> QED
      BY <2>1, <2>3, <3>4, <3>5, <3>6, <3>7, <3>8
  <2> QED
    BY <1>2, <2>5, <2>6, Committed, Zenon
<1>3. ASSUME NEW s \in Invoices, CancelInvoice(s) PROVE Linked'
  <2>1. /\ invoices[s].status = "draft"
        /\ invoices' = [invoices EXCEPT ![s].status = "cancelled"]
        /\ UNCHANGED quotations
    BY <1>3 DEF CancelInvoice, SetInvoice
  <2>2. \A t \in Invoices, q \in Ids :
           /\ InUse(t, q)' <=> InUse(t, q)
           /\ invoices'[t].content = invoices[t].content
    BY <2>1 DEF TypeOK, Invoice
  <2> QED
    BY <2>1, <2>2
<1>4. ASSUME NEW s \in Invoices, DeleteInvoice(s) PROVE Linked'
  <2>1. /\ invoices[s].status = "draft"
        /\ invoices' = [invoices EXCEPT ![s].status = "deleted"]
        /\ quotations' = [q \in Ids |-> IF quotations[q].sale = s
                                        THEN [quotations[q] EXCEPT !.sale = NoInvoice]
                                        ELSE quotations[q]]
    BY <1>4 DEF DeleteInvoice, SetInvoice
  <2>2. \A t \in Invoices, q \in Ids :
           /\ InUse(t, q)' <=> (t # s /\ InUse(t, q))
           /\ invoices'[t].content = invoices[t].content
    BY <2>1 DEF TypeOK, Invoice
  <2>3. ASSUME NEW q \in Ids
        PROVE  /\ quotations'[q].status = quotations[q].status
               /\ quotations'[q].content = quotations[q].content
               /\ quotations'[q].sale = IF quotations[q].sale = s THEN NoInvoice
                                                                  ELSE quotations[q].sale
    BY <2>1 DEF TypeOK, Rows, Row
  <2> QED
    BY <2>2, <2>3, QuotationsAssumption
<1> QED
  BY <1>1, <1>2, <1>3, <1>4, Steps, Zenon

LEMMA QuotationInvariant == Spec /\ []RequestsApart => [](TypeOK /\ StillChecked /\ Linked)
<1>1. Init => StillChecked /\ Linked
  BY QuotationsAssumption DEF Init, StillChecked, Linked, Idle, NoRows, Blank, InUse, Exists, Converted
<1>2. TypeOK /\ StillChecked /\ Linked /\ RequestsApart /\ [Next]_vars => (TypeOK /\ StillChecked /\ Linked)'
  BY TypesKept, CheckedKept, LinkedKept
<1> QED
  BY <1>1, <1>2, TypesKept, PTL DEF Spec

\* While requests that overlap are about different quotations, a quotation has at most one
\* invoice, the one it points to (convertToSale, update, remove and the deletion of the
\* invoice); with two requests on one quotation TLC finds a second invoice.
THEOREM OneInvoice == Spec /\ []RequestsApart => []ConvertedOnce
<1>1. TypeOK /\ Linked => ConvertedOnce
  BY QuotationsAssumption DEF TypeOK, Rows, Row, Linked, InUse, ConvertedOnce, FromQuotation,
                              Converted
<1> QED
  BY <1>1, QuotationInvariant, PTL

\* While requests that overlap are about different quotations, that invoice carries what
\* the quotation offers.
THEOREM OfferIsKept == Spec /\ []RequestsApart => []InvoiceCarriesOffer
<1>1. Linked => InvoiceCarriesOffer
  BY DEF Linked, InUse, InvoiceCarriesOffer, FromQuotation
<1> QED
  BY <1>1, QuotationInvariant, PTL

-------------------------------------------------------------------------------
(* Roles.  The links of a role are deleted in one statement and created in  *)
(* another.  The invariant says where the submitted permissions are in      *)
(* between: in an edit that is under way (Submitted), or in the role        *)
(* (Kept), unless the server stopped (Restored).                            *)

\* Nothing but the permissions of the screen is followed.
Followed ==
    /\ granted \subseteq Watched(href)
    /\ UNION asked \subseteq Watched(href)

\* An edit of the role that is under way is one of the submissions.
Submitted == \A e \in OfRole : e.to \in asked

\* The role holds nothing that was not submitted, and all of some submission if
\* no edit deleted it and none was lost.
Kept ==
    /\ granted \subseteq UNION asked \/ role = "Super Admin"
    /\ OfRole = {} /\ ~cut => \E to \in asked : to \subseteq granted

\* A stop ends every edit, and the start after it completes Super Admin.
Restored ==
    cut => OfRole = {} /\ (role = "Super Admin" => granted = Watched(href))

RoleInv == Followed /\ Submitted /\ Kept /\ Restored

-------------------------------------------------------------------------------
\* The invariant says of the state without edits what the property says.
LEMMA RoleInvImplies == RoleInv => RoleAsSubmitted
BY DEF RoleInv, Followed, Submitted, Kept, Restored, RoleAsSubmitted

\* A role starts with its baseline, as if it had been submitted.
LEMMA RoleInit == WebInit => RoleInv
<1> SUFFICES ASSUME WebInit PROVE RoleInv
  OBVIOUS
<1>1. PICK name \in Roles(href) : AccessInit(Watched(href), name)
  BY DEF WebInit
<1>2. /\ granted \subseteq Watched(href)
      /\ asked = {granted} /\ edits = {} /\ cut = FALSE
  BY <1>1 DEF AccessInit
<1>3. OfRole = {}
  BY <1>2 DEF OfRole
<1> QED
  BY <1>2, <1>3 DEF RoleInv, Followed, Submitted, Kept, Restored

\* What leaves the role, its edits and the address alone keeps the invariant.
LEMMA RoleUnchanged ==
    RoleInv /\ UNCHANGED <<href, role, granted, edits, asked, cut>> => RoleInv'
<1> SUFFICES ASSUME RoleInv, UNCHANGED <<href, role, granted, edits, asked, cut>>
             PROVE  RoleInv'
  OBVIOUS
<1>1. Watched(href)' = Watched(href)
  OBVIOUS
<1>2. OfRole' = OfRole
  BY DEF OfRole
<1> QED
  BY <1>1, <1>2 DEF RoleInv, Followed, Submitted, Kept, Restored

\* deleteMany: the submission is under way, whatever was in the role.
LEMMA RoleUnlinked ==
    ASSUME RoleInv, UNCHANGED href, NEW id, NEW to \in SUBSET Watched(href), UnlinkRole(id, to)
    PROVE  RoleInv'
<1> DEFINE edit == [id |-> id, of |-> "role", to |-> to]
<1>1. /\ granted' = {} /\ role' = role
      /\ edits' = edits \cup {edit}
      /\ asked' = IF OfRole = {} THEN {to} ELSE asked \cup {to}
      /\ cut' = (cut /\ OfRole # {})
  BY DEF UnlinkRole, Unlinked
<1>2. OfRole' = OfRole \cup {edit}
  BY <1>1 DEF OfRole
<1>3. ~cut'
  BY <1>1 DEF RoleInv, Restored
<1>4. Followed'
  BY <1>1 DEF RoleInv, Followed
<1>5. Submitted'
  BY <1>1, <1>2 DEF RoleInv, Submitted
<1>6. Kept' /\ Restored'
  BY <1>1, <1>2, <1>3 DEF Kept, Restored
<1> QED
  BY <1>4, <1>5, <1>6 DEF RoleInv

\* createMany: a submission that was under way is in the role.
LEMMA RoleLinked == RoleInv /\ UNCHANGED href /\ LinkRole => RoleInv'
<1> SUFFICES ASSUME RoleInv, UNCHANGED href, LinkRole PROVE RoleInv'
  OBVIOUS
<1>1. PICK e \in OfRole : /\ granted' = granted \cup e.to
                          /\ edits' = edits \ {e}
                          /\ UNCHANGED <<role, assigned, off, asked, cut>>
  BY DEF LinkRole
<1>2. e.to \in asked
  BY DEF RoleInv, Submitted
<1>3. OfRole' = OfRole \ {e}
  BY <1>1 DEF OfRole
<1>4. Followed' /\ Submitted'
  BY <1>1, <1>2, <1>3 DEF RoleInv, Followed, Submitted
<1>5. ~cut'
  BY <1>1 DEF RoleInv, Restored
<1>6. Kept' /\ Restored'
  BY <1>1, <1>2, <1>5 DEF RoleInv, Kept, Restored
<1> QED
  BY <1>4, <1>6 DEF RoleInv

\* The edits of a user's roles do not count.
LEMMA UserEdits ==
    ASSUME RoleInv, UNCHANGED href, LinkUser \/ \E id \in Editors : UnlinkUser(id)
    PROVE  RoleInv'
<1>1. OfRole' = OfRole /\ UNCHANGED <<role, granted, asked, cut>>
  BY DEF OfRole, LinkUser, UnlinkUser
<1>2. Watched(href)' = Watched(href)
  OBVIOUS
<1> QED
  BY <1>1, <1>2 DEF RoleInv, Followed, Submitted, Kept, Restored

\* The server stops and starts.
LEMMA RoleRestarted == RoleInv /\ UNCHANGED href /\ Restart(Watched(href)) => RoleInv'
<1> SUFFICES ASSUME RoleInv, UNCHANGED href, Restart(Watched(href)) PROVE RoleInv'
  OBVIOUS
<1>1. OfRole' = {}
  BY DEF Restart, OfRole
<1>2. Followed' /\ Submitted' /\ Restored'
  BY <1>1 DEF Restart, RoleInv, Followed, Submitted, Restored
<1>3. Kept'
  BY <1>1 DEF Restart, RoleInv, Kept
<1> QED
  BY <1>2, <1>3 DEF RoleInv

\* Every step keeps the invariant.
LEMMA RoleStep == RoleInv /\ [WebNext]_webVars => RoleInv'
<1> SUFFICES ASSUME RoleInv, [WebNext]_webVars PROVE RoleInv'
  OBVIOUS
<1>1. CASE UNCHANGED <<href, role, granted, edits, asked, cut>>
  BY <1>1, RoleUnchanged
<1>2. CASE \/ UNCHANGED webVars \/ Reload \/ FetchFlags \/ Open \/ Turn \/ Answered \/ Show
           \/ Click \/ Serve \/ Settle \/ OthersWork
  <2>1. UNCHANGED <<href, accessVars>>
    BY <1>2 DEF webVars, Reload, FetchFlags, Open, Turn, Answered, Show, Click, Serve, Settle,
                OthersWork, ByOthers
  <2> QED
    BY <2>1, <1>1 DEF accessVars
<1>3. CASE OthersSwitch
  <2>1. UNCHANGED href
    BY <1>3 DEF OthersSwitch, ByOthers
  <2>2. UNCHANGED <<role, granted, edits, asked, cut>>
    BY <1>3 DEF OthersSwitch, Switch
  <2> QED
    BY <2>1, <2>2, <1>1
<1>4. CASE OthersEdit
  <2>1. UNCHANGED href
    BY <1>4 DEF OthersEdit, ByOthers
  <2>2. CASE \E id \in Editors, to \in {Watched(href), {gate}} : UnlinkRole(id, to)
    <3>1. {gate} \subseteq Watched(href)
      BY DEF gate, Watched
    <3> QED
      BY <2>1, <2>2, <3>1, RoleUnlinked
  <2>3. CASE \E id \in Editors : UnlinkUser(id)
    BY <2>1, <2>3, UserEdits
  <2> QED
    BY <1>4, <2>2, <2>3 DEF OthersEdit
<1>5. CASE OthersFinish
  BY <1>5, RoleLinked, UserEdits DEF OthersFinish
<1>6. CASE ServerRestarts
  BY <1>6, RoleRestarted DEF ServerRestarts, ByOthers
<1> QED
  BY <1>2, <1>3, <1>4, <1>5, <1>6 DEF WebNext

-------------------------------------------------------------------------------
\* Once no edit of a role is under way, the role holds all of one submission and
\* nothing that was not submitted, however edits overlapped and whenever the server
\* was restarted; and Super Admin gets back what a stopped edit had deleted.
THEOREM RolesKeepSubmissions == WebSpec => []RoleAsSubmitted
<1>1. WebSpec => []RoleInv
  BY RoleInit, RoleStep, PTL DEF WebSpec
<1> QED
  BY <1>1, RoleInvImplies, PTL
-------------------------------------------------------------------------------
(* Pages: what a screen shows and offers.                                   *)

\* The button in use, and the screen it stands on.
Pressed == page.offers[call.button]

\* A request that has been sent for the button itself, or for what follows it.
AtFirst ==
    \/ call.left = <<Pressed.call>>
    \/ Pressed.follow # <<>> /\ call.left = <<Pressed.call, Pressed.follow[1]>>
AtSecond == Pressed.follow # <<>> /\ call.left = <<Pressed.follow[1]>>

\* The row is one that the services know.
Sited == href \in DOMAIN Screens /\ row \in RowStates

\* A request that has not been served was offered on the row that it expects, and one that
\* follows another finds the row, if it finds its own, where that one may have taken it.
Calling ==
    call # NoCall =>
        /\ DOMAIN call = {"button", "left", "expect", "other"}
        /\ call.button \in DOMAIN page.offers
        /\ \/ AtFirst /\ (OnPage(Pressed) \/ call.expect \in Pressed.on)
           \/ /\ AtSecond
              /\ call.other \/ \E status \in RowStates :
                                   call.expect \in Outcomes(Pressed.call, status)
           \/ call.left = <<>>

\* What the user is shown, or about to be shown, is what the user's last request left,
\* unless the list is going to be discarded at the end of one under way, or could not be
\* discarded because it was not there yet.
Current ==
    \/ outrun
    \/ call # NoCall /\ ~AtFirst /\ page.key \in Pressed.clears
    \/ /\ list = "shown" => seen = Listed(row)
       /\ answer # Unread => answer = Listed(row)

\* What a refusal says.
Refusals ==
    /\ RefusedOnlyWhenStale
    /\ PageOpens

PagesInv == Sited /\ Calling /\ (own => Current) /\ Refusals

\* The pressed button is one of the screen.
LEMMA PressedKnown ==
    ASSUME Sited, Calling, call # NoCall
    PROVE  /\ Pressed \in Buttons(href)
           /\ Pressed.follow = <<>> \/ /\ Pressed.follow = <<Pressed.follow[1]>>
                                       /\ Pressed.follow[1] # Pressed.call
<1>1. Pressed \in Buttons(href)
  BY DEF Calling, Pressed, Buttons, page
<1> QED
  BY <1>1, FollowAssumption DEF Sited

\* Two sequences of one element each.
LEMMA Joined == ASSUME NEW a, NEW b PROVE <<a>> \o <<b>> = <<a, b>>
<1> DEFINE s == <<a>> \o <<b>>
<1>1. <<a>> \in Seq({a, b}) /\ <<b>> \in Seq({a, b})
  OBVIOUS
<1>2. s \in Seq({a, b}) /\ Len(s) = 2 /\ s[1] = a /\ s[2] = b
  BY <1>1
<1> HIDE DEF s
<1>3. s = [i \in 1..2 |-> s[i]]
  BY <1>2
<1>4. 1..2 = {1, 2}
  OBVIOUS
<1>5. [i \in 1..2 |-> s[i]] = <<a, b>>
  BY <1>2, <1>4
<1> QED
  BY <1>3, <1>5 DEF s

\* The requests of a button.
LEMMA Requested ==
    ASSUME NEW offer, offer.follow = <<>> \/ offer.follow = <<offer.follow[1]>>
    PROVE  /\ \/ Endpoints(offer) = <<offer.call>>
              \/ offer.follow # <<>> /\ Endpoints(offer) = <<offer.call, offer.follow[1]>>
           /\ offer.follow = <<>> => Range(offer.follow) = {}
           /\ offer.follow # <<>> => Range(offer.follow) = {offer.follow[1]}
<1>1. CASE offer.follow = <<>>
  <2>1. Range(offer.follow) = {}
    BY <1>1 DEF Range
  <2>2. <<offer.call>> \o <<>> = <<offer.call>>
    OBVIOUS
  <2> QED
    BY <1>1, <2>1, <2>2 DEF Endpoints
<1>2. CASE offer.follow # <<>>
  <2> DEFINE f == offer.follow[1]
  <2>1. offer.follow = <<f>>
    BY <1>2
  <2>2. Range(offer.follow) = {f}
    BY <2>1 DEF Range
  <2>3. <<offer.call>> \o <<f>> = <<offer.call, f>>
    BY Joined
  <2> HIDE DEF f
  <2>4. <<offer.call>> \o offer.follow = <<offer.call, f>>
    BY <2>1, <2>3
  <2>5. Endpoints(offer) \in {<<offer.call>>, <<offer.call, f>>}
    BY <2>4 DEF Endpoints
  <2> QED
    BY <1>2, <2>2, <2>5 DEF f
<1> QED
  BY <1>1, <1>2

\* At the start nothing is shown, and nothing has been done.
LEMMA PagesInit == WebInit => PagesInv
<1> SUFFICES ASSUME WebInit PROVE PagesInv
  OBVIOUS
<1>1. Sited
  BY AddressesAssumption, RowsAssumption DEF WebInit, Sited, page, RowStates
<1>2. Calling /\ ~own
  BY DEF WebInit, Calling
<1>3. Refusals
  BY DEF WebInit, Refusals, RefusedOnlyWhenStale, PageOpens
<1> QED
  BY <1>1, <1>2, <1>3 DEF PagesInv

\* A step in which nothing is refused has nothing to say of refusals.
LEMMA NoRefusal == failure' = "none" => Refusals'
BY DEF Refusals, RefusedOnlyWhenStale, PageOpens

\* A step that leaves the request alone.
LEMMA CallStays == Sited /\ Calling /\ UNCHANGED <<href, call>> => Calling'
<1> SUFFICES ASSUME Calling, UNCHANGED <<href, call>> PROVE Calling'
  OBVIOUS
<1>1. page' = page
  BY DEF page
<1>2. Pressed' = Pressed
  BY <1>1 DEF Pressed
<1>3. (AtFirst <=> AtFirst') /\ (AtSecond <=> AtSecond')
  BY <1>2 DEF AtFirst, AtSecond
<1> QED
  BY <1>1, <1>2, <1>3 DEF Calling, OnPage

\* A step that also leaves the row, the list and what is known of the row.
LEMMA ViewStays ==
    ASSUME PagesInv, UNCHANGED <<href, call, row, screenVars>>, own' => own, Refusals'
    PROVE  PagesInv'
<1>1. page' = page /\ Pressed' = Pressed
  BY DEF page, Pressed
<1>2. AtFirst <=> AtFirst'
  BY <1>1 DEF AtFirst
<1>3. Current => Current'
  BY <1>1, <1>2 DEF Current, screenVars, Listed
<1>4. Sited' /\ Calling'
  BY CallStays DEF PagesInv, Sited
<1> QED
  BY <1>3, <1>4 DEF PagesInv

\* What an up to date client thinks it may do, the server lets it.
LEMMA CanIsAllowed ==
    ASSUME UpToDate, NEW endpoint, \A p \in Required(endpoint) : can(p)
    PROVE  Allowed(endpoint)
<1>1. \A p \in Required(endpoint) : p \notin off /\ (isDeveloper \/ p \in HeldPermissions)
  BY DEF UpToDate, can, CurrentUser
<1> QED
  BY <1>1 DEF Allowed, featureForPermission, isEnabled

\* The list is fetched again, answered, and shown.
LEMMA Fetched ==
    ASSUME PagesInv, Open \/ Turn \/ Answered \/ Show
    PROVE  PagesInv'
<1>1. UNCHANGED <<href, call, row, own>>
  BY DEF Open, Turn, Answered, Show
<1>2. page' = page /\ Pressed' = Pressed /\ Listed(row)' = Listed(row)
  BY <1>1 DEF page, Pressed, Listed
<1>3. AtFirst <=> AtFirst'
  BY <1>1, <1>2 DEF AtFirst
<1>4. Sited' /\ Calling'
  BY <1>1, CallStays DEF PagesInv, Sited
<1>5. CASE Open \/ Turn
  <2>1. Current'
    BY <1>5 DEF Open, Turn, Fetching, Current
  <2>2. Refusals'
    BY <1>5, NoRefusal DEF Open, Turn
  <2> QED
    BY <1>4, <2>1, <2>2 DEF PagesInv
<1>6. CASE Answered
  <2>1. Current => Current'
    BY <1>1, <1>2, <1>3, <1>6 DEF Answered, Current
  <2>2. ASSUME UpToDate, can(gate), NEW endpoint, Required(endpoint) \subseteq {gate}
        PROVE  Allowed(endpoint)
    BY <2>2, CanIsAllowed
  <2>3. CASE failure' = "none"
    BY <1>4, <1>1, <2>1, <2>3, NoRefusal DEF PagesInv
  <2>4. CASE failure' # "none"
    <3>1. UpToDate /\ can(gate)
      BY <1>6, <2>4 DEF Answered, RefusedFor
    <3>2. Granted(page.reads)
      <4> SUFFICES ASSUME NEW endpoint \in page.reads PROVE Allowed(endpoint)
        BY DEF Granted
      <4>1. Required(endpoint) \subseteq {gate}
        BY ReadsAssumption DEF PagesInv, Sited, page, gate
      <4> QED
        BY <2>2, <3>1, <4>1
    <3>3. failure' = "options" /\ ~Granted(page.also)
      BY <1>6, <2>4, <3>1, <3>2 DEF Answered, RefusedFor
    <3>4. PICK endpoint \in page.also : ~(Required(endpoint) \subseteq {gate})
      BY <2>2, <3>1, <3>3 DEF Granted
    <3>5. href \in ReadingElsewhere
      BY <3>4, ReadsAssumption DEF PagesInv, Sited, page, gate
    <3>6. Refusals'
      BY <1>1, <3>3, <3>5 DEF Refusals, RefusedOnlyWhenStale, PageOpens
    <3> QED
      BY <1>1, <1>4, <2>1, <3>6 DEF PagesInv
  <2> QED
    BY <2>3, <2>4
<1>7. CASE Show
  <2>1. Current => Current'
    BY <1>1, <1>2, <1>3, <1>7 DEF Show, Current
  <2>2. Refusals'
    BY <1>7, NoRefusal DEF Show
  <2> QED
    BY <1>1, <1>4, <2>1, <2>2 DEF PagesInv
<1> QED
  BY <1>5, <1>6, <1>7

\* A button is used: the row it was offered on is the one that is shown.
LEMMA Clicked == PagesInv /\ Click => PagesInv'
<1> SUFFICES ASSUME PagesInv, Click PROVE PagesInv'
  OBVIOUS
<1>1. /\ call = NoCall /\ UNCHANGED <<href, row, screenVars, own>> /\ failure' = "none"
  BY DEF Click
<1>2. page' = page
  BY <1>1 DEF page
<1>3. PICK b \in DOMAIN page.offers :
         /\ Offered(page.offers[b])
         /\ call' = [button |-> b, left |-> Endpoints(page.offers[b]), expect |-> seen,
                     other |-> FALSE]
  BY DEF Click
<1> DEFINE offer == page.offers[b]
<1>4. Pressed' = offer
  BY <1>2, <1>3 DEF Pressed
<1>5. offer.follow = <<>> \/ offer.follow = <<offer.follow[1]>>
  <2>1. offer \in Buttons(href)
    BY DEF Buttons, page
  <2> QED
    BY <2>1, FollowAssumption DEF PagesInv, Sited
<1>6. AtFirst'
  <2>1. \/ Endpoints(offer) = <<offer.call>>
        \/ offer.follow # <<>> /\ Endpoints(offer) = <<offer.call, offer.follow[1]>>
    BY <1>5, Requested
  <2>2. call'.left = Endpoints(offer)
    BY <1>3
  <2> HIDE DEF offer
  <2> QED
    BY <1>4, <2>1, <2>2 DEF AtFirst
<1>7. OnPage(offer) \/ seen \in offer.on
  BY <1>3 DEF Offered
<1>8. Calling'
  <2>1. /\ DOMAIN call' = {"button", "left", "expect", "other"}
        /\ call'.button = b /\ call'.expect = seen
    BY <1>3
  <2>2. OnPage(Pressed)' \/ call'.expect \in Pressed'.on
    BY <1>4, <1>7, <2>1 DEF OnPage
  <2> QED
    BY <1>2, <1>6, <2>1, <2>2 DEF Calling
<1>9. own' => Current'
  <2>1. own => Current
    BY DEF PagesInv
  <2> QED
    BY <1>1, <1>2, <2>1 DEF Current, screenVars, Listed
<1>10. Sited' /\ Refusals'
  BY <1>1, NoRefusal DEF PagesInv, Sited
<1> QED
  BY <1>8, <1>9, <1>10 DEF PagesInv

\* The request that is to be served, and where it may take the row.
LEMMA Heads ==
    ASSUME PagesInv, call # NoCall, call.left # <<>>
    PROVE  /\ AtFirst \/ AtSecond
           /\ AtFirst <=> call.left[1] = Pressed.call
           /\ AtFirst => Tail(call.left) \in {<<>>, <<Pressed.follow[1]>>}
           /\ AtFirst /\ Pressed.follow = <<>> => Tail(call.left) = <<>>
           /\ AtSecond => call.left[1] = Pressed.follow[1] /\ Tail(call.left) = <<>>
           /\ call.left[1] \in {Pressed.call} \cup Range(Pressed.follow)
<1>1. AtFirst \/ AtSecond
  BY DEF PagesInv, Calling
<1>2. Pressed.follow = <<>> \/ /\ Pressed.follow = <<Pressed.follow[1]>>
                               /\ Pressed.follow[1] # Pressed.call
  BY PressedKnown DEF PagesInv
<1>3. /\ Pressed.follow = <<>> => Range(Pressed.follow) = {}
      /\ Pressed.follow # <<>> => Range(Pressed.follow) = {Pressed.follow[1]}
  BY <1>2, Requested
<1>4. ASSUME NEW c, NEW d
      PROVE  /\ <<c>>[1] = c /\ <<c, d>>[1] = c
             /\ Tail(<<c>>) = <<>> /\ Tail(<<c, d>>) = <<d>>
  OBVIOUS
<1>5. /\ AtFirst => call.left[1] = Pressed.call
      /\ AtFirst => Tail(call.left) \in {<<>>, <<Pressed.follow[1]>>}
      /\ AtFirst /\ Pressed.follow = <<>> => Tail(call.left) = <<>>
  <2> DEFINE c == Pressed.call
             d == Pressed.follow[1]
  <2>1. /\ <<c>>[1] = c /\ <<c, d>>[1] = c
        /\ Tail(<<c>>) = <<>> /\ Tail(<<c, d>>) = <<d>>
    BY <1>4
  <2>2. AtFirst <=> \/ call.left = <<c>>
                    \/ Pressed.follow # <<>> /\ call.left = <<c, d>>
    BY DEF AtFirst
  <2> HIDE DEF c, d
  <2>3. /\ AtFirst => call.left[1] = c
        /\ AtFirst => Tail(call.left) \in {<<>>, <<d>>}
        /\ AtFirst /\ Pressed.follow = <<>> => Tail(call.left) = <<>>
    BY <2>1, <2>2
  <2> QED
    BY <2>3 DEF c, d
<1>6. AtSecond => call.left[1] = Pressed.follow[1] /\ Tail(call.left) = <<>>
  BY <1>4 DEF AtSecond
<1>7. AtSecond => call.left[1] # Pressed.call
  BY <1>2, <1>6 DEF AtSecond
<1>8. call.left[1] \in {Pressed.call} \cup Range(Pressed.follow)
  BY <1>1, <1>3, <1>5, <1>6 DEF AtSecond
<1> QED
  BY <1>1, <1>5, <1>6, <1>7, <1>8

\* The server takes the row somewhere.
LEMMA Accepts ==
    ASSUME PagesInv, call # NoCall, call.left # <<>>, UNCHANGED <<href, screenVars>>,
           NEW to \in Targets(call.left[1]), Taken(to)
    PROVE  PagesInv'
<1> DEFINE endpoint == call.left[1]
<1>1. /\ row' = to /\ own' = (own \/ to # row) /\ failure' = "none"
      /\ call' = [call EXCEPT !.left = Tail(@), !.expect = to, !.other = Elsewhere]
  BY DEF Taken
<1>2. page' = page
  BY DEF page
<1>3. DOMAIN call = {"button", "left", "expect", "other"} /\ call.button \in DOMAIN page.offers
  BY DEF PagesInv, Calling
<1>4. /\ DOMAIN call' = {"button", "left", "expect", "other"}
      /\ call'.button = call.button /\ call'.left = Tail(call.left)
      /\ call'.expect = to /\ call'.other = Elsewhere
  BY <1>1, <1>3
<1>5. Pressed' = Pressed
  BY <1>2, <1>4 DEF Pressed
<1>6. Pressed \in Buttons(href) /\ href \in DOMAIN Screens /\ row \in RowStates
  BY PressedKnown DEF PagesInv, Sited
<1>7. to = row \/ to \in Outcomes(endpoint, row)
  BY DEF Targets
<1>8. Sited'
  <2>1. Outcomes(endpoint, row) \subseteq RowStates
    BY <1>6, Heads, RowsAssumption
  <2> QED
    BY <1>1, <1>6, <1>7, <2>1 DEF Sited
<1>9. ASSUME Tail(call.left) # <<>> PROVE AtSecond' /\ AtFirst
  <2>1. /\ AtFirst /\ Pressed.follow # <<>>
        /\ Tail(call.left) = <<Pressed.follow[1]>>
    BY <1>9, Heads
  <2> QED
    BY <1>4, <1>5, <2>1 DEF AtSecond
<1>10. Calling'
  <2>1. ASSUME AtFirst
        PROVE  Elsewhere \/ \E status \in RowStates : to \in Outcomes(Pressed.call, status)
    <3>1. endpoint = Pressed.call
      BY <2>1, Heads
    <3> QED
      BY <1>6, <1>7, <3>1 DEF Targets
  <2>2. call'.left = <<>> \/ AtSecond'
    BY <1>4, <1>9
  <2>3. call'.left # <<>> =>
           call'.other \/ \E status \in RowStates : call'.expect \in Outcomes(Pressed.call, status)
    BY <1>4, <1>9, <2>1
  <2> QED
    BY <1>2, <1>3, <1>4, <1>5, <1>9, <2>1, <2>2 DEF Calling
<1>11. ~AtFirst' /\ call' # NoCall
  <2>1. DOMAIN NoCall = {"button"}
    BY DEF NoCall
  <2>2. Pressed.follow = <<>> \/ Pressed.follow[1] # Pressed.call
    BY PressedKnown DEF PagesInv
  <2> DEFINE c == Pressed.call
             d == Pressed.follow[1]
  <2>3. <<>> # <<c>> /\ <<>> # <<c, d>> /\ <<d>> # <<c, d>> /\ (<<d>> = <<c>> => d = c)
    OBVIOUS
  <2>4. AtFirst' => call'.left = <<c>> \/ (Pressed.follow # <<>> /\ call'.left = <<c, d>>)
    BY <1>5 DEF AtFirst
  <2>5. call'.left = <<>> \/ (Pressed.follow # <<>> /\ call'.left = <<d>>)
    BY <1>4, <1>5, <1>9 DEF AtSecond
  <2>8. Pressed.follow = <<>> \/ d # c
    BY <2>2
  <2> HIDE DEF c, d
  <2>7. ~AtFirst'
    BY <2>3, <2>4, <2>5, <2>8
  <2>6. call' # NoCall
    BY <1>4, <2>1
  <2> QED
    BY <2>6, <2>7
<1>12. own' => Current'
  <2>1. CASE page.key \in Pressed.clears
    BY <1>2, <1>5, <1>11, <2>1 DEF Current
  <2>2. CASE page.key \notin Pressed.clears
    <3>1. Pressed.follow = <<>> /\ Outcomes(Pressed.call, row) \subseteq {row}
      BY <1>6, <2>2, ClearsAssumption DEF page
    <3>2. endpoint = Pressed.call
      BY <3>1, Heads DEF AtSecond
    <3>3. to = row
      BY <1>7, <3>1, <3>2
    <3>4. own => Current
      BY DEF PagesInv
    <3>5. row' = row /\ (own' => own) /\ Listed(row)' = Listed(row)
      BY <1>1, <1>2, <3>3 DEF Listed
    <3> QED
      BY <2>2, <3>4, <3>5 DEF Current, screenVars
  <2> QED
    BY <2>1, <2>2
<1> QED
  BY <1>1, <1>8, <1>10, <1>12, NoRefusal DEF PagesInv

\* A request that the client has every reason to send is not refused.
LEMMA Works ==
    ASSUME PagesInv, call # NoCall, call.left # <<>>, AsExpected,
           <<href, call.button>> \notin OfferedInVain
    PROVE  Allowed(call.left[1]) /\ Targets(call.left[1]) # {}
<1> DEFINE endpoint == call.left[1]
           offer    == Pressed
<1>1. /\ UpToDate /\ Permitted(offer)
      /\ endpoint \in Range(Endpoints(offer))
      /\ row = call.expect \/ (OnPage(offer) /\ endpoint = offer.call)
  BY DEF AsExpected, Pressed
<1>2. /\ offer \in Buttons(href) /\ href \in DOMAIN Screens
      /\ offer.follow = <<>> \/ (offer.follow = <<offer.follow[1]>> /\ offer.follow[1] # offer.call)
  BY PressedKnown DEF PagesInv, Sited
<1>3. /\ \/ Required(offer.call) \subseteq {gate}
         \/ offer.asks # {} /\ \A p \in offer.asks : Required(offer.call) \subseteq {gate, p}
      /\ \A status \in offer.on : Outcomes(offer.call, status) # {}
      /\ \A f \in Range(offer.follow), status \in RowStates :
            \A to \in Outcomes(offer.call, status) : Outcomes(f, to) # {}
  <2>1. call.button \in DOMAIN Screens[href].offers /\ offer = Screens[href].offers[call.button]
    BY DEF PagesInv, Calling, Pressed, page
  <2> DEFINE rest == {b \in DOMAIN Screens[href].offers : <<href, b>> \notin OfferedInVain}
  <2>2. call.button \in rest
    BY <2>1
  <2> DEFINE fits(o, address) ==
         /\ \/ Required(o.call) \subseteq {permissionForPath(address)}
            \/ o.asks # {} /\ \A p \in o.asks :
                  Required(o.call) \subseteq {permissionForPath(address), p}
         /\ \A status \in o.on : Outcomes(o.call, status) # {}
         /\ \A f \in Range(o.follow), status \in RowStates :
               \A to \in Outcomes(o.call, status) : Outcomes(f, to) # {}
  <2>3. \A b \in rest : fits(Screens[href].offers[b], href)
    BY <1>2, OffersAssumption, Zenon
  <2> HIDE DEF fits, rest, offer
  <2>4. fits(offer, href)
    BY <2>1, <2>2, <2>3
  <2> QED
    BY <2>4 DEF fits, gate
<1>4. /\ AtFirst \/ AtSecond
      /\ AtFirst <=> endpoint = offer.call
      /\ AtSecond => endpoint = offer.follow[1] /\ offer.follow # <<>>
  BY Heads DEF AtSecond
<1>5. /\ AtFirst => OnPage(offer) \/ call.expect \in offer.on
      /\ AtSecond => call.other \/ \E status \in RowStates :
                                       call.expect \in Outcomes(offer.call, status)
  <2>1. call.left = <<>> \/ ~(AtFirst /\ AtSecond)
    BY <1>2, <1>4
  <2> QED
    BY <2>1, <1>2, <1>4 DEF PagesInv, Calling
<1>6. CASE AtFirst
  <2>1. Allowed(endpoint)
    <3>1. can(gate) /\ (offer.asks = {} \/ \E p \in offer.asks : can(p))
      BY <1>1 DEF Permitted
    <3>2. \A p \in Required(offer.call) : can(p)
      BY <1>3, <3>1
    <3> QED
      BY <1>1, <1>4, <1>6, <3>2, CanIsAllowed
  <2>2. CASE Elsewhere
    BY <2>1, <2>2 DEF Targets
  <2>3. CASE ~Elsewhere
    <3>1. OnPage(offer) => row = "absent"
      BY <1>4, <1>6, <2>3 DEF Elsewhere, Pressed
    <3>2. row \in offer.on
      BY <1>1, <1>5, <1>6, <3>1 DEF OnPage
    <3> QED
      BY <1>3, <1>4, <1>6, <2>1, <2>3, <3>2 DEF Targets
  <2> QED
    BY <2>1, <2>2, <2>3
<1>7. CASE ~AtFirst
  <2>1. /\ AtSecond /\ endpoint # offer.call /\ endpoint = offer.follow[1]
        /\ Range(offer.follow) = {endpoint} /\ row = call.expect
    BY <1>1, <1>2, <1>4, <1>7, Requested
  <2>2. Allowed(endpoint)
    <3>1. ASSUME NEW c PROVE Range(<<c>>) = {c}
      BY DEF Range
    <3>2. Endpoints(offer) # <<offer.call>>
      BY <1>1, <2>1, <3>1
    <3>3. \A p \in Required(endpoint) : can(p)
      BY <2>1, <3>2 DEF Endpoints
    <3> QED
      BY <1>1, <3>3, CanIsAllowed
  <2>3. CASE call.other
    BY <2>2, <2>3 DEF Targets, Elsewhere
  <2>4. CASE ~call.other
    <3>1. Outcomes(endpoint, row) # {}
      BY <1>3, <1>5, <2>1, <2>4
    <3> QED
      BY <2>2, <3>1 DEF Targets, Elsewhere
  <2> QED
    BY <2>2, <2>3, <2>4
<1> QED
  BY <1>6, <1>7

\* The server refuses.
LEMMA Declined ==
    ASSUME PagesInv, call # NoCall, call.left # <<>>, UNCHANGED <<href, screenVars>>, Refused,
           ~(Allowed(call.left[1]) /\ Targets(call.left[1]) # {})
    PROVE  PagesInv'
<1>1. /\ call' = NoCall /\ row' = row
      /\ own' = (own /\ call.left[1] = Pressed.call)
      /\ failure' = IF AsExpected THEN call.button ELSE "none"
  BY DEF Refused, Pressed
<1>2. page' = page /\ Listed(row)' = Listed(row)
  BY <1>1 DEF page, Listed
<1>3. Sited' /\ Calling'
  BY <1>1 DEF PagesInv, Sited, Calling
<1>4. own' => Current'
  <2>1. own' => own /\ AtFirst
    BY <1>1, Heads
  <2> QED
    BY <1>1, <1>2, <2>1 DEF PagesInv, Current, screenVars
<1>5. Refusals'
  <2>1. CASE AsExpected
    <3>1. <<href, call.button>> \in OfferedInVain
      BY <2>1, Works
    <3>2. call.button \notin {"list", "options"}
      BY ReadsAssumption DEF PagesInv, Sited, Calling, page
    <3> QED
      BY <1>1, <2>1, <3>1, <3>2 DEF Refusals, RefusedOnlyWhenStale, PageOpens
  <2>2. CASE ~AsExpected
    BY <1>1, <2>2, NoRefusal
  <2> QED
    BY <2>1, <2>2
<1> QED
  BY <1>3, <1>4, <1>5 DEF PagesInv

LEMMA Served == PagesInv /\ Serve => PagesInv'
<1> SUFFICES ASSUME PagesInv, Serve PROVE PagesInv'
  OBVIOUS
<1>1. call # NoCall /\ call.left # <<>> /\ UNCHANGED <<href, screenVars>>
  BY DEF Serve
<1>2. CASE Allowed(call.left[1]) /\ Targets(call.left[1]) # {}
  <2>1. PICK to \in Targets(call.left[1]) : Taken(to)
    BY <1>2 DEF Serve
  <2> QED
    BY <1>1, <2>1, Accepts
<1>3. CASE ~(Allowed(call.left[1]) /\ Targets(call.left[1]) # {})
  <2>1. Refused
    BY <1>3 DEF Serve
  <2> QED
    BY <1>1, <1>3, <2>1, Declined
<1> QED
  BY <1>2, <1>3

\* All went well, and the list is fetched again if the button discards it.
LEMMA Settled == PagesInv /\ Settle => PagesInv'
<1> SUFFICES ASSUME PagesInv, Settle PROVE PagesInv'
  OBVIOUS
<1>1. /\ call # NoCall /\ call.left = <<>> /\ call' = NoCall /\ failure' = "none"
      /\ UNCHANGED <<href, row, seen, own>>
  BY DEF Settle
<1>2. page' = page /\ Listed(row)' = Listed(row)
  BY <1>1 DEF page, Listed
<1>3. Sited' /\ Calling' /\ Refusals'
  BY <1>1, NoRefusal DEF PagesInv, Sited, Calling
<1>4. own => Current'
  <2>1. CASE page.key \in Pressed.clears
    <3>1. outrun' \/ Fetching
      BY <2>1 DEF Settle, Invalidated, Pressed
    <3> QED
      BY <3>1 DEF Fetching, Current
  <2>2. CASE page.key \notin Pressed.clears
    <3>1. UNCHANGED <<list, answer, outrun>>
      BY <2>2 DEF Settle, Pressed
    <3> QED
      BY <1>1, <1>2, <2>2, <3>1 DEF PagesInv, Current
  <2> QED
    BY <2>1, <2>2
<1> QED
  BY <1>1, <1>3, <1>4 DEF PagesInv

\* Others take the row elsewhere on the same screen.
LEMMA Worked == PagesInv /\ OthersWork => PagesInv'
<1> SUFFICES ASSUME PagesInv, OthersWork PROVE PagesInv'
  OBVIOUS
<1>1. UNCHANGED <<href, call>> /\ ~own' /\ failure' = "none"
  BY DEF OthersWork, ByOthers
<1>2. PICK b \in DOMAIN page.offers : row' \in Outcomes(page.offers[b].call, row)
  BY DEF OthersWork
<1>3. page.offers[b] \in Buttons(href) /\ href \in DOMAIN Screens /\ row \in RowStates
  BY DEF Buttons, page, PagesInv, Sited
<1>4. Outcomes(page.offers[b].call, row) \subseteq RowStates
  BY <1>3, RowsAssumption
<1>5. Sited'
  BY <1>1, <1>2, <1>3, <1>4 DEF Sited
<1> QED
  BY <1>1, <1>5, CallStays, NoRefusal DEF PagesInv

\* Every step keeps the invariant.
LEMMA PagesStep == PagesInv /\ [WebNext]_webVars => PagesInv'
<1> SUFFICES ASSUME PagesInv, [WebNext]_webVars PROVE PagesInv'
  OBVIOUS
<1>1. CASE Reload
  <2>1. UNCHANGED <<href, row>> /\ call' = NoCall /\ ~own' /\ failure' = "none"
    BY <1>1 DEF Reload
  <2> QED
    BY <2>1, NoRefusal DEF PagesInv, Sited, Calling
<1>2. CASE Open \/ Turn \/ Answered \/ Show
  BY <1>2, Fetched
<1>3. CASE Click \/ Serve \/ Settle \/ OthersWork
  BY <1>3, Clicked, Served, Settled, Worked
<1>4. CASE FetchFlags \/ OthersSwitch \/ OthersEdit \/ OthersFinish \/ ServerRestarts
  <2>1. UNCHANGED <<href, call, row, screenVars, own>> /\ failure' = "none"
    BY <1>4 DEF FetchFlags, OthersSwitch, OthersEdit, OthersFinish, ServerRestarts, ByOthers
  <2> QED
    BY <2>1, ViewStays, NoRefusal
<1>5. CASE UNCHANGED webVars
  <2>1. UNCHANGED <<href, call, row, screenVars, own, failure>>
    BY <1>5 DEF webVars
  <2>2. Refusals'
    BY <2>1 DEF PagesInv, Refusals, RefusedOnlyWhenStale, PageOpens
  <2> QED
    BY <2>1, <2>2, ViewStays
<1> QED
  BY <1>1, <1>2, <1>3, <1>4, <1>5 DEF WebNext

LEMMA PagesAlways == WebSpec => []PagesInv
BY PagesInit, PagesStep, PTL DEF WebSpec

\* A user who changed a row and has the answer is not shown the row as it was before, on any
\* screen, whatever others do meanwhile: an answer that was under way to a list with rows on
\* the page is dropped.  The exception is the first answer to a query, which is not.
THEOREM PagesShowOwnRequests == WebSpec => []OwnWritesShown
<1>1. PagesInv => OwnWritesShown
  BY DEF PagesInv, Current, OwnWritesShown
<1> QED
  BY <1>1, PagesAlways, PTL

\* A button that is shown works, both its requests included, unless the page is out of
\* date, for any roles, changes of roles and features, restarts and other users.
THEOREM ButtonsWork == WebSpec => []RefusedOnlyWhenStale
<1>1. PagesInv => RefusedOnlyWhenStale
  BY DEF PagesInv, Refusals
<1> QED
  BY <1>1, PagesAlways, PTL

\* The gate of an address grants the list of its screen, to every role and whatever is
\* edited meanwhile, and all that the screen fetches but for those in ReadingElsewhere.
THEOREM PagesCanRead == WebSpec => []PageOpens
<1>1. PagesInv => PageOpens
  BY DEF PagesInv, Refusals
<1> QED
  BY <1>1, PagesAlways, PTL

-------------------------------------------------------------------------------
(* Sessions: the shape of what the browser and the server keep.             *)

ServerRequest ==
    [stage : {"sent", "read", "hashed", "refused", "answered"},
     op : {"refresh", "login", "logout", "password"},
     token : Nat, cookie : Nat, seen : Nat, answer : Tokens]
CallRow == [stage : {"sent", "denied", "retry", "resent", "done", "failed"}, access : Nat]

SessionRows ==
    /\ version \in Nat \ {0} /\ issued \in Nat /\ expired \in 0..issued
    /\ jar \in Tokens /\ memory \in [Tabs -> Tokens] /\ listens \subseteq Tabs
    /\ channel \in [Tabs \X Tabs -> Seq(Tokens)]
    /\ calls \in [Calls -> CallRow]
    /\ refreshing \in [Tabs -> {NoRequest} \cup ServerRequest]
    /\ requests \in [Tabs -> {NoRequest} \cup ServerRequest]

\* A request that has a stage was sent.
LEMMA RequestShape ==
    ASSUME NEW r \in {NoRequest} \cup ServerRequest
    PROVE  r.stage # "none" => r \in ServerRequest /\ r # NoRequest
BY DEF NoRequest, ServerRequest

LEMMA SentShape ==
    ASSUME SessionRows, NEW op \in {"refresh", "login", "logout", "password"}, NEW token \in Nat
    PROVE  Sent(op, token) \in ServerRequest
BY DEF SessionRows, Sent, ServerRequest, Tokens, NoTokens

LEMMA PresentedShape ==
    ASSUME SessionRows, NEW t \in Tabs
    PROVE  Presented(t) \in Nat /\ RefreshWith(t) \in Nat
BY DEF SessionRows, Presented, RefreshWith, Tokens

LEMMA PublishedShape ==
    ASSUME SessionRows, NEW t \in Tabs, NEW tokens \in Tokens
    PROVE  /\ Published(t, tokens) \in [Tabs \X Tabs -> Seq(Tokens)]
           /\ \A a, b \in Tabs : Published(t, tokens)[<<a, b>>] =
                 IF a = t /\ b # t /\ b \in listens THEN Append(channel[<<a, b>>], tokens)
                 ELSE channel[<<a, b>>]
<1>1. \A x \in Tabs \X Tabs : channel[x] \in Seq(Tokens)
  BY DEF SessionRows
<1>2. \A x \in Tabs \X Tabs : Published(t, tokens)[x] \in Seq(Tokens)
  BY <1>1 DEF Published
<1>3. Published(t, tokens) \in [Tabs \X Tabs -> Seq(Tokens)]
  BY <1>2 DEF Published
<1>4. \A a, b \in Tabs : <<a, b>>[1] = a /\ <<a, b>>[2] = b /\ <<a, b>> \in Tabs \X Tabs
  OBVIOUS
<1>5. \A a, b \in Tabs : Published(t, tokens)[<<a, b>>] =
         IF a = t /\ b # t /\ b \in listens THEN Append(channel[<<a, b>>], tokens)
         ELSE channel[<<a, b>>]
  BY <1>4 DEF Published, OtherTabs
<1> QED
  BY <1>3, <1>5

LEMMA ReleasedShape ==
    ASSUME SessionRows, NEW t \in Tabs, NEW stage \in {"retry", "failed"}
    PROVE  /\ Released(t, stage) \in [Calls -> CallRow]
           /\ \A c \in Calls :
                 /\ c \in Waiting(t) => Released(t, stage)[c].stage = stage
                 /\ c \notin Waiting(t) => Released(t, stage)[c] = calls[c]
<1>1. \A c \in Calls : calls[c] \in CallRow
  BY DEF SessionRows
<1>2. \A r \in CallRow : [r EXCEPT !.stage = stage] \in CallRow
                            /\ [r EXCEPT !.stage = stage].stage = stage
  BY DEF CallRow
<1> QED
  BY <1>1, <1>2 DEF Released

LEMMA IssueShape ==
    ASSUME SessionRows, NEW n \in Nat
    PROVE  Issue(n) \in Tokens /\ Issue(n).refresh = n
BY DEF SessionRows, Issue, Tokens

\* The steps of a call.
LEMMA RowsWhenCalled ==
    ASSUME SessionRows, NEW c \in Calls, Call(c) \/ CallStep(c)
    PROVE  SessionRows'
<1>1. PICK t : t = TabOf[c]
  OBVIOUS
<1>2. t \in Tabs
  BY <1>1, SessionsAssumption
<1>3. UNCHANGED <<server, expired, browser, requests>>
  BY DEF Call, CallStep, CallAccepted, CallDenied, CallFailed, Resend
<1>4. PICK n \in Nat, stage \in {"sent", "denied", "resent", "done", "failed"} :
         calls' = [calls EXCEPT ![c] = [stage |-> stage, access |-> n]]
  <2>1. Presented(t) \in Nat /\ 0 \in Nat
    BY <1>2, PresentedShape
  <2>2. \/ calls' = [calls EXCEPT ![c] = [stage |-> "sent", access |-> Presented(t)]]
        \/ calls' = [calls EXCEPT ![c] = [stage |-> "done", access |-> 0]]
        \/ calls' = [calls EXCEPT ![c] = [stage |-> "denied", access |-> 0]]
        \/ calls' = [calls EXCEPT ![c] = [stage |-> "failed", access |-> 0]]
        \/ calls' = [calls EXCEPT ![c] = [stage |-> "resent", access |-> Presented(t)]]
    BY <1>1 DEF Call, CallStep, CallAccepted, CallDenied, CallFailed, Resend
  <2> QED
    BY <2>1, <2>2
<1>5. calls' \in [Calls -> CallRow]
  <2>1. [stage |-> stage, access |-> n] \in CallRow
    BY DEF CallRow
  <2> QED
    BY <1>4, <2>1 DEF SessionRows
<1>6. refreshing' \in [Tabs -> {NoRequest} \cup ServerRequest]
  <2>1. UNCHANGED refreshing \/ refreshing' = [refreshing EXCEPT ![t] = Sent("refresh", RefreshWith(t))]
    BY <1>1 DEF Call, CallStep, CallAccepted, CallDenied, CallFailed, Resend
  <2>2. Sent("refresh", RefreshWith(t)) \in ServerRequest
    BY <1>2, PresentedShape, SentShape
  <2> QED
    BY <1>2, <2>1, <2>2 DEF SessionRows
<1> QED
  BY <1>3, <1>5, <1>6 DEF SessionRows, server, browser

\* The tokens of an answer are taken over.
LEMMA RowsWhenAdopted ==
    ASSUME SessionRows, NEW t \in Tabs, NEW tokens \in Tokens, Adopt(t, tokens)
    PROVE  /\ jar' \in Tokens /\ memory' \in [Tabs -> Tokens] /\ listens' \subseteq Tabs
           /\ channel' \in [Tabs \X Tabs -> Seq(Tokens)]
BY PublishedShape DEF Adopt, SessionRows

LEMMA RowsWhenRefreshed ==
    ASSUME SessionRows, NEW t \in Tabs, RefreshServed(t) \/ RefreshEnds(t)
    PROVE  SessionRows'
<1>1. PICK r : r = refreshing[t]
  OBVIOUS
<1>2. r \in ServerRequest
  <2>1. r.stage # "none"
    BY <1>1 DEF RefreshServed, RefreshEnds, RefreshRead, RefreshWrite, RefreshDone, RefreshRefused,
                RefreshLost
  <2> QED
    BY <1>1, <2>1, RequestShape DEF SessionRows
<1>3. CASE RefreshRead(t)
  <2>1. PICK stage \in {"read", "refused"} :
           refreshing' = [refreshing EXCEPT ![t].stage = stage, ![t].seen = version]
    BY <1>3 DEF RefreshRead
  <2>2. PICK n : n = [r EXCEPT !.stage = stage, !.seen = version]
    OBVIOUS
  <2>3. n \in ServerRequest
    BY <1>2, <2>2 DEF ServerRequest, SessionRows
  <2>4. refreshing' = [refreshing EXCEPT ![t] = n]
    BY <1>1, <2>1, <2>2 DEF SessionRows
  <2> QED
    BY <1>3, <2>3, <2>4 DEF RefreshRead, SessionRows, server, browser
<1>4. CASE RefreshWrite(t)
  <2>1. r.seen + 1 \in Nat \ {0}
    BY <1>2 DEF ServerRequest
  <2>2. PICK n : n = [r EXCEPT !.stage = "answered", !.answer = Issue(r.seen + 1)]
    OBVIOUS
  <2>3. Issue(r.seen + 1) \in Tokens
    BY <2>1, IssueShape
  <2>4. n \in ServerRequest
    BY <1>2, <2>2, <2>3 DEF ServerRequest
  <2>5. refreshing' = [refreshing EXCEPT ![t] = n]
    BY <1>1, <1>4, <2>2 DEF SessionRows, RefreshWrite
  <2>6. version' = r.seen + 1 /\ issued' = issued + 1
    BY <1>1, <1>4 DEF RefreshWrite, Rotated
  <2>7. issued' \in Nat /\ expired \in 0..issued'
    BY <2>6 DEF SessionRows
  <2>8. UNCHANGED <<expired, browser, calls, requests>>
    BY <1>4 DEF RefreshWrite
  <2> QED
    BY <2>1, <2>4, <2>5, <2>6, <2>7, <2>8 DEF SessionRows, browser
<1>5. CASE RefreshDone(t)
  <2>1. r.answer \in Tokens
    BY <1>2 DEF ServerRequest
  <2>2. Adopt(t, r.answer)
    BY <1>1, <1>5 DEF RefreshDone
  <2>3. /\ jar' \in Tokens /\ memory' \in [Tabs -> Tokens] /\ listens' \subseteq Tabs
        /\ channel' \in [Tabs \X Tabs -> Seq(Tokens)]
    BY <2>1, <2>2, RowsWhenAdopted
  <2>4. calls' \in [Calls -> CallRow]
    BY <1>5, ReleasedShape DEF RefreshDone
  <2>5. refreshing' = [refreshing EXCEPT ![t] = NoRequest] /\ UNCHANGED <<server, expired, requests>>
    BY <1>5 DEF RefreshDone
  <2> QED
    BY <2>3, <2>4, <2>5 DEF SessionRows, server
<1>6. CASE RefreshRefused(t) \/ RefreshLost(t)
  <2>1. GiveUp(t)
    BY <1>6 DEF RefreshRefused, RefreshLost
  <2>2. calls' \in [Calls -> CallRow]
    BY <2>1, ReleasedShape DEF GiveUp
  <2>3. NoTokens \in Tokens
    BY DEF NoTokens, Tokens
  <2> QED
    BY <2>1, <2>2, <2>3 DEF GiveUp, SessionRows, server
<1> QED
  BY <1>3, <1>4, <1>5, <1>6 DEF RefreshServed, RefreshEnds

\* The next stage of a request of the user.
LEMMA NextStage ==
    ASSUME SessionRows, NEW t \in Tabs, NEW r, r = requests[t], r \in ServerRequest,
           NEW stage \in {"read", "hashed", "answered"}
    PROVE  /\ \A n \in Nat : [r EXCEPT !.stage = stage, !.seen = n] \in ServerRequest
           /\ \A n \in Nat : [r EXCEPT !.stage = stage, !.token = n] \in ServerRequest
           /\ \A a \in Tokens : [r EXCEPT !.stage = stage, !.answer = a] \in ServerRequest
           /\ [r EXCEPT !.stage = stage] \in ServerRequest
BY DEF ServerRequest

LEMMA RowsWhenServed ==
    ASSUME SessionRows, NEW t \in Tabs, RequestServed(t)
    PROVE  SessionRows'
<1>1. PICK r : r = requests[t]
  OBVIOUS
<1>2. r \in ServerRequest
  <2>1. r.stage # "none"
    BY <1>1 DEF RequestServed, LoginServed, LogoutRead, LogoutWrite, PasswordRead, PasswordStored,
                PasswordWrite, Asked
  <2> QED
    BY <1>1, <2>1, RequestShape DEF SessionRows
<1>3. ASSUME NEW n \in ServerRequest, requests' = [requests EXCEPT ![t] = n],
             version' \in Nat \ {0}, issued' \in Nat, expired \in 0..issued',
             UNCHANGED <<expired, browser, calls, refreshing>>
      PROVE  SessionRows'
  BY <1>3 DEF SessionRows, browser
<1>4. version \in Nat \ {0} /\ issued \in Nat /\ expired \in 0..issued /\ version + 1 \in Nat
  BY DEF SessionRows
<1>5. issued + 1 \in Nat /\ expired \in 0..issued + 1 /\ r.seen + 1 \in Nat \ {0} /\ r.token \in Nat
  BY <1>2, <1>4 DEF ServerRequest
<1>6. CASE LoginServed(t)
  <2>1. PICK n : n = [r EXCEPT !.stage = "answered", !.answer = Issue(version)]
    OBVIOUS
  <2>2. n \in ServerRequest
    BY <1>1, <1>2, <1>4, <2>1, IssueShape, NextStage
  <2>3. requests' = [requests EXCEPT ![t] = n]
    BY <1>1, <1>6, <2>1 DEF LoginServed, SessionRows
  <2> QED
    BY <1>3, <1>4, <1>5, <1>6, <2>2, <2>3 DEF LoginServed
<1>7. CASE LogoutRead(t)
  <2>1. PICK stage \in {"answered", "read"} :
           requests' = [requests EXCEPT ![t].stage = stage, ![t].seen = version]
    BY <1>7 DEF LogoutRead
  <2>2. PICK n : n = [r EXCEPT !.stage = stage, !.seen = version]
    OBVIOUS
  <2>3. n \in ServerRequest
    BY <1>1, <1>2, <1>4, <2>2, NextStage
  <2>4. requests' = [requests EXCEPT ![t] = n]
    BY <1>1, <2>1, <2>2 DEF SessionRows
  <2> QED
    BY <1>3, <1>4, <1>7, <2>3, <2>4 DEF LogoutRead, server
<1>8. CASE LogoutWrite(t)
  <2>1. PICK n : n = [r EXCEPT !.stage = "answered"]
    OBVIOUS
  <2>2. n \in ServerRequest
    BY <1>1, <1>2, <2>1, NextStage
  <2>3. requests' = [requests EXCEPT ![t] = n]
    BY <1>1, <1>8, <2>1 DEF LogoutWrite, SessionRows
  <2> QED
    BY <1>1, <1>3, <1>4, <1>5, <1>8, <2>2, <2>3 DEF LogoutWrite, Rotated
<1>9. CASE PasswordRead(t)
  <2>1. PICK n : n = [r EXCEPT !.stage = "read", !.token = version + 1]
    OBVIOUS
  <2>2. n \in ServerRequest
    BY <1>1, <1>2, <1>4, <2>1, NextStage
  <2>3. requests' = [requests EXCEPT ![t] = n]
    BY <1>1, <1>9, <2>1 DEF PasswordRead, SessionRows
  <2> QED
    BY <1>3, <1>4, <1>9, <2>2, <2>3 DEF PasswordRead, server
<1>10. CASE PasswordStored(t)
  <2>1. PICK n : n = [r EXCEPT !.stage = "hashed", !.seen = version]
    OBVIOUS
  <2>2. n \in ServerRequest
    BY <1>1, <1>2, <1>4, <2>1, NextStage
  <2>3. requests' = [requests EXCEPT ![t] = n]
    BY <1>1, <1>10, <2>1 DEF PasswordStored, SessionRows
  <2> QED
    BY <1>3, <1>4, <1>10, <2>2, <2>3 DEF PasswordStored, server
<1>11. CASE PasswordWrite(t)
  <2>1. PICK n : n = [r EXCEPT !.stage = "answered", !.answer = Issue(r.token)]
    OBVIOUS
  <2>2. n \in ServerRequest
    BY <1>1, <1>2, <1>5, <2>1, IssueShape, NextStage
  <2>3. requests' = [requests EXCEPT ![t] = n]
    BY <1>1, <1>11, <2>1 DEF PasswordWrite, Reissued, SessionRows
  <2> QED
    BY <1>1, <1>3, <1>5, <1>11, <2>2, <2>3 DEF PasswordWrite, Rotated
<1> QED
  BY <1>6, <1>7, <1>8, <1>9, <1>10, <1>11 DEF RequestServed

\* The user asks the server for something.
LEMMA RowsWhenAsked ==
    ASSUME SessionRows, NEW t \in Tabs, NEW op \in {"login", "logout", "password"}, NEW token \in Nat,
           AskServer(t, op, token)
    PROVE  SessionRows'
<1>1. Sent(op, token) \in ServerRequest
  BY SentShape
<1>2. /\ requests' = [requests EXCEPT ![t] = Sent(op, token)]
      /\ UNCHANGED <<server, expired, browser, calls, refreshing>>
  BY DEF AskServer
<1> QED
  BY <1>1, <1>2 DEF SessionRows, server, browser

\* A login, a logout or a new password, with the token that it sends.
LEMMA Asking ==
    ASSUME SessionRows, NEW t \in Tabs, Login(t) \/ Logout(t) \/ ChangePassword(t)
    PROVE  \E op \in {"login", "logout", "password"}, token \in Nat : AskServer(t, op, token)
<1>1. jar.refresh \in Nat /\ memory[t].refresh \in Nat /\ 0 \in Nat
  BY DEF SessionRows, Tokens
<1>2. (IF jar.refresh # 0 THEN jar.refresh ELSE memory[t].refresh) \in Nat
  BY <1>1
<1> QED
  BY <1>1, <1>2 DEF Login, Logout, ChangePassword

LEMMA RowsWhenEnded ==
    ASSUME SessionRows, NEW t \in Tabs, RequestEnds(t)
    PROVE  SessionRows'
<1>1. NoTokens \in Tokens
  BY DEF NoTokens, Tokens
<1>2. CASE SignedIn(t)
  <2>1. PICK r : r = requests[t]
    OBVIOUS
  <2>2. r \in ServerRequest
    BY <1>2, <2>1, RequestShape DEF SignedIn, SessionRows
  <2>3. r.answer \in Tokens
    BY <2>2 DEF ServerRequest
  <2>4. Adopt(t, r.answer)
    BY <1>2, <2>1 DEF SignedIn
  <2>5. /\ jar' \in Tokens /\ memory' \in [Tabs -> Tokens] /\ listens' \subseteq Tabs
        /\ channel' \in [Tabs \X Tabs -> Seq(Tokens)]
    BY <2>3, <2>4, RowsWhenAdopted
  <2>6. /\ requests' = [requests EXCEPT ![t] = NoRequest]
        /\ UNCHANGED <<server, expired, calls, refreshing>>
    BY <1>2 DEF SignedIn
  <2> QED
    BY <2>5, <2>6 DEF SessionRows, server
<1>3. CASE SignedOut(t)
  BY <1>1, <1>3 DEF SignedOut, SessionRows, server
<1>4. CASE RequestLost(t)
  BY <1>1, <1>4 DEF RequestLost, SessionRows, server
<1> QED
  BY <1>2, <1>3, <1>4 DEF RequestEnds

LEMMA RowsWhenDelivered ==
    ASSUME SessionRows, NEW s \in Tabs, NEW t \in Tabs, Deliver(s, t)
    PROVE  SessionRows'
<1>1. PICK q : q = channel[<<s, t>>]
  OBVIOUS
<1>2. q \in Seq(Tokens) /\ q # <<>>
  BY <1>1 DEF SessionRows, Deliver
<1>3. Head(q) \in Tokens /\ Tail(q) \in Seq(Tokens)
  BY <1>2
<1>4. /\ memory' = [memory EXCEPT ![t] = Head(q)]
      /\ channel' = [channel EXCEPT ![<<s, t>>] = Tail(q)]
      /\ UNCHANGED <<server, expired, jar, listens, calls, refreshing, requests>>
  BY <1>1 DEF Deliver, Received, SessionRows
<1> QED
  BY <1>3, <1>4 DEF SessionRows, server

LEMMA RowsWhenReloaded ==
    ASSUME SessionRows, NEW t \in Tabs, ReloadTab(t)
    PROVE  SessionRows'
<1>1. NoTokens \in Tokens /\ <<>> \in Seq(Tokens)
  BY DEF NoTokens, Tokens
<1>2. channel' \in [Tabs \X Tabs -> Seq(Tokens)]
  BY <1>1 DEF ReloadTab, SessionRows
<1>3. /\ memory' = [memory EXCEPT ![t] = NoTokens]
      /\ listens' = listens \ {t}
      /\ UNCHANGED <<server, expired, jar, calls, refreshing, requests>>
  BY DEF ReloadTab
<1> QED
  BY <1>1, <1>2, <1>3 DEF SessionRows, server

LEMMA RowsWhenExpired ==
    ASSUME SessionRows, Expire
    PROVE  SessionRows'
<1>1. expired' = issued /\ UNCHANGED <<server, browser, calls, refreshing, requests>>
  BY DEF Expire
<1>2. issued \in 0..issued
  BY DEF SessionRows
<1> QED
  BY <1>1, <1>2 DEF SessionRows, server, browser

LEMMA SessionRowsStep ==
    ASSUME SessionRows, [SessionsNext]_sessionsVars
    PROVE  SessionRows'
<1>1. CASE UNCHANGED sessionsVars
  BY <1>1 DEF sessionsVars, server, browser, SessionRows
<1>2. ASSUME NEW c \in Calls, Call(c) \/ CallStep(c) PROVE SessionRows'
  BY <1>2, RowsWhenCalled
<1>3. ASSUME NEW t \in Tabs, RefreshServed(t) \/ RefreshEnds(t) PROVE SessionRows'
  BY <1>3, RowsWhenRefreshed
<1>4. ASSUME NEW t \in Tabs, RequestServed(t) PROVE SessionRows'
  BY <1>4, RowsWhenServed
<1>5. ASSUME NEW t \in Tabs, RequestEnds(t) PROVE SessionRows'
  BY <1>5, RowsWhenEnded
<1>6. ASSUME NEW t \in Tabs, Login(t) \/ Logout(t) \/ ChangePassword(t) PROVE SessionRows'
  BY <1>6, Asking, RowsWhenAsked
<1>7. ASSUME NEW t \in Tabs, ReloadTab(t) PROVE SessionRows'
  BY <1>7, RowsWhenReloaded
<1>8. ASSUME NEW s \in Tabs, NEW t \in Tabs, Deliver(s, t) PROVE SessionRows'
  BY <1>8, RowsWhenDelivered
<1>9. CASE Expire
  BY <1>9, RowsWhenExpired
<1> QED
  BY <1>1, <1>2, <1>3, <1>4, <1>5, <1>6, <1>7, <1>8, <1>9 DEF SessionsNext

LEMMA SessionRowsInit ==
    ASSUME SessionsInit
    PROVE  SessionRows
BY DEF SessionsInit, SessionRows, Tokens, NoTokens, CallRow

\* What the rows look like: every variable of the browser, the tabs and the server stays
\* in its type.
THEOREM SessionsTyped == SessionsSpec => []SessionsTypeOK
<1>1. SessionsInit => SessionRows
  BY SessionRowsInit
<1>2. SessionRows /\ [SessionsNext]_sessionsVars => SessionRows'
  BY SessionRowsStep
<1>3. SessionRows => SessionsTypeOK
  <2> SUFFICES ASSUME SessionRows PROVE SessionsTypeOK
    OBVIOUS
  <2>1. \A r \in {NoRequest} \cup ServerRequest : IsSessionRequest(r)
    <3>1. \A r \in ServerRequest : IsSessionRequest(r)
      BY DEF ServerRequest, IsSessionRequest
    <3> QED
      BY <3>1 DEF IsSessionRequest
  <2> QED
    BY <2>1 DEF SessionRows, SessionsTypeOK, CallRow
<1> QED
  BY <1>1, <1>2, <1>3, PTL DEF SessionsSpec

-------------------------------------------------------------------------------
(* Sessions: one tab at a time.                                             *)

\* Something of a tab is on its way.
Active(t) == Underway(t) \/ InFlight(t)

\* A step leaves the calls and requests of all tabs but one alone.
OnlyIn(t) ==
    \A u \in OtherTabs(t) :
        /\ refreshing'[u] = refreshing[u] /\ requests'[u] = requests[u]
        /\ \A c \in Calls : TabOf[c] = u => calls'[c] = calls[c]

LEMMA OthersUntouched ==
    ASSUME NEW t \in Tabs, OnlyIn(t), NEW u \in Tabs, u # t
    PROVE  /\ refreshing'[u] = refreshing[u] /\ requests'[u] = requests[u]
           /\ Active(u)' <=> Active(u)
           /\ \A c : (c \in Waiting(u))' <=> c \in Waiting(u)
           /\ Unanswered(u)' <=> Unanswered(u)
<1>1. /\ refreshing'[u] = refreshing[u] /\ requests'[u] = requests[u]
      /\ \A c \in Calls : TabOf[c] = u => calls'[c] = calls[c]
  BY DEF OnlyIn, OtherTabs
<1>2. InFlight(u)' <=> InFlight(u)
  BY <1>1 DEF InFlight
<1>3. Underway(u)' <=> Underway(u)
  BY <1>1 DEF Underway
<1>4. \A c : (c \in Waiting(u))' <=> c \in Waiting(u)
  BY <1>1 DEF Waiting
<1>5. Unanswered(u)' <=> Unanswered(u)
  BY <1>1 DEF Unanswered
<1> QED
  BY <1>1, <1>2, <1>3, <1>4, <1>5 DEF Active

\* What each operation changes outside its tab: nothing.
LEMMA CallsAreLocal ==
    ASSUME SessionRows, NEW c \in Calls, Call(c) \/ CallStep(c)
    PROVE  OnlyIn(TabOf[c])
<1>1. PICK t : t = TabOf[c]
  OBVIOUS
<1>2. requests' = requests
  BY DEF Call, CallStep, CallAccepted, CallDenied, CallFailed, Resend
<1>3. \A u \in OtherTabs(t) : refreshing'[u] = refreshing[u]
  <2>1. UNCHANGED refreshing \/ refreshing' = [refreshing EXCEPT ![t] = Sent("refresh", RefreshWith(t))]
    BY <1>1 DEF Call, CallStep, CallAccepted, CallDenied, CallFailed, Resend
  <2> QED
    BY <2>1 DEF OtherTabs, SessionRows
<1>4. \A d \in Calls : d # c => calls'[d] = calls[d]
  BY DEF Call, CallStep, CallAccepted, CallDenied, CallFailed, Resend, SessionRows
<1> QED
  BY <1>1, <1>2, <1>3, <1>4 DEF OnlyIn, OtherTabs

LEMMA ReleasedIsLocal ==
    ASSUME SessionRows, NEW t \in Tabs, NEW stage, calls' = Released(t, stage)
    PROVE  \A c \in Calls : TabOf[c] # t => calls'[c] = calls[c]
BY DEF Released, Waiting

LEMMA RefreshesAreLocal ==
    ASSUME SessionRows, NEW t \in Tabs, RefreshServed(t) \/ RefreshEnds(t)
    PROVE  OnlyIn(t)
<1>1. requests' = requests
  BY DEF RefreshServed, RefreshEnds, RefreshRead, RefreshWrite, RefreshDone, RefreshRefused,
         RefreshLost, GiveUp
<1>2. \A u \in OtherTabs(t) : refreshing'[u] = refreshing[u]
  BY DEF RefreshServed, RefreshEnds, RefreshRead, RefreshWrite, RefreshDone, RefreshRefused,
         RefreshLost, GiveUp, OtherTabs, SessionRows
<1>3. calls' = calls \/ calls' = Released(t, "retry") \/ calls' = Released(t, "failed")
  BY DEF RefreshServed, RefreshEnds, RefreshRead, RefreshWrite, RefreshDone, RefreshRefused,
         RefreshLost, GiveUp
<1>4. \A c \in Calls : TabOf[c] # t => calls'[c] = calls[c]
  BY <1>3, ReleasedIsLocal
<1> QED
  BY <1>1, <1>2, <1>4 DEF OnlyIn, OtherTabs

LEMMA RequestsAreLocal ==
    ASSUME SessionRows, NEW t \in Tabs,
           \/ RequestServed(t) \/ RequestEnds(t)
           \/ \E op \in {"login", "logout", "password"}, token \in Nat : AskServer(t, op, token)
    PROVE  /\ OnlyIn(t) /\ UNCHANGED <<calls, refreshing>>
<1>1. UNCHANGED <<calls, refreshing>>
  BY DEF RequestServed, RequestEnds, LoginServed, LogoutRead, LogoutWrite, PasswordRead,
         PasswordStored, PasswordWrite, SignedIn, SignedOut, RequestLost, AskServer
<1>2. \A u \in OtherTabs(t) : requests'[u] = requests[u]
  BY DEF RequestServed, RequestEnds, LoginServed, LogoutRead, LogoutWrite, PasswordRead,
         PasswordStored, PasswordWrite, SignedIn, SignedOut, RequestLost, AskServer, OtherTabs,
         SessionRows
<1> QED
  BY <1>1, <1>2 DEF OnlyIn

\* A step that goes on with something finds its tab active.
LEMMA GoesOn ==
    ASSUME SessionRows, NEW t \in Tabs
    PROVE  /\ \A c \in Calls : TabOf[c] = t /\ CallStep(c) => Active(t)
           /\ RefreshServed(t) \/ RefreshEnds(t) => refreshing[t] # NoRequest /\ Active(t)
           /\ RequestServed(t) \/ RequestEnds(t) => requests[t] # NoRequest /\ Active(t)
<1>1. ASSUME NEW c \in Calls, TabOf[c] = t, CallStep(c) PROVE Active(t)
  BY <1>1 DEF CallStep, CallAccepted, CallDenied, CallFailed, Resend, Active, InFlight
<1>2. ASSUME RefreshServed(t) \/ RefreshEnds(t) PROVE refreshing[t] # NoRequest
  BY <1>2 DEF RefreshServed, RefreshEnds, RefreshRead, RefreshWrite, RefreshDone, RefreshRefused,
              RefreshLost, NoRequest
<1>3. ASSUME RequestServed(t) \/ RequestEnds(t) PROVE requests[t] # NoRequest
  BY <1>3 DEF RequestServed, RequestEnds, LoginServed, LogoutRead, LogoutWrite, PasswordRead,
              PasswordStored, PasswordWrite, SignedIn, SignedOut, RequestLost, Asked, NoRequest
<1> QED
  BY <1>1, <1>2, <1>3 DEF Active, Underway

\* A patient user starts something only where nothing else is on its way.
Starts(t) ==
    /\ OnlyIn(t) /\ Delivered
    /\ \A s \in OtherTabs(t) : ~Active(s)
    /\ UNCHANGED <<version, browser>>
GoingOn(t) == OnlyIn(t) /\ Active(t)

LEMMA StepKinds ==
    ASSUME Patient, SessionRows, [SessionsNext]_sessionsVars
    PROVE  \/ \E t \in Tabs : Starts(t)
           \/ \E t \in Tabs : GoingOn(t)
           \/ UNCHANGED <<calls, refreshing, requests>>
<1>1. ASSUME NEW c \in Calls, Call(c) PROVE \E t \in Tabs : Starts(t)
  <2>1. TabOf[c] \in Tabs
    BY SessionsAssumption
  <2>2. OnlyIn(TabOf[c])
    BY <1>1, CallsAreLocal
  <2> QED
    BY <1>1, <2>1, <2>2 DEF Starts, Call, MayStart, Active, server
<1>2. ASSUME NEW c \in Calls, CallStep(c) PROVE \E t \in Tabs : GoingOn(t)
  <2>1. TabOf[c] \in Tabs
    BY SessionsAssumption
  <2>2. OnlyIn(TabOf[c])
    BY <1>2, CallsAreLocal
  <2> QED
    BY <1>2, <2>1, <2>2, GoesOn DEF GoingOn
<1>3. ASSUME NEW t \in Tabs, RefreshServed(t) \/ RefreshEnds(t) PROVE GoingOn(t)
  BY <1>3, RefreshesAreLocal, GoesOn DEF GoingOn
<1>4. ASSUME NEW t \in Tabs, RequestServed(t) \/ RequestEnds(t) PROVE GoingOn(t)
  BY <1>4, RequestsAreLocal, GoesOn DEF GoingOn
<1>5. ASSUME NEW t \in Tabs, Login(t) \/ Logout(t) \/ ChangePassword(t) PROVE Starts(t)
  <2>1. PICK op \in {"login", "logout", "password"}, token \in Nat : AskServer(t, op, token)
    BY <1>5, Asking
  <2>2. OnlyIn(t)
    BY <2>1, RequestsAreLocal
  <2> QED
    BY <2>1, <2>2 DEF Starts, AskServer, MayStart, Active, server
<1>6. ASSUME \/ \E t \in Tabs : ReloadTab(t)
             \/ \E s, t \in Tabs : Deliver(s, t)
             \/ Expire
             \/ UNCHANGED sessionsVars
      PROVE  UNCHANGED <<calls, refreshing, requests>>
  BY <1>6 DEF ReloadTab, Deliver, Expire, sessionsVars
<1> QED
  BY <1>1, <1>2, <1>3, <1>4, <1>5, <1>6 DEF SessionsNext

\* At most one tab is active.
Alone == \A s, t \in Tabs : s # t => ~(Active(s) /\ Active(t))

LEMMA StaysAlone ==
    ASSUME Patient, SessionRows, Alone, [SessionsNext]_sessionsVars
    PROVE  Alone'
<1>1. CASE UNCHANGED <<calls, refreshing, requests>>
  BY <1>1 DEF Alone, Active, Underway, InFlight
<1>2. ASSUME NEW t \in Tabs, OnlyIn(t), Active(t) \/ \A s \in OtherTabs(t) : ~Active(s)
      PROVE  Alone'
  <2>1. \A u \in Tabs : u # t => (Active(u)' <=> Active(u))
    BY <1>2, OthersUntouched
  <2>2. \A u \in Tabs : u # t => ~Active(u)
    BY <1>2 DEF Alone, OtherTabs
  <2>3. \A u \in Tabs : u # t => ~Active(u)'
    BY <2>1, <2>2
  <2> QED
    BY <2>3 DEF Alone
<1> QED
  BY <1>1, <1>2, StepKinds DEF Starts, GoingOn

-------------------------------------------------------------------------------
(* Sessions: the calls and the requests of a tab.                           *)

\* A refresh is there for the calls that wait for it, and while a request of the user is
\* underway there is none and none can begin.
TabInOrder(t) ==
    /\ refreshing[t] # NoRequest => Waiting(t) # {}
    /\ requests[t] # NoRequest =>
          refreshing[t] = NoRequest /\ Waiting(t) = {} /\ ~Unanswered(t)

LEMMA OrderElsewhere ==
    ASSUME NEW t \in Tabs, OnlyIn(t), NEW u \in Tabs, u # t, TabInOrder(u)
    PROVE  TabInOrder(u)'
<1>1. /\ refreshing'[u] = refreshing[u] /\ requests'[u] = requests[u]
      /\ Unanswered(u)' <=> Unanswered(u)
  BY OthersUntouched
<1>2. (Waiting(u) = {})' <=> Waiting(u) = {}
  <2>1. \A c : (c \in Waiting(u))' <=> c \in Waiting(u)
    BY OthersUntouched
  <2> QED
    BY <2>1
<1> QED
  BY <1>1, <1>2 DEF TabInOrder

LEMMA OrderWhenCalled ==
    ASSUME Patient, SessionRows, NEW c \in Calls, Call(c) \/ CallStep(c), TabInOrder(TabOf[c])
    PROVE  TabInOrder(TabOf[c])'
<1>1. PICK t : t = TabOf[c]
  OBVIOUS
<1>2. t \in Tabs
  BY <1>1, SessionsAssumption
<1>3. TabInOrder(t) /\ requests' = requests
  BY <1>1 DEF Call, CallStep, CallAccepted, CallDenied, CallFailed, Resend
<1>4. \A d \in Calls : d # c => calls'[d] = calls[d]
  BY DEF Call, CallStep, CallAccepted, CallDenied, CallFailed, Resend, SessionRows
<1>5. CASE Call(c)
  <2>1. requests'[t] = NoRequest /\ refreshing' = refreshing /\ calls[c].stage # "denied"
    BY <1>1, <1>3, <1>5 DEF Call, MayStart
  <2>2. \A d \in Waiting(t) : (d \in Waiting(t))'
    BY <1>4, <2>1 DEF Waiting
  <2>3. refreshing[t] # NoRequest => \E d : d \in Waiting(t)
    BY <1>3 DEF TabInOrder
  <2>4. (refreshing[t] # NoRequest)' => (Waiting(t) # {})'
    BY <2>1, <2>2, <2>3
  <2> QED
    BY <1>1, <2>1, <2>4 DEF TabInOrder
<1>6. CASE CallDenied(c)
  <2>1. calls'[c].stage = "denied"
    BY <1>6 DEF CallDenied, SessionRows
  <2>2. (c \in Waiting(t))'
    BY <1>1, <2>1 DEF Waiting
  <2>3. Unanswered(t)
    BY <1>1, <1>6 DEF CallDenied, Unanswered
  <2>4. requests'[t] = NoRequest
    BY <1>3, <2>3 DEF TabInOrder
  <2> QED
    BY <1>1, <2>2, <2>4 DEF TabInOrder
<1>7. CASE CallAccepted(c) \/ CallFailed(c) \/ Resend(c)
  <2>1. /\ calls[c].stage \notin {"denied"} /\ calls'[c].stage \notin {"sent", "denied"}
        /\ refreshing' = refreshing
    BY <1>7 DEF CallAccepted, CallFailed, Resend, SessionRows
  <2>2. \A d : (d \in Waiting(t))' <=> d \in Waiting(t)
    BY <1>4, <2>1 DEF Waiting
  <2>3. Unanswered(t)' => Unanswered(t)
    BY <1>4, <2>1 DEF Unanswered
  <2>4. (Waiting(t) = {})' <=> Waiting(t) = {}
    BY <2>2
  <2> QED
    BY <1>1, <1>3, <2>1, <2>3, <2>4 DEF TabInOrder
<1> QED
  BY <1>5, <1>6, <1>7 DEF CallStep

LEMMA OrderWhenRefreshed ==
    ASSUME SessionRows, NEW t \in Tabs, RefreshServed(t) \/ RefreshEnds(t), TabInOrder(t)
    PROVE  TabInOrder(t)'
<1>1. refreshing[t] # NoRequest
  BY GoesOn
<1>2. requests'[t] = NoRequest
  <2>1. requests' = requests
    BY DEF RefreshServed, RefreshEnds, RefreshRead, RefreshWrite, RefreshDone, RefreshRefused,
           RefreshLost, GiveUp
  <2> QED
    BY <1>1, <2>1 DEF TabInOrder
<1>3. CASE RefreshServed(t)
  <2>1. calls' = calls
    BY <1>3 DEF RefreshServed, RefreshRead, RefreshWrite
  <2>2. (Waiting(t) # {})'
    BY <1>1, <2>1 DEF TabInOrder, Waiting
  <2> QED
    BY <1>2, <2>2 DEF TabInOrder
<1>4. CASE RefreshEnds(t)
  <2>1. refreshing'[t] = NoRequest
    BY <1>4 DEF RefreshEnds, RefreshDone, RefreshRefused, RefreshLost, GiveUp, SessionRows
  <2> QED
    BY <1>2, <2>1 DEF TabInOrder
<1> QED
  BY <1>3, <1>4

LEMMA OrderWhenServed ==
    ASSUME SessionRows, NEW t \in Tabs, RequestServed(t) \/ RequestEnds(t), TabInOrder(t)
    PROVE  TabInOrder(t)'
<1>1. UNCHANGED <<calls, refreshing>>
  BY RequestsAreLocal
<1>2. refreshing'[t] = NoRequest /\ Waiting(t)' = {} /\ ~Unanswered(t)'
  BY <1>1, GoesOn DEF TabInOrder, Waiting, Unanswered
<1> QED
  BY <1>2 DEF TabInOrder

LEMMA OrderWhenAsked ==
    ASSUME Patient, SessionRows, NEW t \in Tabs, TabInOrder(t),
           NEW op \in {"login", "logout", "password"}, NEW token \in Nat, AskServer(t, op, token)
    PROVE  TabInOrder(t)'
<1>1. UNCHANGED <<calls, refreshing>>
  BY DEF AskServer
<1>2. Waiting(t) = {} /\ ~Unanswered(t)
  <2>1. CASE op = "logout"
    BY <2>1 DEF AskServer
  <2>2. CASE op # "logout"
    <3>1. ~InFlight(t)
      BY <2>2 DEF AskServer
    <3> QED
      BY <3>1 DEF InFlight, Waiting, Unanswered
  <2> QED
    BY <2>1, <2>2
<1>3. refreshing[t] = NoRequest
  BY <1>2 DEF TabInOrder
<1> QED
  BY <1>1, <1>2, <1>3 DEF TabInOrder, Waiting, Unanswered

AllInOrder == \A t \in Tabs : TabInOrder(t)

LEMMA StaysInOrder ==
    ASSUME Patient, SessionRows, AllInOrder, [SessionsNext]_sessionsVars
    PROVE  AllInOrder'
<1>1. ASSUME NEW t \in Tabs, OnlyIn(t), TabInOrder(t)' PROVE AllInOrder'
  BY <1>1, OrderElsewhere DEF AllInOrder
<1>2. ASSUME NEW c \in Calls, Call(c) \/ CallStep(c) PROVE AllInOrder'
  <2>1. TabOf[c] \in Tabs
    BY SessionsAssumption
  <2>2. PICK t \in Tabs : t = TabOf[c]
    BY <2>1
  <2>3. OnlyIn(t) /\ TabInOrder(t)'
    BY <1>2, <2>2, CallsAreLocal, OrderWhenCalled DEF AllInOrder
  <2> QED
    BY <1>1, <2>3
<1>3. ASSUME NEW t \in Tabs, RefreshServed(t) \/ RefreshEnds(t) PROVE AllInOrder'
  BY <1>1, <1>3, RefreshesAreLocal, OrderWhenRefreshed DEF AllInOrder
<1>4. ASSUME NEW t \in Tabs, RequestServed(t) \/ RequestEnds(t) PROVE AllInOrder'
  BY <1>1, <1>4, RequestsAreLocal, OrderWhenServed DEF AllInOrder
<1>5. ASSUME NEW t \in Tabs, Login(t) \/ Logout(t) \/ ChangePassword(t) PROVE AllInOrder'
  <2>1. PICK op \in {"login", "logout", "password"}, token \in Nat : AskServer(t, op, token)
    BY <1>5, Asking
  <2>2. OnlyIn(t) /\ TabInOrder(t)'
    BY <2>1, RequestsAreLocal, OrderWhenAsked DEF AllInOrder
  <2> QED
    BY <1>1, <2>2
<1>6. ASSUME UNCHANGED <<calls, refreshing, requests>> PROVE AllInOrder'
  BY <1>6 DEF AllInOrder, TabInOrder, Waiting, Unanswered
<1>7. ASSUME \/ \E t \in Tabs : ReloadTab(t)
             \/ \E s, t \in Tabs : Deliver(s, t)
             \/ Expire
             \/ UNCHANGED sessionsVars
      PROVE  AllInOrder'
  BY <1>6, <1>7 DEF ReloadTab, Deliver, Expire, sessionsVars
<1> QED
  BY <1>2, <1>3, <1>4, <1>5, <1>7 DEF SessionsNext

-------------------------------------------------------------------------------
(* Sessions: a change of password.                                          *)

\* What a change of password has read and answers, against the version of the user.
PasswordOK(r, v) ==
    r # NoRequest /\ r.op = "password" =>
        /\ r.stage \in {"read", "hashed"} => r.token = v + 1
        /\ r.stage = "hashed" => r.seen = v
        /\ r.stage = "answered" => r.answer.refresh = v
PasswordsCurrent == \A t \in Tabs : PasswordOK(requests[t], version)

\* From its first read of the version until its answer is taken over, a change of password
\* is the only request that writes the version.
ChangesPassword(t) == \E stage \in {"read", "hashed", "answered"} : Asked(t, "password", stage)
WritesAlone == \A t \in Tabs : ChangesPassword(t) => version' = version \/ PasswordWrite(t)

LEMMA PasswordElsewhere ==
    ASSUME PasswordsCurrent, SessionRows, NEW t \in Tabs, version' = version \/ ~ChangesPassword(t),
           requests'[t] = requests[t]
    PROVE  PasswordOK(requests'[t], version')
<1>1. PasswordOK(requests[t], version)
  BY DEF PasswordsCurrent
<1>2. CASE version' = version
  BY <1>1, <1>2
<1>3. CASE ~ChangesPassword(t)
  BY <1>3 DEF ChangesPassword, Asked, PasswordOK
<1> QED
  BY <1>2, <1>3

LEMMA PasswordWhenServed ==
    ASSUME SessionRows, WritesAlone, PasswordsCurrent, NEW t \in Tabs, RequestServed(t)
    PROVE  PasswordsCurrent'
<1>1. PICK r : r = requests[t]
  OBVIOUS
<1>2. r \in ServerRequest /\ r # NoRequest
  BY <1>1, GoesOn DEF SessionRows
<1>3. PasswordOK(r, version) /\ version \in Nat
  BY <1>1 DEF PasswordsCurrent, SessionRows
<1>4. \A u \in Tabs : u # t => requests'[u] = requests[u]
  BY RequestsAreLocal DEF OnlyIn, OtherTabs
<1>5. ASSUME NEW u \in Tabs, u # t PROVE PasswordOK(requests'[u], version')
  <2>1. requests'[u] = requests[u]
    BY <1>4, <1>5
  <2>2. ASSUME PasswordWrite(u) PROVE ~ChangesPassword(u)
    <3>1. requests'[u].stage = "answered" /\ requests[u].stage = "hashed"
      BY <2>2 DEF PasswordWrite, Asked, SessionRows, ServerRequest
    <3> QED
      BY <2>1, <3>1
  <2> QED
    BY <2>1, <2>2, PasswordElsewhere DEF WritesAlone
<1>6. ASSUME PasswordOK(requests'[t], version') PROVE PasswordsCurrent'
  BY <1>5, <1>6 DEF PasswordsCurrent
<1>7. CASE LoginServed(t)
  <2>1. requests'[t] = [r EXCEPT !.stage = "answered", !.answer = Issue(version)] /\ r.op = "login"
    BY <1>1, <1>7 DEF LoginServed, Asked, SessionRows
  <2>2. requests'[t].op = "login"
    BY <1>2, <2>1 DEF ServerRequest
  <2> QED
    BY <1>6, <2>2 DEF PasswordOK
<1>8. CASE LogoutRead(t) \/ LogoutWrite(t)
  <2>1. r.op = "logout"
    BY <1>1, <1>8 DEF LogoutRead, LogoutWrite, Asked
  <2>2. requests'[t].op = "logout"
    <3>1. CASE LogoutRead(t)
      <4>1. PICK stage :
               requests' = [requests EXCEPT ![t].stage = stage, ![t].seen = version]
        BY <3>1 DEF LogoutRead
      <4>2. requests'[t] = [r EXCEPT !.stage = stage, !.seen = version]
        BY <1>1, <4>1 DEF SessionRows
      <4> QED
        BY <1>2, <2>1, <4>2 DEF ServerRequest
    <3>2. CASE LogoutWrite(t)
      <4>1. requests'[t] = [r EXCEPT !.stage = "answered"]
        BY <1>1, <3>2 DEF LogoutWrite, SessionRows
      <4> QED
        BY <1>2, <2>1, <4>1 DEF ServerRequest
    <3> QED
      BY <1>8, <3>1, <3>2
  <2> QED
    BY <1>6, <2>2 DEF PasswordOK
<1>9. CASE PasswordRead(t)
  <2>1. requests'[t] = [r EXCEPT !.stage = "read", !.token = version + 1] /\ version' = version
    BY <1>1, <1>9 DEF PasswordRead, SessionRows, server
  <2>2. requests'[t].stage = "read" /\ requests'[t].token = version + 1
    BY <1>2, <2>1 DEF ServerRequest
  <2> QED
    BY <1>6, <2>1, <2>2 DEF PasswordOK
<1>10. CASE PasswordStored(t)
  <2>1. /\ requests'[t] = [r EXCEPT !.stage = "hashed", !.seen = version] /\ version' = version
        /\ r.stage = "read" /\ r.op = "password"
    BY <1>1, <1>10 DEF PasswordStored, Asked, SessionRows, server
  <2>2. requests'[t].stage = "hashed" /\ requests'[t].seen = version /\ requests'[t].token = r.token
    BY <1>2, <2>1 DEF ServerRequest
  <2>3. r.token = version + 1
    BY <1>2, <1>3, <2>1 DEF PasswordOK
  <2> QED
    BY <1>6, <2>1, <2>2, <2>3 DEF PasswordOK
<1>11. CASE PasswordWrite(t)
  <2>1. /\ requests'[t] = [r EXCEPT !.stage = "answered", !.answer = Issue(r.token)]
        /\ version' = r.seen + 1 /\ r.stage = "hashed" /\ r.op = "password"
    BY <1>1, <1>11 DEF PasswordWrite, Reissued, Rotated, Asked, SessionRows
  <2>2. r.token = version + 1 /\ r.seen = version
    BY <1>2, <1>3, <2>1 DEF PasswordOK
  <2>3. requests'[t].stage = "answered" /\ requests'[t].answer = Issue(r.token)
    BY <1>2, <2>1 DEF ServerRequest
  <2>4. requests'[t].answer.refresh = r.token
    BY <2>3 DEF Issue
  <2> QED
    BY <1>6, <2>1, <2>2, <2>3, <2>4 DEF PasswordOK
<1> QED
  BY <1>7, <1>8, <1>9, <1>10, <1>11 DEF RequestServed

LEMMA PasswordsStayCurrent ==
    ASSUME SessionRows, WritesAlone, PasswordsCurrent, [SessionsNext]_sessionsVars
    PROVE  PasswordsCurrent'
<1>1. ASSUME UNCHANGED <<version, requests>> PROVE PasswordsCurrent'
  BY <1>1 DEF PasswordsCurrent
<1>2. ASSUME NEW t \in Tabs, NEW r, requests' = [requests EXCEPT ![t] = r], version' = version,
             PasswordOK(r, version)
      PROVE  PasswordsCurrent'
  BY <1>2 DEF PasswordsCurrent, SessionRows
<1>3. ASSUME NEW t \in Tabs, RefreshWrite(t) PROVE PasswordsCurrent'
  <2>1. requests' = requests
    BY <1>3 DEF RefreshWrite
  <2>2. ASSUME NEW u \in Tabs, PasswordWrite(u) PROVE FALSE
    <3>1. requests'[u].stage = "answered" /\ requests[u].stage = "hashed"
      BY <2>2 DEF PasswordWrite, Asked, SessionRows, ServerRequest
    <3> QED
      BY <2>1, <3>1
  <2> QED
    BY <2>1, <2>2, PasswordElsewhere DEF WritesAlone, PasswordsCurrent
<1>4. ASSUME NEW t \in Tabs, RequestServed(t) PROVE PasswordsCurrent'
  BY <1>4, PasswordWhenServed
<1>5. ASSUME NEW t \in Tabs, RequestEnds(t) PROVE PasswordsCurrent'
  <2>1. requests' = [requests EXCEPT ![t] = NoRequest] /\ version' = version
    BY <1>5 DEF RequestEnds, SignedIn, SignedOut, RequestLost, server
  <2>2. PasswordOK(NoRequest, version)
    BY DEF PasswordOK
  <2> QED
    BY <1>2, <2>1, <2>2
<1>6. ASSUME NEW t \in Tabs, Login(t) \/ Logout(t) \/ ChangePassword(t) PROVE PasswordsCurrent'
  <2>1. PICK op \in {"login", "logout", "password"}, token \in Nat : AskServer(t, op, token)
    BY <1>6, Asking
  <2>2. requests' = [requests EXCEPT ![t] = Sent(op, token)] /\ version' = version
    BY <2>1 DEF AskServer, server
  <2>3. PasswordOK(Sent(op, token), version)
    BY DEF PasswordOK, Sent
  <2> QED
    BY <1>2, <2>2, <2>3
<1>7. ASSUME \/ \E c \in Calls : Call(c) \/ CallStep(c)
             \/ \E t \in Tabs : RefreshRead(t) \/ RefreshEnds(t) \/ ReloadTab(t)
             \/ \E s, t \in Tabs : Deliver(s, t)
             \/ Expire
             \/ UNCHANGED sessionsVars
      PROVE  UNCHANGED <<version, requests>>
  BY <1>7 DEF Call, CallStep, CallAccepted, CallDenied, CallFailed, Resend, RefreshRead,
              RefreshEnds, RefreshDone, RefreshRefused, RefreshLost, GiveUp, ReloadTab, Deliver,
              Expire, sessionsVars, server
<1> QED
  BY <1>1, <1>3, <1>4, <1>5, <1>6, <1>7 DEF SessionsNext, RefreshServed

-------------------------------------------------------------------------------
(* Sessions: the tokens of the browser.                                     *)

\* Messages are on their way only from the tab that is active, if any is.
SenderActive ==
    \A s, t \in Tabs : channel[<<s, t>>] # <<>> =>
        s # t /\ \A u \in Tabs : u # s => ~Active(u)

\* A tab that does not listen yet has no refresh token, and nobody writes to it.
Deaf ==
    \A t \in Tabs : t \notin listens =>
        memory[t].refresh = 0 /\ \A s \in Tabs : channel[<<s, t>>] = <<>>

\* While there is a cookie, a tab that has taken all its messages holds the refresh token
\* of the cookie or none, and the last message to any other carries it.
LastOf(q) == q[Len(q)]
Agree ==
    jar.refresh # 0 =>
        /\ \A t \in Tabs : (\A s \in Tabs : channel[<<s, t>>] = <<>>) =>
              memory[t].refresh \in {0, jar.refresh}
        /\ \A s, t \in Tabs : channel[<<s, t>>] # <<>> =>
              LastOf(channel[<<s, t>>]).refresh = jar.refresh

TokensOK == SenderActive /\ Deaf /\ Agree

LEMMA TokensWhenAdopted ==
    ASSUME SessionRows, TokensOK, NEW t \in Tabs, NEW tokens \in Tokens, Adopt(t, tokens),
           \A u \in Tabs : u # t => ~Active(u) /\ ~Active(u)', Active(t)
    PROVE  TokensOK'
<1>1. /\ jar' = tokens /\ listens' = listens \cup {t}
      /\ \A u \in Tabs : memory'[u] = IF u = t THEN tokens ELSE memory[u]
  BY DEF Adopt, SessionRows
<1>2. \A a, b \in Tabs : channel'[<<a, b>>] =
         IF a = t /\ b # t /\ b \in listens THEN Append(channel[<<a, b>>], tokens)
         ELSE channel[<<a, b>>]
  BY PublishedShape DEF Adopt
<1>3. \A a, b \in Tabs : channel[<<a, b>>] # <<>> => a = t /\ b # t
  BY DEF TokensOK, SenderActive
<1>4. \A a, b \in Tabs : channel[<<a, b>>] \in Seq(Tokens)
  BY DEF SessionRows
<1>5. \A q \in Seq(Tokens) : Append(q, tokens) # <<>> /\ LastOf(Append(q, tokens)) = tokens
  BY DEF LastOf
<1>6. \A a, b \in Tabs : channel'[<<a, b>>] # <<>> <=> a = t /\ b # t /\ b \in listens
  <2>1. \A a, b \in Tabs : b \notin listens => channel[<<a, b>>] = <<>>
    BY DEF TokensOK, Deaf
  <2> QED
    BY <1>2, <1>3, <1>4, <1>5, <2>1
<1>7. SenderActive'
  BY <1>6 DEF SenderActive
<1>8. Deaf'
  <2> SUFFICES ASSUME NEW u \in Tabs, u \notin listens'
               PROVE  memory'[u].refresh = 0 /\ \A s \in Tabs : channel'[<<s, u>>] = <<>>
    BY DEF Deaf
  <2>1. u # t /\ u \notin listens
    BY <1>1
  <2>2. memory'[u].refresh = 0
    BY <1>1, <2>1 DEF TokensOK, Deaf
  <2> QED
    BY <1>6, <2>1, <2>2
<1>9. Agree'
  <2>1. ASSUME NEW u \in Tabs, \A s \in Tabs : channel'[<<s, u>>] = <<>>
        PROVE  memory'[u].refresh \in {0, tokens.refresh}
    <3>1. u = t \/ u \notin listens
      BY <1>6, <2>1
    <3> QED
      BY <1>1, <3>1 DEF TokensOK, Deaf
  <2>2. ASSUME NEW a \in Tabs, NEW b \in Tabs, channel'[<<a, b>>] # <<>>
        PROVE  LastOf(channel'[<<a, b>>]) = tokens
    BY <1>2, <1>4, <1>5, <1>6, <2>2
  <2> QED
    BY <1>1, <2>1, <2>2 DEF Agree
<1> QED
  BY <1>7, <1>8, <1>9 DEF TokensOK

LEMMA TokensWhenDelivered ==
    ASSUME SessionRows, TokensOK, NEW s \in Tabs, NEW t \in Tabs, Deliver(s, t)
    PROVE  TokensOK'
<1>1. PICK q : q = channel[<<s, t>>]
  OBVIOUS
<1>2. q \in Seq(Tokens) /\ q # <<>>
  BY <1>1 DEF SessionRows, Deliver
<1>3. /\ Tail(q) \in Seq(Tokens)
      /\ Tail(q) = <<>> => Head(q) = LastOf(q)
      /\ Tail(q) # <<>> => LastOf(Tail(q)) = LastOf(q)
  BY <1>2 DEF LastOf
<1>4. \A a, b \in Tabs :
         channel'[<<a, b>>] = IF a = s /\ b = t THEN Tail(q) ELSE channel[<<a, b>>]
  <2>1. channel' = [channel EXCEPT ![<<s, t>>] = Tail(q)]
    BY <1>1 DEF Deliver, SessionRows
  <2> QED
    BY <2>1 DEF SessionRows
<1>5. \A u \in Tabs : memory'[u] = IF u = t THEN Head(q) ELSE memory[u]
  BY <1>1 DEF Deliver, Received, SessionRows
<1>6. UNCHANGED <<jar, listens, calls, refreshing, requests>>
  BY DEF Deliver
<1>7. \A u \in Tabs : Active(u)' <=> Active(u)
  BY <1>6 DEF Active, Underway, InFlight
<1>8. \A a, b \in Tabs : channel'[<<a, b>>] # <<>> => channel[<<a, b>>] # <<>>
  BY <1>1, <1>2, <1>4
<1>9. SenderActive'
  BY <1>7, <1>8 DEF TokensOK, SenderActive
<1>10. t \in listens
  BY <1>1, <1>2 DEF TokensOK, Deaf
<1>11. Deaf'
  BY <1>5, <1>6, <1>8, <1>10 DEF TokensOK, Deaf
<1>12. Agree'
  <2> SUFFICES ASSUME jar.refresh # 0 PROVE Agree'
    BY <1>6 DEF Agree
  <2>1. LastOf(q).refresh = jar.refresh
    BY <1>1, <1>2 DEF TokensOK, Agree
  <2>2. ASSUME NEW u \in Tabs, \A a \in Tabs : channel'[<<a, u>>] = <<>>
        PROVE  memory'[u].refresh \in {0, jar.refresh}
    <3>1. CASE u = t
      <4>1. Tail(q) = <<>>
        BY <1>4, <2>2, <3>1
      <4> QED
        BY <1>3, <1>5, <2>1, <3>1, <4>1
    <3>2. CASE u # t
      <4>1. \A a \in Tabs : channel[<<a, u>>] = <<>>
        BY <1>4, <2>2, <3>2
      <4> QED
        BY <1>5, <3>2, <4>1 DEF TokensOK, Agree
    <3> QED
      BY <3>1, <3>2
  <2>3. ASSUME NEW a \in Tabs, NEW b \in Tabs, channel'[<<a, b>>] # <<>>
        PROVE  LastOf(channel'[<<a, b>>]).refresh = jar.refresh
    <3>1. CASE a = s /\ b = t
      BY <1>3, <1>4, <2>1, <2>3, <3>1
    <3>2. CASE ~(a = s /\ b = t)
      BY <1>4, <2>3, <3>2 DEF TokensOK, Agree
    <3> QED
      BY <3>1, <3>2
  <2> QED
    BY <1>6, <2>2, <2>3 DEF Agree
<1> QED
  BY <1>9, <1>11, <1>12 DEF TokensOK

\* A tab that forgets its tokens, whether its cookies are cleared with them or not.
LEMMA TokensWhenForgotten ==
    ASSUME SessionRows, TokensOK, NEW t \in Tabs,
           memory' = memory \/ memory' = [memory EXCEPT ![t] = NoTokens],
           jar' = jar \/ jar' = NoTokens,
           UNCHANGED <<listens, channel>>,
           \A u \in Tabs : Active(u)' => Active(u)
    PROVE  TokensOK'
<1>1. \A u \in Tabs : memory'[u].refresh = memory[u].refresh \/ memory'[u].refresh = 0
  BY DEF SessionRows, NoTokens
<1>2. SenderActive'
  BY DEF TokensOK, SenderActive
<1>3. Deaf'
  BY <1>1 DEF TokensOK, Deaf
<1>4. Agree'
  <2>1. CASE jar' = NoTokens
    BY <2>1 DEF Agree, NoTokens
  <2>2. CASE jar' = jar
    BY <1>1, <2>2 DEF TokensOK, Agree
  <2> QED
    BY <2>1, <2>2
<1> QED
  BY <1>2, <1>3, <1>4 DEF TokensOK

LEMMA TokensWhenReloaded ==
    ASSUME SessionRows, TokensOK, NEW t \in Tabs, ReloadTab(t)
    PROVE  TokensOK'
<1>1. UNCHANGED <<jar, calls, refreshing, requests>> /\ listens' = listens \ {t}
  BY DEF ReloadTab
<1>2. \A u \in Tabs : memory'[u] = IF u = t THEN NoTokens ELSE memory[u]
  BY DEF ReloadTab, SessionRows
<1>3. \A a, b \in Tabs : channel'[<<a, b>>] = IF b = t THEN <<>> ELSE channel[<<a, b>>]
  <2>1. \A a, b \in Tabs : <<a, b>>[2] = b /\ <<a, b>> \in Tabs \X Tabs
    OBVIOUS
  <2> QED
    BY <2>1 DEF ReloadTab
<1>4. \A u \in Tabs : Active(u)' <=> Active(u)
  BY <1>1 DEF Active, Underway, InFlight
<1>5. SenderActive'
  BY <1>3, <1>4 DEF TokensOK, SenderActive
<1>6. Deaf'
  BY <1>1, <1>2, <1>3 DEF TokensOK, Deaf, NoTokens
<1>7. Agree'
  <2> SUFFICES ASSUME jar.refresh # 0 PROVE Agree'
    BY <1>1 DEF Agree
  <2>1. ASSUME NEW u \in Tabs, \A a \in Tabs : channel'[<<a, u>>] = <<>>
        PROVE  memory'[u].refresh \in {0, jar.refresh}
    BY <1>2, <1>3, <2>1 DEF TokensOK, Agree, NoTokens
  <2>2. ASSUME NEW a \in Tabs, NEW b \in Tabs, channel'[<<a, b>>] # <<>>
        PROVE  LastOf(channel'[<<a, b>>]).refresh = jar.refresh
    BY <1>3, <2>2 DEF TokensOK, Agree
  <2> QED
    BY <1>1, <2>1, <2>2 DEF Agree
<1> QED
  BY <1>5, <1>6, <1>7 DEF TokensOK

LEMMA TokensWhenKept ==
    ASSUME SessionRows, TokensOK, UNCHANGED browser,
           Delivered \/ \A u \in Tabs : Active(u)' => Active(u)
    PROVE  TokensOK'
<1>1. UNCHANGED <<jar, memory, listens, channel>>
  BY DEF browser
<1>2. Delivered => \A a, b \in Tabs : channel[<<a, b>>] = <<>>
  BY DEF Delivered
<1>3. SenderActive'
  BY <1>1, <1>2 DEF TokensOK, SenderActive
<1> QED
  BY <1>1, <1>3 DEF TokensOK, Deaf, Agree

LEMMA TokensStayOK ==
    ASSUME Patient, SessionRows, Alone, TokensOK, [SessionsNext]_sessionsVars
    PROVE  TokensOK'
<1>1. ASSUME NEW t \in Tabs, OnlyIn(t), Active(t)
      PROVE  \A u \in Tabs : /\ u # t => ~Active(u) /\ ~Active(u)'
                             /\ Active(u)' => Active(u)
  BY <1>1, OthersUntouched DEF Alone
<1>2. ASSUME NEW c \in Calls, Call(c) PROVE TokensOK'
  BY <1>2, TokensWhenKept DEF Call, MayStart
<1>3. ASSUME NEW c \in Calls, CallStep(c) PROVE TokensOK'
  <2>1. TabOf[c] \in Tabs
    BY SessionsAssumption
  <2>2. PICK t \in Tabs : t = TabOf[c]
    BY <2>1
  <2>3. OnlyIn(t) /\ Active(t)
    BY <1>3, <2>2, CallsAreLocal, GoesOn
  <2>4. UNCHANGED browser
    BY <1>3 DEF CallStep, CallAccepted, CallDenied, CallFailed, Resend
  <2> QED
    BY <1>1, <2>3, <2>4, TokensWhenKept
<1>4. ASSUME NEW t \in Tabs, RefreshServed(t) \/ RequestServed(t) PROVE TokensOK'
  <2>1. OnlyIn(t) /\ Active(t)
    BY <1>4, RefreshesAreLocal, RequestsAreLocal, GoesOn
  <2>2. UNCHANGED browser
    BY <1>4 DEF RefreshServed, RefreshRead, RefreshWrite, RequestServed, LoginServed, LogoutRead,
                LogoutWrite, PasswordRead, PasswordStored, PasswordWrite
  <2> QED
    BY <1>1, <2>1, <2>2, TokensWhenKept
<1>5. ASSUME NEW t \in Tabs, RefreshDone(t) \/ SignedIn(t) PROVE TokensOK'
  <2>1. OnlyIn(t) /\ Active(t)
    BY <1>5, RefreshesAreLocal, RequestsAreLocal, GoesOn DEF RefreshEnds, RequestEnds
  <2>2. PICK tokens \in Tokens : Adopt(t, tokens)
    <3>1. CASE RefreshDone(t)
      <4>1. refreshing[t] \in ServerRequest
        BY <3>1, RequestShape DEF RefreshDone, SessionRows
      <4> QED
        BY <3>1, <4>1 DEF RefreshDone, ServerRequest
    <3>2. CASE SignedIn(t)
      <4>1. requests[t] \in ServerRequest
        BY <3>2, RequestShape DEF SignedIn, SessionRows
      <4> QED
        BY <3>2, <4>1 DEF SignedIn, ServerRequest
    <3> QED
      BY <1>5, <3>1, <3>2
  <2> QED
    BY <1>1, <2>1, <2>2, TokensWhenAdopted
<1>6. ASSUME NEW t \in Tabs,
             RefreshRefused(t) \/ RefreshLost(t) \/ SignedOut(t) \/ RequestLost(t)
      PROVE  TokensOK'
  <2>1. OnlyIn(t) /\ Active(t)
    BY <1>6, RefreshesAreLocal, RequestsAreLocal, GoesOn DEF RefreshEnds, RequestEnds
  <2>2. /\ memory' = memory \/ memory' = [memory EXCEPT ![t] = NoTokens]
        /\ jar' = jar \/ jar' = NoTokens
        /\ UNCHANGED <<listens, channel>>
    BY <1>6 DEF RefreshRefused, RefreshLost, GiveUp, SignedOut, RequestLost
  <2> QED
    BY <1>1, <2>1, <2>2, TokensWhenForgotten
<1>7. ASSUME NEW t \in Tabs, Login(t) \/ Logout(t) \/ ChangePassword(t) PROVE TokensOK'
  <2>1. PICK op \in {"login", "logout", "password"}, token \in Nat : AskServer(t, op, token)
    BY <1>7, Asking
  <2> QED
    BY <2>1, TokensWhenKept DEF AskServer, MayStart
<1>8. ASSUME NEW t \in Tabs, ReloadTab(t) PROVE TokensOK'
  BY <1>8, TokensWhenReloaded
<1>9. ASSUME NEW s \in Tabs, NEW t \in Tabs, Deliver(s, t) PROVE TokensOK'
  BY <1>9, TokensWhenDelivered
<1>10. ASSUME Expire \/ UNCHANGED sessionsVars PROVE TokensOK'
  <2>1. UNCHANGED <<browser, calls, refreshing, requests>>
    BY <1>10 DEF Expire, sessionsVars
  <2>2. \A u \in Tabs : Active(u)' => Active(u)
    BY <2>1 DEF Active, Underway, InFlight
  <2> QED
    BY <2>1, <2>2, TokensWhenKept
<1> QED
  BY <1>2, <1>3, <1>4, <1>5, <1>6, <1>7, <1>8, <1>9, <1>10
     DEF SessionsNext, RefreshEnds, RequestEnds

-------------------------------------------------------------------------------
(* Sessions: a refresh.                                                     *)

\* A refresh sends the token of the cookie, unless there is no cookie, and is refused only
\* where the cookie is not good either.
RefreshOK(r) ==
    r # NoRequest =>
        /\ r.cookie \in {0, r.token}
        /\ r.stage = "refused" => r.cookie # r.seen
RefreshesHonest == \A t \in Tabs : RefreshOK(refreshing[t])

LEMMA HonestWhenDenied ==
    ASSUME SessionRows, TokensOK, NEW t \in Tabs, Active(t)
    PROVE  RefreshOK(Sent("refresh", RefreshWith(t)))
<1>1. \A s \in Tabs : channel[<<s, t>>] = <<>>
  BY DEF TokensOK, SenderActive
<1>2. jar.refresh # 0 => memory[t].refresh \in {0, jar.refresh}
  BY <1>1 DEF TokensOK, Agree
<1>3. jar.refresh \in {0, RefreshWith(t)}
  BY <1>2 DEF RefreshWith
<1> QED
  BY <1>3 DEF RefreshOK, Sent

LEMMA HonestWhenServed ==
    ASSUME SessionRows, NEW t \in Tabs, RefreshServed(t), RefreshesHonest
    PROVE  RefreshesHonest'
<1>1. PICK r : r = refreshing[t]
  OBVIOUS
<1>2. r \in ServerRequest /\ r # NoRequest
  BY <1>1, GoesOn DEF SessionRows
<1>3. RefreshOK(r) /\ version \in Nat \ {0}
  BY <1>1 DEF RefreshesHonest, SessionRows
<1>4. \A u \in Tabs : u # t => refreshing'[u] = refreshing[u]
  BY RefreshesAreLocal DEF OnlyIn, OtherTabs
<1>5. RefreshOK(refreshing'[t])
  <2>1. CASE RefreshRead(t)
    <3>1. PICK good \in BOOLEAN :
             /\ good <=> r.token # 0 /\ r.token = version
             /\ refreshing' = [refreshing EXCEPT ![t].stage = IF good THEN "read" ELSE "refused",
                                                 ![t].seen = version]
      BY <1>1, <2>1 DEF RefreshRead
    <3>2. PICK stage : stage = IF good THEN "read" ELSE "refused"
      OBVIOUS
    <3>3. refreshing'[t] = [r EXCEPT !.stage = stage, !.seen = version]
      BY <1>1, <3>1, <3>2 DEF SessionRows
    <3>4. /\ refreshing'[t].stage = stage /\ refreshing'[t].seen = version
          /\ refreshing'[t].cookie = r.cookie /\ refreshing'[t].token = r.token
      BY <1>2, <3>3 DEF ServerRequest
    <3>5. stage = "refused" => r.cookie # version
      BY <1>2, <1>3, <3>1, <3>2 DEF RefreshOK
    <3> QED
      BY <1>2, <1>3, <3>4, <3>5 DEF RefreshOK
  <2>2. CASE RefreshWrite(t)
    <3>1. refreshing'[t] = [r EXCEPT !.stage = "answered", !.answer = Issue(r.seen + 1)]
      BY <1>1, <2>2 DEF RefreshWrite, SessionRows
    <3>2. /\ refreshing'[t].stage = "answered"
          /\ refreshing'[t].cookie = r.cookie /\ refreshing'[t].token = r.token
      BY <1>2, <3>1 DEF ServerRequest
    <3> QED
      BY <1>2, <1>3, <3>2 DEF RefreshOK
  <2> QED
    BY <2>1, <2>2 DEF RefreshServed
<1> QED
  BY <1>4, <1>5 DEF RefreshesHonest

LEMMA RefreshesStayHonest ==
    ASSUME SessionRows, TokensOK, RefreshesHonest, [SessionsNext]_sessionsVars
    PROVE  RefreshesHonest'
<1>1. ASSUME UNCHANGED refreshing PROVE RefreshesHonest'
  BY <1>1 DEF RefreshesHonest
<1>2. ASSUME NEW t \in Tabs, NEW r, refreshing' = [refreshing EXCEPT ![t] = r], RefreshOK(r)
      PROVE  RefreshesHonest'
  BY <1>2 DEF RefreshesHonest, SessionRows
<1>3. ASSUME NEW c \in Calls, CallDenied(c) PROVE RefreshesHonest'
  <2>1. TabOf[c] \in Tabs
    BY SessionsAssumption
  <2>2. PICK t \in Tabs : t = TabOf[c]
    BY <2>1
  <2>3. Active(t)
    BY <1>3, <2>2, GoesOn DEF CallStep
  <2>4. RefreshOK(Sent("refresh", RefreshWith(t)))
    BY <2>3, HonestWhenDenied
  <2>5. UNCHANGED refreshing \/ refreshing' = [refreshing EXCEPT ![t] = Sent("refresh", RefreshWith(t))]
    BY <1>3, <2>2 DEF CallDenied
  <2> QED
    BY <1>1, <1>2, <2>4, <2>5
<1>4. ASSUME NEW t \in Tabs, RefreshServed(t) PROVE RefreshesHonest'
  BY <1>4, HonestWhenServed
<1>5. ASSUME NEW t \in Tabs, RefreshEnds(t) PROVE RefreshesHonest'
  <2>1. refreshing' = [refreshing EXCEPT ![t] = NoRequest]
    BY <1>5 DEF RefreshEnds, RefreshDone, RefreshRefused, RefreshLost, GiveUp
  <2>2. RefreshOK(NoRequest)
    BY DEF RefreshOK
  <2> QED
    BY <1>2, <2>1, <2>2
<1>6. ASSUME NEW t \in Tabs,
             \/ RequestServed(t) \/ RequestEnds(t)
             \/ Login(t) \/ Logout(t) \/ ChangePassword(t)
      PROVE  UNCHANGED refreshing
  BY <1>6, Asking, RequestsAreLocal
<1>7. ASSUME \/ \E c \in Calls : Call(c) \/ CallAccepted(c) \/ CallFailed(c) \/ Resend(c)
             \/ \E t \in Tabs : ReloadTab(t)
             \/ \E s, t \in Tabs : Deliver(s, t)
             \/ Expire
             \/ UNCHANGED sessionsVars
      PROVE  UNCHANGED refreshing
  BY <1>7 DEF Call, CallAccepted, CallFailed, Resend, ReloadTab, Deliver, Expire, sessionsVars
<1> QED
  BY <1>1, <1>3, <1>4, <1>5, <1>6, <1>7 DEF SessionsNext, CallStep

-------------------------------------------------------------------------------
(* Sessions: the theorems.                                                  *)

SessionInv ==
    SessionRows /\ Alone /\ AllInOrder /\ TokensOK /\ RefreshesHonest

LEMMA SessionInvInit ==
    ASSUME SessionsInit
    PROVE  SessionInv
<1>1. /\ \A t \in Tabs : refreshing[t] = NoRequest /\ requests[t] = NoRequest
      /\ \A c \in Calls : calls[c].stage = "done"
      /\ \A a, b \in Tabs : channel[<<a, b>>] = <<>>
      /\ jar.refresh = 0 /\ \A t \in Tabs : memory[t].refresh = 0
  BY DEF SessionsInit, NoTokens
<1>2. Alone
  BY <1>1 DEF Alone, Active, Underway, InFlight
<1>3. AllInOrder /\ RefreshesHonest
  BY <1>1 DEF AllInOrder, TabInOrder, RefreshesHonest, RefreshOK
<1>4. TokensOK
  BY <1>1 DEF TokensOK, SenderActive, Deaf, Agree
<1> QED
  BY <1>2, <1>3, <1>4, SessionRowsInit DEF SessionInv

LEMMA SessionInvStep ==
    ASSUME Patient, SessionInv, [SessionsNext]_sessionsVars
    PROVE  SessionInv'
BY SessionRowsStep, StaysAlone, StaysInOrder, TokensStayOK, RefreshesStayHonest DEF SessionInv

\* "Broadcasting the new pair keeps every tab on the same generation": whenever nothing is
\* underway and every message has arrived, each tab holds the refresh token of the cookie
\* or none.  This is for a user who waits for a tab before starting something in another.
THEOREM TabsKeepUp == Patient => (SessionsSpec => []SameGeneration)
<1> SUFFICES ASSUME Patient PROVE SessionsSpec => []SameGeneration
  OBVIOUS
<1>1. SessionsInit => SessionInv
  BY SessionInvInit
<1>2. SessionInv /\ [SessionsNext]_sessionsVars => SessionInv'
  BY SessionInvStep
<1>3. SessionInv => SameGeneration
  BY DEF SessionInv, TokensOK, Agree, SameGeneration, Quiet, Delivered
<1> QED
  BY <1>1, <1>2, <1>3, PTL DEF SessionsSpec

\* A change of password "re-issues fresh tokens for the current session": when its answer
\* is there, the refresh token in it is good, for any tabs, calls and losses, also of a user
\* who does not wait.  The version is read twice and written once on the way; what must not
\* come between is that a refresh, a logout or another change writes it, which nothing in
\* the code prevents.
THEOREM NewPasswordKeepsUser ==
    SessionsSpec /\ [][WritesAlone]_sessionsVars => []PasswordKeepsSession
<1>1. SessionsInit => SessionRows /\ PasswordsCurrent
  BY SessionRowsInit DEF SessionsInit, PasswordsCurrent, PasswordOK
<1>2. SessionRows /\ PasswordsCurrent /\ [SessionsNext]_sessionsVars /\ [WritesAlone]_sessionsVars
        => (SessionRows /\ PasswordsCurrent)'
  <2> SUFFICES ASSUME SessionRows, PasswordsCurrent, [SessionsNext]_sessionsVars,
                      [WritesAlone]_sessionsVars
               PROVE  (SessionRows /\ PasswordsCurrent)'
    OBVIOUS
  <2>1. SessionRows'
    BY SessionRowsStep
  <2>2. CASE UNCHANGED sessionsVars
    BY <2>1, <2>2 DEF sessionsVars, server, PasswordsCurrent
  <2>3. CASE WritesAlone
    BY <2>1, <2>3, PasswordsStayCurrent
  <2> QED
    BY <2>2, <2>3
<1>3. SessionRows /\ PasswordsCurrent => PasswordKeepsSession
  <2> SUFFICES ASSUME PasswordsCurrent, NEW t \in Tabs, Asked(t, "password", "answered")
               PROVE  requests[t].answer.refresh = version
    BY DEF PasswordKeepsSession
  <2>1. requests[t] # NoRequest
    BY DEF Asked, NoRequest
  <2> QED
    BY <2>1 DEF Asked, PasswordsCurrent, PasswordOK
<1> QED
  BY <1>1, <1>2, <1>3, PTL DEF SessionsSpec

\* "The httpOnly refresh cookie is the real source of truth": a refresh is refused only
\* while the cookie would be refused as well, although the copy in memory is what the server
\* looks at first.
THEOREM CookieIsTruth == Patient => (SessionsSpec => []CookieDecides)
<1> SUFFICES ASSUME Patient PROVE SessionsSpec => []CookieDecides
  OBVIOUS
<1>1. SessionsInit => SessionInv
  BY SessionInvInit
<1>2. SessionInv /\ [SessionsNext]_sessionsVars => SessionInv'
  BY SessionInvStep
<1>3. SessionInv => CookieDecides
  <2>1. NoRequest.stage # "refused"
    BY DEF NoRequest
  <2> QED
    BY <2>1 DEF SessionInv, RefreshesHonest, RefreshOK, CookieDecides
<1> QED
  BY <1>1, <1>2, <1>3, PTL DEF SessionsSpec
=============================================================================
