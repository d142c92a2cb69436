----------------------------- MODULE DeskPages -----------------------------
(***************************************************************************)
(* The pages of the client on which documents, vouchers and cheques are    *)
(* worked: of each, what it fetches when it opens, the list and the        *)
(* options of its selects, the buttons it shows by permission and by the   *)
(* status of the row, the request that each button sends, and the cached   *)
(* queries it discards when that succeeds.  A dialog or a form between the *)
(* button and its request, and what that fetches, is left out.             *)
(***************************************************************************)
EXTENDS Services

(* A button: the permissions it takes, and the rows it is shown on. *)
Button(resource, action, rows) == [asks |-> {<<resource, action>>}, on |-> rows]

(* Requests to one path, which discard the same queries: button -> handler.  *)
(* A request may be followed by another, when the user may send that one.    *)
Requests(path, handlers, queries) ==
    [b \in DOMAIN handlers |->
        [call |-> <<path, handlers[b]>>, follow |-> <<>>, clears |-> queries]]

FollowedBy(request, endpoint) == [request EXCEPT !.follow = <<endpoint>>]

Offers(buttons, requests) == [b \in DOMAIN buttons |-> buttons[b] @@ requests[b]]

(* A page with a list: the query it is cached under, the rows it shows.      *)
ListPage(path, handler, key, rows, offers) ==
    [path |-> path, reads |-> {<<path, handler>>}, also |-> {}, key |-> key, shows |-> rows,
     offers |-> offers]

(* What else a page fetches when it opens: most often what is chosen from.   *)
AlsoReading(screen, endpoints) == [screen EXCEPT !.also = @ \cup endpoints]

FlatOptions(paths) == paths \X {"findAllFlat"}
ItemOptions        == {<<"items", "findAll">>}

-----------------------------------------------------------------------------
(* Documents. *)

(* useDocumentMutations: one list, and the dashboard. *)
DocumentMutations(path, key) ==
    Requests(path,
             [post |-> "post", submit |-> "submit", reject |-> "reject", cancel |-> "cancel",
              delete |-> "remove", update |-> "update"],
             {key, "dashboard"})

DocumentButtons(resource) ==
    [create |-> Button(resource, "create", {"absent"}),
     submit |-> Button(resource, "submit", {"draft"}),
     post   |-> Button(resource, "post",   {"draft", "pending"}),
     cancel |-> Button(resource, "cancel", {"draft", "pending"}),
     update |-> Button(resource, "update", {"draft", "posted"}),
     delete |-> Button(resource, "delete", {"draft", "posted"}),
     reject |-> Button(resource, "reject", {"pending"})]

DocumentSaves(path) == Requests(path, [create |-> "create"], {path})

(* The same page is written once for four documents, which differ in whom    *)
(* they are made out to.                                                     *)
DocumentPage(path, resource, parties) ==
    AlsoReading(
      ListPage(path, "findAll", path, DocumentRows,
               Offers(DocumentButtons(resource),
                      DocumentSaves(path) @@ DocumentMutations(path, path))),
      ItemOptions \cup FlatOptions({parties, "stock-locations"}))

TransferButtons ==
    LET may(action, rows) == Button("inventory.transfer", action, rows)
    IN [create |-> may("create", {"absent"}),
        submit |-> may("submit", {"draft"}),
        post   |-> may("post", {"draft", "pending"}),
        update |-> may("update", {"draft"}),
        delete |-> may("delete", {"draft"}),
        cancel |-> may("cancel", {"draft", "pending"}),
        reject |-> may("reject", {"pending"})]

TransferSaves ==
    Requests("stock-transfers", [create |-> "create", update |-> "update"], {"stock-transfers"})

TransfersPage ==
    AlsoReading(
      ListPage("stock-transfers", "findAll", "stock-transfers", DocumentRows,
               Offers(TransferButtons,
                      TransferSaves @@ DocumentMutations("stock-transfers", "stock-transfers"))),
      ItemOptions \cup FlatOptions({"stock-locations"}))

DeliveryButtons ==
    LET may(action, rows) == Button("sales.delivery-order", action, rows)
    IN [create |-> may("create", {"absent"}),
        submit |-> may("submit", {"draft"}),
        post   |-> may("post", {"draft", "pending"}),
        cancel |-> may("cancel", {"draft"}),
        reject |-> may("reject", {"pending"}),
        update |-> may("update", {"draft"}),
        delete |-> may("delete", DocumentRows \ {"cancelled"})]

(* What is left to deliver is shown with the invoices. *)
DeliverySaves ==
    Requests("sales/delivery-orders", [create |-> "create", update |-> "update"],
             {"sales/delivery-orders", "sales"})

(* The posted invoices are fetched for the one that is delivered.            *)
DeliveryOrdersPage ==
    AlsoReading(
      ListPage("sales/delivery-orders", "findAll", "sales/delivery-orders", DocumentRows,
               Offers(DeliveryButtons,
                      DeliverySaves
                        @@ DocumentMutations("sales/delivery-orders", "sales/delivery-orders"))),
      ItemOptions \cup FlatOptions({"customers", "stock-locations"}) \cup {<<"sales", "findAll">>})

-----------------------------------------------------------------------------
(* Vouchers and the cash book. *)

VoucherButtons ==
    LET may(action, rows) == Button("accounts.vouchers", action, rows)
    IN [create |-> may("create", {"absent"}),
        update |-> may("update", {"draft", "pending"}),
        unpost |-> may("update", {"posted"}),
        submit |-> may("submit", {"draft"}),
        post   |-> may("post", {"draft", "pending"}),
        cancel |-> may("cancel", {"draft", "pending"}),
        reject |-> may("reject", {"pending"}),
        delete |-> may("delete", DocumentRows)]

VoucherSaves ==
    Requests("vouchers", [create |-> "create", update |-> "update", unpost |-> "unpost",
                          delete |-> "remove"],
             {"vouchers"})

VouchersPage ==
    AlsoReading(
      ListPage("vouchers", "findAll", "vouchers", DocumentRows,
               Offers(VoucherButtons, VoucherSaves @@ DocumentMutations("vouchers", "vouchers"))),
      FlatOptions({"main-accounts"}))

(* The cash book lists posted vouchers only, so an entry made on it is        *)
(* posted at once when the user may.                                          *)
CashBookRequests ==
    LET books   == {"cashbook", "vouchers", "payments"}
        request == Requests("vouchers", [create |-> "create", delete |-> "remove"], books)
    IN [request EXCEPT !.create = FollowedBy(@, <<"vouchers", "post">>)]

CashBookPage ==
    AlsoReading(
      ListPage("vouchers", "cashBook", "cashbook", {"posted"},
               Offers([create |-> Button("accounts.vouchers", "create", {"absent"}),
                       delete |-> Button("accounts.vouchers", "delete", {"posted"})],
                      CashBookRequests)),
      FlatOptions({"main-accounts"}))

-----------------------------------------------------------------------------
(* Receipts and payments, and the register of cheques. *)

(* Both are about customers and suppliers, the company's banks and accounts. *)
PartyOptions == FlatOptions({"main-accounts", "customers", "suppliers", "banks"})

(* Clearing, endorsing and bouncing take the permission to post. *)
ChequeButtons ==
    LET may(action, rows) == Button("accounts.payments", action, rows)
    IN [update  |-> may("update", {"pending", "in hand", "settled"}),
        deposit |-> may("post", {"in hand"}),
        endorse |-> may("post", {"in hand"}),
        bounce  |-> may("post", {"in hand"}),
        delete  |-> may("delete", PaymentRows)]

PaymentButtons ==
    [create |-> Button("accounts.payments", "create", {"absent"}),
     post   |-> Button("accounts.payments", "post", {"pending"}),
     cancel |-> Button("accounts.payments", "cancel", {"pending"})]
      @@ ChequeButtons

PaymentRequests ==
    Requests("payments", [create |-> "create", post |-> "post", cancel |-> "cancel"], {"payments"})
      @@ Requests("payments", [delete |-> "remove"], {"payments", "cheques", "cashbook"})
      @@ Requests("payments", [deposit |-> "deposit", bounce |-> "bounce", endorse |-> "endorse"],
                  {"payments", "cheques"})

PaymentEdits == Requests("payments", [update |-> "updatePayment"], {"payments", "cheques"})

PaymentsPage ==
    AlsoReading(
      ListPage("payments", "findAll", "payments", PaymentRows,
               Offers(PaymentButtons, PaymentRequests @@ PaymentEdits)),
      PartyOptions)

ChequeRequests ==
    Requests("payments", [deposit |-> "deposit", bounce |-> "bounce", endorse |-> "endorse"],
             {"cheques", "payments"})
      @@ Requests("payments", [delete |-> "remove"], {"cheques", "payments", "cashbook"})

ChequeEdits == Requests("payments", [update |-> "updateCheque"], {"cheques", "payments"})

ChequesPage ==
    AlsoReading(
      ListPage("payments", "findAll", "cheques", PaymentRows,
               Offers(ChequeButtons, ChequeRequests @@ ChequeEdits)),
      PartyOptions)
=============================================================================
