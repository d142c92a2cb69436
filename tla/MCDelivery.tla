------------------------------ MODULE MCDelivery ------------------------------
(* Instances of Delivery for TLC. *)
EXTENDS Delivery

CONSTANTS s1, s2, s3, o1, o2, p1, p2

\* Any process serves any document, or each process only one of the orders.
AnyDocument == [p \in Procs |-> Sales \cup Orders]
OneOrder    == [p \in Procs |-> IF p = p1 THEN {o1} ELSE {o2}]

RaiseOrders == {"order"} \X {s1, NoSale}
Shipping    == {"dispatch", "recall", "discard"}

\* Every operation on one invoice (s1) and one order; the other order is dispatched
\* and recalled beside it, and only an invoice without orders (s2) is edited.
\* The third invoice takes orders of its own and those that are pointed at it.
AllButEdits == ((SaleOps \ {"edit"}) \X {s1}) \cup ({"post", "edit", "remove"} \X {s2})
               \cup {<<"order", s3>>} \cup RaiseOrders
               \cup (OrderOps \X {o1}) \cup ({"dispatch", "recall"} \X {o2})

\* Two orders are raised, dispatched, recalled and deleted.
Dispatches == RaiseOrders \cup (Shipping \X Orders)

\* An invoice is posted while its order is dispatched and recalled.
PostAndRecall == RaiseOrders \cup {<<"post", s1>>} \cup ({"dispatch", "recall"} \X Orders)
=============================================================================
