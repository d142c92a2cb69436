------------------------------ MODULE Services ------------------------------
(***************************************************************************)
(* What each service accepts of a row and where it takes it, by the row's  *)
(* status alone: handler -> the pairs of a status it accepts and one it    *)
(* may leave.  A row that is not there is "absent".  Amounts, dates, rows  *)
(* that refer to this one and missing accounts, on which a service may     *)
(* refuse as well, are left to the modules of the services.                *)
(***************************************************************************)
EXTENDS TLC

Moves(from, to) == from \X {to}
Keeps(rows)     == {<<s, s>> : s \in rows}

-----------------------------------------------------------------------------
(* Documents: drafted, perhaps submitted, then posted or cancelled. *)

DocumentRows == {"draft", "pending", "posted", "cancelled"}
Unposted     == {"draft", "pending"}

(* What all five documents share. *)
Approval ==
    [create |-> Moves({"absent"}, "draft"),
     submit |-> Moves(Unposted, "pending"),
     post   |-> Moves(Unposted \cup {"posted"}, "posted"),
     reject |-> Moves({"pending"}, "draft"),
     cancel |-> Moves(Unposted \cup {"cancelled"}, "cancelled")]

(* A posted invoice or purchase is unbooked and booked again in one edit. *)
SalesService ==
    [update |-> Keeps({"draft", "posted"}), remove |-> Moves(Unposted \cup {"posted"}, "absent")]
      @@ Approval

PurchasesService ==
    [update |-> Keeps({"draft", "posted"}), remove |-> Moves(Unposted \cup {"posted"}, "absent")]
      @@ Approval

SalesReturnsService ==
    [update |-> Keeps({"draft"}), remove |-> Moves(Unposted \cup {"posted"}, "absent")]
      @@ Approval

PurchaseReturnsService ==
    [update |-> Keeps({"draft"}), remove |-> Moves(Unposted \cup {"posted"}, "absent")]
      @@ Approval

StockTransfersService ==
    [update |-> Keeps({"draft"}), remove |-> Moves({"draft"}, "absent")] @@ Approval

DeliveryOrdersService ==
    [update |-> Keeps({"draft"}), remove |-> Moves(DocumentRows, "absent")] @@ Approval

-----------------------------------------------------------------------------
(* The books. *)

VouchersService ==
    [create |-> Moves({"absent"}, "draft"),
     update |-> Moves(Unposted, "draft"),
     submit |-> Moves(Unposted, "pending"),
     post   |-> Moves(Unposted, "posted"),
     unpost |-> Moves({"posted"}, "draft"),
     reject |-> Moves({"pending"}, "draft"),
     cancel |-> Moves(DocumentRows, "cancelled"),
     remove |-> Moves(DocumentRows, "absent")]

(* A posted cheque is in hand until it is cleared, bounced or endorsed; any  *)
(* other posted entry, and a cleared cheque, is settled.                     *)
PaymentRows == {"pending", "in hand", "settled", "bounced", "endorsed", "cancelled"}

PaymentsService ==
    LET edited == Keeps({"pending", "in hand", "settled"})
    IN [create        |-> Moves({"absent"}, "pending"),
        post          |-> Moves({"pending"}, "in hand") \cup Moves({"pending"}, "settled")
                            \cup Keeps({"in hand", "settled"}),
        deposit       |-> Moves({"in hand", "settled"}, "settled"),
        bounce        |-> Moves({"in hand"}, "bounced"),
        endorse       |-> Moves({"in hand", "endorsed"}, "endorsed"),
        cancel        |-> Moves({"pending", "cancelled"}, "cancelled"),
        remove        |-> Moves(PaymentRows, "absent"),
        updateCheque  |-> edited,
        updatePayment |-> edited]

-----------------------------------------------------------------------------
(* Staff and money from investors. *)

PayrollRows == {"draft", "posted", "paid", "cancelled"}

PayrollService ==
    [generate    |-> Moves({"absent"}, "draft"),
     updateItems |-> Keeps({"draft"}),
     refresh     |-> Keeps({"draft"}),
     post        |-> Moves({"draft"}, "posted"),
     disburse    |-> Moves({"posted"}, "paid"),
     exportBank  |-> Keeps(PayrollRows \ {"cancelled"}),
     cancel      |-> Moves({"posted", "paid"}, "cancelled"),
     remove      |-> Moves(PayrollRows, "absent")]

LeaveRows == {"pending", "approved", "rejected"}

LeaveRequestsService ==
    [create |-> Moves({"absent"}, "pending"),
     decide |-> Moves({"pending"}, "approved") \cup Moves({"pending"}, "rejected"),
     remove |-> Moves(LeaveRows, "absent")]

(* A day of one employee, which may be marked again and again. *)
AttendanceService ==
    [bulk      |-> Moves({"absent", "marked"}, "marked"),
     remove    |-> Moves({"marked"}, "absent"),
     removeDay |-> Moves({"absent", "marked"}, "absent")]

(* An active investment is "paying" from its first payout on. *)
InvestmentRows == {"planned", "active", "paying", "closed", "cancelled"}

InvestmentsService ==
    [create         |-> Moves({"absent"}, "planned"),
     update         |-> Keeps({"planned", "active"}),
     receive        |-> Moves({"planned"}, "active"),
     payInstallment |-> Moves({"active", "paying"}, "paying"),
     close          |-> Moves({"active", "paying", "closed"}, "closed"),
     cancel         |-> Moves({"planned", "cancelled"}, "cancelled"),
     remove         |-> Moves({"planned", "cancelled"}, "absent"),
     skipInstallment       |-> Keeps({"planned", "active", "paying"}),
     rescheduleInstallment |-> Keeps({"planned", "active", "paying"})]

-----------------------------------------------------------------------------
(* Master records are there or not, and the status is one of their columns. *)

MasterService ==
    [create |-> Moves({"absent"}, "active"),
     update |-> {"active", "inactive"} \X {"active", "inactive"},
     remove |-> Moves({"active", "inactive"}, "absent")]

EmployeesService ==
    [deactivate |-> Moves({"active"}, "inactive"), activate |-> Moves({"inactive"}, "active"),
     updateSalaryStructure |-> Keeps({"active", "inactive"}),
     createSalaryRecord    |-> Keeps({"active", "inactive"})]
      @@ MasterService

(* Nobody deletes the account they work with, here called "self".            *)
UsersService ==
    [create |-> Moves({"absent"}, "active"),
     update |-> ({"active", "inactive"} \X {"active", "inactive"}) \cup Keeps({"self"}),
     remove |-> Moves({"active", "inactive"}, "absent")]

(* Roles have no status, and their links to permissions are no column.  One  *)
(* that users hold is not deleted.                                           *)
RoleRows == {"unused", "held"}

RolesService ==
    [create |-> Moves({"absent"}, "unused"),
     update |-> Keeps(RoleRows),
     assignPermissions |-> Keeps(RoleRows),
     remove |-> Moves({"unused"}, "absent")]

Handling ==
       "sales"                 :> SalesService
    @@ "purchases"             :> PurchasesService
    @@ "sales-returns"         :> SalesReturnsService
    @@ "purchase-returns"      :> PurchaseReturnsService
    @@ "stock-transfers"       :> StockTransfersService
    @@ "sales/delivery-orders" :> DeliveryOrdersService
    @@ "vouchers"              :> VouchersService
    @@ "payments"              :> PaymentsService
    @@ "hr/payroll"            :> PayrollService
    @@ "hr/leaves"             :> LeaveRequestsService
    @@ "hr/attendance"         :> AttendanceService
    @@ "investments"           :> InvestmentsService
    @@ "hr/employees"          :> EmployeesService
    @@ "users"                 :> UsersService
    @@ "roles"                 :> RolesService
    @@ [path \in {"head-accounts", "sub-heads", "main-accounts", "banks", "item-types", "brands",
                  "stock-locations", "items", "towns", "customers", "suppliers",
                  "hr/departments", "hr/designations", "hr/leave-types", "hr/salary-components",
                  "hr/loans", "investments/investors"} |-> MasterService]

(* Where a request takes a row of that status: nowhere when the service      *)
(* refuses it, and a request that is about no row leaves it as it is.        *)
Outcomes(endpoint, row) ==
    IF /\ endpoint[1] \in DOMAIN Handling
       /\ endpoint[2] \in DOMAIN Handling[endpoint[1]]
    THEN {to \in {move[2] : move \in Handling[endpoint[1]][endpoint[2]]} :
             <<row, to>> \in Handling[endpoint[1]][endpoint[2]]}
    ELSE {row}
=============================================================================
