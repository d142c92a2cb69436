----------------------------- MODULE Endpoints -----------------------------
(***************************************************************************)
(* What the API offers and what it asks for: the catalogue of permissions  *)
(* and, of every controller, the permission that each handler requires.    *)
(*                                                                         *)
(* A permission is a pair of what it is about and what may be done to it;  *)
(* an endpoint is a controller's path and the name of the handler.         *)
(***************************************************************************)
EXTENDS TLC

Of(resources, actions) == resources \X actions

Crud == {"view", "create", "update", "delete"}
Flow == Crud \cup {"submit", "post", "reject", "cancel"}

-----------------------------------------------------------------------------
(* The catalogue. *)

AdministrationCatalog ==
    LET accounts == {"administration.head-accounts", "administration.sub-heads"}
        products == {"administration.item-types", "administration.brands",
                     "administration.stock-locations", "administration.towns"}
        listed   == {"administration.main-accounts", "administration.customers",
                     "administration.suppliers", "administration.items"}
    IN Of(accounts \cup products \cup listed, Crud)
         \cup Of(listed, {"export", "print"})
         \cup Of({"administration.items"}, {"stock"})

HrCatalog ==
    Of({"hr.departments", "hr.designations", "hr.employees", "hr.salary-components", "hr.loans"}, Crud)
      \cup Of({"hr.attendance"}, {"view", "manage"})
      \cup Of({"hr.leaves"}, Crud \cup {"approve"})
      \cup Of({"hr.payroll"}, Crud \cup {"post", "cancel", "print", "disburse", "export"})
      \cup Of({"hr.salary-history"}, {"create"})

AccessCatalog == Of({"users", "roles", "permissions"}, {"view", "manage"})

AccountingCatalog ==
    Of({"accounts.vouchers"}, Flow)
      \cup Of({"accounts.cashbook"}, {"view"})
      \cup Of({"accounts.payments"}, Crud \cup {"post", "cancel", "print", "export"})

InventoryCatalog ==
    Of({"inventory.purchase", "inventory.purchase-return", "inventory.transfer"},
       Flow \cup {"print", "export"})

SalesCatalog ==
    Of({"sales.invoice", "sales.return", "sales.delivery-order"}, Flow \cup {"print", "export"})
      \cup Of({"sales.quotation"},
              Crud \cup {"send", "accept", "reject", "convert", "print", "export"})

ReportsCatalog ==
    Of({"reports.accounting", "reports.inventory", "reports.sales", "reports.purchase", "reports.hr"},
       {"view"})
      \cup Of({"reports"}, {"print", "export"})

InvestmentsCatalog ==
    Of({"investments"}, Crud \cup {"receive", "payout", "close"})
      \cup Of({"investments.investor"}, {"create", "update", "delete"})

SystemCatalog ==
    Of({"system.branding", "system.settings", "system.features", "system.print_layout",
        "system.security", "system.terms"}, {"manage"})
      \cup Of({"system.audit"}, {"view", "purge"})

Catalog ==
    Of({"dashboard"}, {"view"})
      \cup AdministrationCatalog \cup HrCatalog \cup AccessCatalog \cup AccountingCatalog
      \cup InventoryCatalog \cup SalesCatalog \cup ReportsCatalog \cup InvestmentsCatalog
      \cup SystemCatalog

(* A feature can be switched off for each permission, and carries its name. *)
Features == Catalog
featureForPermission(permission) == {permission} \cap Features

-----------------------------------------------------------------------------
(* The controllers: handler -> permission. *)

Guarding(resource, action) == [h \in DOMAIN action |-> <<resource, action[h]>>]

Reads    == [findAll |-> "view", findOne |-> "view"]
Edits    == [create |-> "create", update |-> "update", remove |-> "delete"]
Master   == Reads @@ Edits @@ [findAllFlat |-> "view"]
Coded    == Master @@ [nextCode |-> "view"]
Document == Reads @@ Edits @@ [nextNumber |-> "view", submit |-> "submit", post |-> "post",
                               reject |-> "reject", cancel |-> "cancel"]

PaymentsController ==
    Guarding("accounts.payments",
        Reads @@ Edits @@
        [openInvoices |-> "view", nextNumber |-> "view", post |-> "post", cancel |-> "cancel",
         deposit |-> "post", bounce |-> "post", endorse |-> "post",
         updateCheque |-> "update", updatePayment |-> "update"])

VouchersController ==
    Guarding("accounts.vouchers", Document @@ [unpost |-> "update"])
      @@ [cashBook |-> <<"accounts.cashbook", "view">>]

HeadAccountsController   == Guarding("administration.head-accounts", Coded)
SubHeadsController       == Guarding("administration.sub-heads", Coded)
MainAccountsController   == Guarding("administration.main-accounts", Coded)
BanksController          == Guarding("administration.main-accounts", Master)
ItemTypesController      == Guarding("administration.item-types", Master)
BrandsController         == Guarding("administration.brands", Master)
StockLocationsController == Guarding("administration.stock-locations", Coded)

ItemsController ==
    Guarding("administration.items",
        Reads @@ Edits @@ [search |-> "view", nextCode |-> "view",
                           findStock |-> "stock", findLedger |-> "stock"])

TownsController == Guarding("administration.towns", Master)

CustomersController ==
    Guarding("administration.customers",
        Coded @@ [findSales |-> "view", findReturns |-> "view", findLedger |-> "view"])

SuppliersController ==
    Guarding("administration.suppliers",
        Coded @@ [findPurchases |-> "view", findReturns |-> "view", findLedger |-> "view"])

PurchasesController       == Guarding("inventory.purchase", Document)
PurchaseReturnsController == Guarding("inventory.purchase-return", Document)
StockTransfersController  == Guarding("inventory.transfer", Document)
SalesController           == Guarding("sales.invoice", Document)
DeliveryOrdersController  == Guarding("sales.delivery-order", Document)
SalesReturnsController    == Guarding("sales.return", Document)

QuotationsController ==
    Guarding("sales.quotation",
        Reads @@ Edits @@ [nextNumber |-> "view", send |-> "send", accept |-> "accept",
                           reject |-> "reject", convert |-> "convert"])

DepartmentsController  == Guarding("hr.departments", Coded)
DesignationsController == Guarding("hr.designations", Coded)

EmployeesController ==
    Guarding("hr.employees",
        Coded @@ [salaryStructure |-> "view", updateSalaryStructure |-> "update",
                  salaryHistory |-> "view", deactivate |-> "delete", activate |-> "update"])
      @@ [createSalaryRecord |-> <<"hr.salary-history", "create">>]

AttendanceController ==
    Guarding("hr.attendance",
        [byDay |-> "view", employee |-> "view", upsert |-> "manage", bulk |-> "manage",
         update |-> "manage", removeDay |-> "manage", remove |-> "manage"])

LeaveTypesController    == Guarding("hr.leaves", Master)
LeaveRequestsController ==
    Guarding("hr.leaves", Reads @@ [balances |-> "view", create |-> "create",
                                    decide |-> "approve", remove |-> "delete"])

PayrollController ==
    Guarding("hr.payroll",
        Reads @@ [generate |-> "create", nextCode |-> "view", fundingAccounts |-> "view",
                  exportBank |-> "export", updateItems |-> "update", refresh |-> "update",
                  post |-> "post", disburse |-> "disburse", cancel |-> "cancel",
                  remove |-> "delete"])
      @@ Guarding("reports.hr", [registerReport |-> "view", departmentCost |-> "view"])

SalaryComponentsController == Guarding("hr.salary-components", Master)
LoansController            == Guarding("hr.loans", Reads @@ Edits)

InvestorsController ==
    Guarding("investments", Reads @@ [statement |-> "view"])
      @@ Guarding("investments.investor", Edits)

InvestmentsController ==
    Guarding("investments",
        Reads @@ Edits @@
        [nextNumber |-> "view", receive |-> "receive", payInstallment |-> "payout",
         rescheduleInstallment |-> "payout", skipInstallment |-> "payout",
         close |-> "close", cancel |-> "update"])

DashboardController ==
    Guarding("dashboard", [overview |-> "view", salesTrend |-> "view"])

AccountingReports ==
    Guarding("reports.accounting",
        [generalLedger |-> "view", generalLedgerSummary |-> "view", generalJournal |-> "view",
         dayReport |-> "view", expenseReport |-> "view", partyAgeing |-> "view",
         partyStatement |-> "view", trialBalance |-> "view", profitAndLoss |-> "view",
         balanceSheet |-> "view", subHeadTrial |-> "view", townWiseTrial |-> "view",
         accountList |-> "view", cashBook |-> "view", cashBookAccounts |-> "view"])

InventoryReports ==
    Guarding("reports.inventory",
        [productLedger |-> "view", productLedgerSummary |-> "view", totalStock |-> "view",
         categoryStock |-> "view"])

TradeReports ==
    Guarding("reports.sales",
        [customerWiseSales |-> "view", customerSummary |-> "view", salesReturnReport |-> "view",
         salesCommissionReport |-> "view", salesBook |-> "view"])
      @@ Guarding("reports.purchase",
        [purchaseReturnReport |-> "view", purchaseCommissionReport |-> "view",
         purchaseBook |-> "view", supplierPurchase |-> "view", supplierSummary |-> "view"])

ReportsController ==
    AccountingReports @@ InventoryReports @@ TradeReports
      @@ Guarding("reports", [exportExcel |-> "export"])

AuditController ==
    Guarding("system.audit", [findAll |-> "view", stats |-> "view", purge |-> "purge"])

RolesController ==
    Guarding("roles", Reads @@ [create |-> "manage", update |-> "manage", remove |-> "manage",
                                assignPermissions |-> "manage"])
      @@ [findAllFlat |-> <<"users", "view">>]

UsersController ==
    Guarding("users", Reads @@ [create |-> "manage", update |-> "manage", remove |-> "manage"])

PermissionsController == Guarding("permissions", [findAll |-> "view"])

FeaturesController ==
    Guarding("system.features", [setFeature |-> "manage", setFeatures |-> "manage"])

SystemController ==
    Guarding("system.branding", [updateBranding |-> "manage"])
      @@ Guarding("system.print_layout", [updatePrintLayout |-> "manage"])
      @@ Guarding("system.settings", [updateSettings |-> "manage", exportSettings |-> "manage",
                                      importSettings |-> "manage"])

-----------------------------------------------------------------------------
Accounts ==
       "payments"      :> PaymentsController
    @@ "vouchers"      :> VouchersController
    @@ "head-accounts" :> HeadAccountsController
    @@ "sub-heads"     :> SubHeadsController
    @@ "main-accounts" :> MainAccountsController
    @@ "banks"         :> BanksController

Products ==
       "item-types"      :> ItemTypesController
    @@ "brands"          :> BrandsController
    @@ "stock-locations" :> StockLocationsController
    @@ "items"           :> ItemsController
    @@ "towns"           :> TownsController
    @@ "customers"       :> CustomersController
    @@ "suppliers"       :> SuppliersController

Documents ==
       "purchases"             :> PurchasesController
    @@ "purchase-returns"      :> PurchaseReturnsController
    @@ "stock-transfers"       :> StockTransfersController
    @@ "sales"                 :> SalesController
    @@ "sales/delivery-orders" :> DeliveryOrdersController
    @@ "sales-returns"         :> SalesReturnsController
    @@ "quotations"            :> QuotationsController

Staff ==
       "hr/departments"       :> DepartmentsController
    @@ "hr/designations"      :> DesignationsController
    @@ "hr/employees"         :> EmployeesController
    @@ "hr/attendance"        :> AttendanceController
    @@ "hr/leave-types"       :> LeaveTypesController
    @@ "hr/leaves"            :> LeaveRequestsController
    @@ "hr/payroll"           :> PayrollController
    @@ "hr/salary-components" :> SalaryComponentsController
    @@ "hr/loans"             :> LoansController

Controllers ==
    Accounts @@ Products @@ Documents @@ Staff
    @@ "investments/investors" :> InvestorsController
    @@ "investments"           :> InvestmentsController
    @@ "dashboard"             :> DashboardController
    @@ "reports"               :> ReportsController
    @@ "system/audit-logs"     :> AuditController
    @@ "roles"                 :> RolesController
    @@ "users"                 :> UsersController
    @@ "permissions"           :> PermissionsController
    @@ "system/features"       :> FeaturesController
    @@ "system"                :> SystemController

(* The permissions that a request must hold: those of its handler, and none  *)
(* where the handler names none, as for the branding and the settings.       *)
Required(endpoint) ==
    LET handlers == Controllers[endpoint[1]]
    IN IF endpoint[2] \in DOMAIN handlers THEN {handlers[endpoint[2]]} ELSE {}
=============================================================================
