------------------------------- MODULE Pages -------------------------------
(***************************************************************************)
(* The screens of the client: under each address the page that is shown    *)
(* there, and the permission that its entry in the navigation asks for.    *)
(***************************************************************************)
EXTENDS OfficePages, Endpoints

(* A page with nothing to do on a row: a report, or a form of settings.      *)
Reading(path, handlers, key) ==
    [path |-> path, reads |-> {path} \X handlers, also |-> {}, key |-> key, shows |-> {},
     offers |-> <<>>]

-----------------------------------------------------------------------------
(* Reports, and the selects that narrow them. *)

Report(handler) == Reading("reports", {handler}, handler)

NarrowedBy(screen, paths) == AlsoReading(screen, FlatOptions(paths))

TrialBalancePage == NarrowedBy(Report("trialBalance"), {"head-accounts", "sub-heads"})

GeneralLedgerPage ==
    NarrowedBy(Reading("reports", {"generalLedger", "generalLedgerSummary"}, "generalLedger"),
               {"main-accounts", "head-accounts", "sub-heads"})

GeneralJournalPage == Report("generalJournal")
DayReportPage      == Report("dayReport")
ExpenseReportPage  == AlsoReading(Report("expenseReport"), {<<"reports", "accountList">>})
ProfitLossPage     == Report("profitAndLoss")
BalanceSheetPage   == Report("balanceSheet")
PartyAgeingPage    == Report("partyAgeing")

(* The party is chosen of the customers or of the suppliers. *)
PartyStatementPage == NarrowedBy(Report("partyStatement"), {"customers", "suppliers"})

CashBookReportPage == AlsoReading(Report("cashBook"), {<<"reports", "cashBookAccounts">>})

StockOptions    == {"stock-locations", "item-types", "brands"}
StockReportPage == NarrowedBy(Report("totalStock"), StockOptions)

ProductLedgerPage ==
    AlsoReading(
      NarrowedBy(Reading("reports", {"productLedger", "productLedgerSummary"}, "productLedger"),
                 StockOptions),
      ItemOptions)

SalesBookPage            == NarrowedBy(Report("salesBook"), {"customers"})
SalesReturnReportPage    == NarrowedBy(Report("salesReturnReport"), {"customers"})
SalesCommissionPage      == NarrowedBy(Report("salesCommissionReport"), {"customers"})
PurchaseBookPage         == NarrowedBy(Report("purchaseBook"), {"suppliers"})
PurchaseReturnReportPage == NarrowedBy(Report("purchaseReturnReport"), {"suppliers"})
PurchaseCommissionPage   == NarrowedBy(Report("purchaseCommissionReport"), {"suppliers"})
DashboardPage          == Reading("dashboard", {"overview", "salesTrend"}, "dashboard")

-----------------------------------------------------------------------------
(* The system. *)

(* One's own account has every button of the others.                         *)
UsersPage ==
    LET may(rows) == Button("users", "manage", rows)
        others    == MasterRows
        all       == others \cup {"self"}
        buttons   == [create |-> may({"absent"}), update |-> may(all), toggleStatus |-> may(all),
                      delete |-> may(others), deleteSelf |-> may({"self"})]
        handlers  == MasterSaves @@ [toggleStatus |-> "update", deleteSelf |-> "remove"]
    IN AlsoReading(ListPage("users", "findAll", "users", all,
                            Offers(buttons, Requests("users", handlers, {"users"}))),
                   FlatOptions({"roles"}))

(* An edit sends the permissions, and then the name when they were saved.    *)
(* The button to delete is there whether the role is held or not.            *)
RolesPage ==
    LET may(rows) == Button("roles", "manage", rows)
        requests  == Requests("roles", [create |-> "create", edit |-> "assignPermissions",
                                        delete |-> "remove", deleteHeld |-> "remove"], {"roles"})
    IN AlsoReading(
         ListPage("roles", "findAll", "roles", RoleRows,
                  Offers([create |-> may({"absent"}), edit |-> may(RoleRows),
                          delete |-> may({"unused"}), deleteHeld |-> may({"held"})],
                         [requests EXCEPT !.edit = FollowedBy(@, <<"roles", "update">>)])),
         {<<"permissions", "findAll">>})

AuditLogsPage ==
    [Reading("system/audit-logs", {"findAll", "stats"}, "audit-logs")
       EXCEPT !.offers =
         Offers([purge |-> Button("system.audit", "purge", {"absent"})],
                Requests("system/audit-logs", [purge |-> "purge"],
                         {"audit-logs", "audit-logs-stats"}))]

(* Forms of settings, which are read by everybody, are saved without a look   *)
(* at a permission: the address alone is guarded.                             *)
Unguarded == [save |-> [asks |-> {}, on |-> {"absent"}]]

Form(reading, key, saving, queries) ==
    [Reading("system", {reading}, key)
       EXCEPT !.offers = Offers(Unguarded, Requests("system", [save |-> saving], queries))]

BrandingPage    == Form("getBranding", "branding", "updateBranding", {"branding"})
PrintLayoutPage ==
    NarrowedBy(Form("getPrintLayout", "print-layout", "updatePrintLayout",
                    {"print-layout", "settings"}),
               {"stock-locations"})

SettingsPage ==
    LET anywhere == [asks |-> {}, on |-> {"absent"}]
    IN [NarrowedBy(Reading("system", {"getSettings"}, "settings"),
                   {"stock-locations", "customers", "suppliers", "main-accounts"})
          EXCEPT !.offers =
            Offers([save |-> anywhere, import |-> anywhere, export |-> anywhere],
                   Requests("system", [save |-> "updateSettings"], {"settings"})
                     @@ Requests("system", [import |-> "importSettings"], {"settings", "branding"})
                     @@ Requests("system", [export |-> "exportSettings"], {}))]

(* Two permissions, either of which shows the form. *)
TermsPage ==
    [Form("getSettings", "settings", "updateSettings", {"settings"})
       EXCEPT !.offers.save.asks = Of({"system.terms", "system.settings"}, {"manage"})]

-----------------------------------------------------------------------------
(* The navigation: address -> the permission to see the entry. *)

NAV_ITEMS ==
    LET view(places) == [p \in DOMAIN places |-> <<places[p], "view">>]
        masters ==
               "/administration/chart-of-accounts" :> "administration.head-accounts"
            @@ "/administration/head-accounts"   :> "administration.head-accounts"
            @@ "/administration/sub-heads"       :> "administration.sub-heads"
            @@ "/administration/main-accounts"   :> "administration.main-accounts"
            @@ "/administration/banks"           :> "administration.main-accounts"
            @@ "/administration/item-types"      :> "administration.item-types"
            @@ "/administration/brands"          :> "administration.brands"
            @@ "/administration/items"           :> "administration.items"
            @@ "/administration/stock-locations" :> "administration.stock-locations"
            @@ "/parties/towns"                  :> "administration.towns"
            @@ "/parties/customers"              :> "administration.customers"
            @@ "/parties/suppliers"              :> "administration.suppliers"
        trade ==
               "/sales/invoices"              :> "sales.invoice"
            @@ "/sales/returns"               :> "sales.return"
            @@ "/sales/delivery-orders"       :> "sales.delivery-order"
            @@ "/investments"                 :> "investments"
            @@ "/inventory/purchases"         :> "inventory.purchase"
            @@ "/inventory/purchase-returns"  :> "inventory.purchase-return"
            @@ "/inventory/transfers"         :> "inventory.transfer"
        staff ==
               "/hr/employees"         :> "hr.employees"
            @@ "/hr/attendance"        :> "hr.attendance"
            @@ "/hr/leaves"            :> "hr.leaves"
            @@ "/hr/leave-types"       :> "hr.leaves"
            @@ "/hr/departments"       :> "hr.departments"
            @@ "/hr/designations"      :> "hr.designations"
            @@ "/hr/salary-components" :> "hr.salary-components"
            @@ "/hr/loans"             :> "hr.loans"
            @@ "/hr/payroll"           :> "hr.payroll"
        books ==
               "/accounts/vouchers"  :> "accounts.vouchers"
            @@ "/accounts/payments"  :> "accounts.payments"
            @@ "/accounts/cheques"   :> "accounts.payments"
            @@ "/accounts/cash-book" :> "accounts.cashbook"
        reports ==
            [p \in {"/reports/trial-balance", "/reports/general-ledger", "/reports/general-journal",
                    "/reports/day-report", "/reports/expense-report", "/reports/profit-loss",
                    "/reports/balance-sheet", "/reports/party-ageing", "/reports/party-statement",
                    "/reports/cash-book"} |-> "reports.accounting"]
              @@ [p \in {"/reports/stock", "/reports/product-ledger"} |-> "reports.inventory"]
              @@ [p \in {"/reports/sales-book", "/reports/sales-return",
                         "/reports/sales-commission"} |-> "reports.sales"]
              @@ [p \in {"/reports/purchase-book", "/reports/purchase-return",
                         "/reports/purchase-commission"} |-> "reports.purchase"]
        managed(resource) == <<resource, "manage">>
    IN view(masters @@ trade @@ staff @@ books @@ reports)
         @@ "/"                    :> <<"dashboard", "view">>
         @@ "/system/users"        :> <<"users", "view">>
         @@ "/system/roles"        :> <<"roles", "view">>
         @@ "/system/audit-logs"   :> <<"system.audit", "view">>
         @@ "/system/settings"     :> managed("system.settings")
         @@ "/system/print-layout" :> managed("system.print_layout")
         @@ "/system/branding"     :> managed("system.branding")
         @@ "/system/terms"        :> managed("system.terms")

(* Addresses below an entry of their own. *)
Nested == "/hr/employees/[id]" :> "/hr/employees" @@ "/investments (investors)" :> "/investments"

(* The longest entry that the address begins with. *)
permissionForPath(href) == NAV_ITEMS[IF href \in DOMAIN Nested THEN Nested[href] ELSE href]

-----------------------------------------------------------------------------
(* The pages under each address; the second tab of the investments has an    *)
(* address of its own here.                                                  *)

DocumentPages ==
       "/sales/invoices"             :> DocumentPage("sales", "sales.invoice", "customers")
    @@ "/sales/returns"              :> DocumentPage("sales-returns", "sales.return", "customers")
    @@ "/inventory/purchases"        :> DocumentPage("purchases", "inventory.purchase", "suppliers")
    @@ "/inventory/purchase-returns" :>
         DocumentPage("purchase-returns", "inventory.purchase-return", "suppliers")
    @@ "/inventory/transfers"        :> TransfersPage
    @@ "/sales/delivery-orders"      :> DeliveryOrdersPage
    @@ "/accounts/vouchers"          :> VouchersPage
    @@ "/accounts/cash-book"         :> CashBookPage
    @@ "/accounts/payments"          :> PaymentsPage
    @@ "/accounts/cheques"           :> ChequesPage

StaffPages ==
       "/hr/payroll"           :> PayrollPage
    @@ "/hr/leaves"            :> LeavesPage
    @@ "/hr/attendance"        :> AttendancePage
    @@ "/investments"          :> InvestmentsPage
    @@ "/investments (investors)" :> InvestorsTab
    @@ "/hr/employees"         :> EmployeesPage
    @@ "/hr/employees/[id]"    :> EmployeePage
    @@ "/hr/leave-types"       :> SimpleMaster("hr/leave-types", "hr.leaves")
    @@ "/hr/departments"       :> SimpleMaster("hr/departments", "hr.departments")
    @@ "/hr/designations"      :> SimpleMaster("hr/designations", "hr.designations")
    @@ "/hr/salary-components" :> SimpleMaster("hr/salary-components", "hr.salary-components")
    @@ "/hr/loans"             :> SimpleMaster("hr/loans", "hr.loans")

MasterPages ==
       "/administration/chart-of-accounts" :> ChartOfAccountsPage
    @@ "/administration/head-accounts" :> SimpleMaster("head-accounts", "administration.head-accounts")
    @@ "/administration/sub-heads"     :> SubHeadsPage
    @@ "/administration/main-accounts" :> MainAccountsPage
    @@ "/administration/banks"         :> BanksPage
    @@ "/administration/item-types"    :> SimpleMaster("item-types", "administration.item-types")
    @@ "/administration/brands"        :> SimpleMaster("brands", "administration.brands")
    @@ "/administration/items"         :> ItemsPage
    @@ "/administration/stock-locations"
                                       :> SimpleMaster("stock-locations", "administration.stock-locations")
    @@ "/parties/towns"                :> SimpleMaster("towns", "administration.towns")
    @@ "/parties/customers"            :> CustomersPage
    @@ "/parties/suppliers"            :> SuppliersPage

ReportPages ==
       "/reports/trial-balance"       :> TrialBalancePage
    @@ "/reports/general-ledger"      :> GeneralLedgerPage
    @@ "/reports/general-journal"     :> GeneralJournalPage
    @@ "/reports/day-report"          :> DayReportPage
    @@ "/reports/expense-report"      :> ExpenseReportPage
    @@ "/reports/profit-loss"         :> ProfitLossPage
    @@ "/reports/balance-sheet"       :> BalanceSheetPage
    @@ "/reports/party-ageing"        :> PartyAgeingPage
    @@ "/reports/party-statement"     :> PartyStatementPage
    @@ "/reports/cash-book"           :> CashBookReportPage
    @@ "/reports/stock"               :> StockReportPage
    @@ "/reports/product-ledger"      :> ProductLedgerPage
    @@ "/reports/sales-book"          :> SalesBookPage
    @@ "/reports/sales-return"        :> SalesReturnReportPage
    @@ "/reports/sales-commission"    :> SalesCommissionPage
    @@ "/reports/purchase-book"       :> PurchaseBookPage
    @@ "/reports/purchase-return"     :> PurchaseReturnReportPage
    @@ "/reports/purchase-commission" :> PurchaseCommissionPage
    @@ "/"                            :> DashboardPage

SystemPages ==
       "/system/users"        :> UsersPage
    @@ "/system/roles"        :> RolesPage
    @@ "/system/audit-logs"   :> AuditLogsPage
    @@ "/system/branding"     :> BrandingPage
    @@ "/system/print-layout" :> PrintLayoutPage
    @@ "/system/settings"     :> SettingsPage
    @@ "/system/terms"        :> TermsPage

Screens == DocumentPages @@ StaffPages @@ MasterPages @@ ReportPages @@ SystemPages
=============================================================================
