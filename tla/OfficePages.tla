---------------------------- MODULE OfficePages ----------------------------
(***************************************************************************)
(* The pages of the client on which staff, investments and master records  *)
(* are kept.  Most master records share one component, SimpleMaster, which *)
(* takes its path and its permission from the page.                        *)
(***************************************************************************)
EXTENDS DeskPages, Sequences

(* Payroll: a run that was disbursed stays posted and carries its pay date. *)
PayrollButtons ==
    LET may(action, rows) == Button("hr.payroll", action, rows)
    IN [generate    |-> may("create", {"absent"}),
        post        |-> may("post", {"draft"}),
        refresh     |-> may("update", {"draft"}),
        updateItems |-> may("update", {"draft"}),
        disburse    |-> may("disburse", {"posted"}),
        exportBank  |-> may("export", PayrollRows \ {"cancelled"}),
        cancel      |-> may("cancel", {"posted", "paid"}),
        delete      |-> may("delete", PayrollRows)]

(* The bank file changes nothing, and discards nothing. *)
PayrollRequests ==
    LET same == [b \in {"generate", "post", "refresh", "updateItems", "disburse", "cancel"} |-> b]
    IN Requests("hr/payroll", same @@ [delete |-> "remove"], {"hr/payroll"})
         @@ Requests("hr/payroll", [exportBank |-> "exportBank"], {})

PayrollPage ==
    AlsoReading(
      ListPage("hr/payroll", "findAll", "hr/payroll", PayrollRows,
               Offers(PayrollButtons, PayrollRequests)),
      {<<"hr/payroll", "fundingAccounts">>} \cup FlatOptions({"main-accounts"}))

LeaveButtons ==
    [create |-> Button("hr.leaves", "create", {"absent"}),
     decide |-> Button("hr.leaves", "approve", {"pending"}),
     delete |-> Button("hr.leaves", "delete", LeaveRows)]

LeavesPage ==
    LET requests == Requests("hr/leaves",
                             [create |-> "create", decide |-> "decide", delete |-> "remove"],
                             {"hr/leaves"})
    IN AlsoReading(
         ListPage("hr/leaves", "findAll", "hr/leaves", LeaveRows, Offers(LeaveButtons, requests)),
         {<<"hr/leaves", "balances">>} \cup FlatOptions({"hr/employees", "hr/leave-types"}))

(* The sheet of a day has a row for every employee, marked or not. *)
AttendancePage ==
    LET may(rows) == Button("hr.attendance", "manage", rows)
        buttons   == [bulk      |-> may({"absent", "marked"}),
                      remove    |-> may({"marked"}),
                      removeDay |-> may({"absent", "marked"})]
    IN ListPage("hr/attendance", "byDay", "hr/attendance", {"marked"},
                Offers(buttons, Requests("hr/attendance", [b \in DOMAIN buttons |-> b],
                                         {"hr/attendance"})))

-----------------------------------------------------------------------------
(* Investments, and the investors on the second tab. *)

InvestmentButtons ==
    LET may(action, rows) == Button("investments", action, rows)
        running           == {"active", "paying"}
    IN [create     |-> may("create", {"absent"}),
        receive    |-> may("receive", {"planned"}),
        pay        |-> may("payout", running),
        skip       |-> may("payout", running),
        reschedule |-> may("payout", running),
        close      |-> may("close", running),
        update     |-> may("update", running \cup {"planned"}),
        cancel     |-> may("update", {"planned"}),
        delete     |-> may("delete", {"planned", "cancelled"})]

InvestmentRequests ==
    Requests("investments",
             [create |-> "create", receive |-> "receive", pay |-> "payInstallment",
              skip |-> "skipInstallment", reschedule |-> "rescheduleInstallment",
              close |-> "close", update |-> "update", cancel |-> "cancel", delete |-> "remove"],
             {"investments", "investments/investors"})

InvestmentsPage ==
    AlsoReading(
      ListPage("investments", "findAll", "investments", InvestmentRows,
               Offers(InvestmentButtons, InvestmentRequests)),
      {<<"investments/investors", "findAll">>} \cup FlatOptions({"main-accounts"}))

-----------------------------------------------------------------------------
(* Master records: created, edited and deleted, active or not. *)

MasterRows == {"active", "inactive"}

MasterButtons(resource) ==
    [create |-> Button(resource, "create", {"absent"}),
     update |-> Button(resource, "update", MasterRows),
     delete |-> Button(resource, "delete", MasterRows)]

MasterSaves == [create |-> "create", update |-> "update", delete |-> "remove"]

InvestorsTab ==
    AlsoReading(
      ListPage("investments/investors", "findAll", "investments/investors", MasterRows,
               Offers(MasterButtons("investments.investor"),
                      Requests("investments/investors", MasterSaves, {"investments/investors"}))),
      FlatOptions({"main-accounts"}))

(* The selects of its form are part of the form, and fetched with it.        *)
SimpleMaster(path, resource) ==
    ListPage(path, "findAll", path, MasterRows,
             Offers(MasterButtons(resource), Requests(path, MasterSaves, {path})))

(* Except for banks, whose page fetches the accounts for it.                 *)
BanksPage ==
    AlsoReading(SimpleMaster("banks", "administration.main-accounts"),
                FlatOptions({"main-accounts"}))

(* Leaving is the end of an employment and takes the permission to delete.   *)
StaffButtons ==
    [create     |-> Button("hr.employees", "create", {"absent"}),
     update     |-> Button("hr.employees", "update", MasterRows),
     deactivate |-> Button("hr.employees", "delete", {"active"}),
     activate   |-> Button("hr.employees", "update", {"inactive"})]

EmployeesPage ==
    ListPage("hr/employees", "findAll", "hr/employees", MasterRows,
             Offers(StaffButtons,
                    Requests("hr/employees", [b \in DOMAIN StaffButtons |-> b], {"hr/employees"})))

(* One employee: the salary structure, and the history of salaries.          *)
EmployeePage ==
    LET buttons  == [structure |-> Button("hr.employees", "update", MasterRows),
                     history   |-> Button("hr.salary-history", "create", MasterRows)]
        handlers == [structure |-> "updateSalaryStructure", history |-> "createSalaryRecord"]
    IN AlsoReading(
         ListPage("hr/employees", "findOne", "hr/employees", MasterRows,
                  Offers(buttons, Requests("hr/employees", handlers, {"hr/employees"}))),
         ({"hr/employees"} \X {"salaryStructure", "salaryHistory"})
           \cup {<<"hr/leaves", "balances">>} \cup FlatOptions({"hr/salary-components"}))

(* These keep the list and the options of every select in step.              *)
ListedMaster(path, resource, options) ==
    AlsoReading(
      ListPage(path, "findAll", path, MasterRows,
               Offers(MasterButtons(resource),
                      Requests(path, MasterSaves, {path, "flat/" \o path}))),
      FlatOptions(options))

ItemsPage ==
    ListedMaster("items", "administration.items", {"item-types", "brands", "stock-locations"})

MainAccountsPage ==
    ListedMaster("main-accounts", "administration.main-accounts", {"sub-heads", "main-accounts"})

SubHeadsPage  == ListedMaster("sub-heads", "administration.sub-heads", {"head-accounts"})
CustomersPage == ListedMaster("customers", "administration.customers", {"towns", "main-accounts"})
SuppliersPage == ListedMaster("suppliers", "administration.suppliers", {"towns", "main-accounts"})

(* The tree of heads and sub heads, of which the head is followed: it is     *)
(* drawn from the options of the selects.                                    *)
ChartOfAccountsPage ==
    LET both     == {"flat/head-accounts", "flat/sub-heads"}
        requests == Requests("head-accounts", [create |-> "create", update |-> "update"], both)
                      @@ Requests("head-accounts", [delete |-> "remove"], {"flat/head-accounts"})
    IN AlsoReading(
         ListPage("head-accounts", "findAllFlat", "flat/head-accounts", MasterRows,
                  Offers(MasterButtons("administration.head-accounts"), requests)),
         FlatOptions({"sub-heads"}))
=============================================================================
