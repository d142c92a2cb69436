------------------------------- MODULE Access -------------------------------
(***************************************************************************)
(* Who may do what: the permissions of a role, the user that holds it and  *)
(* the features the company has switched off, as the guard of the API      *)
(* reads them at each request.                                             *)
(*                                                                         *)
(* An edit of a role, or of a user's roles, is two statements outside a    *)
(* transaction: every link is deleted, then the submitted ones are         *)
(* created.  Edits overlap, and the server may stop between the two.       *)
(* One user and its role are followed, and of the permissions only the     *)
(* ones in Watched(page), which a page of the client asks for.             *)
(***************************************************************************)
EXTENDS Endpoints, FiniteSets

VARIABLES
    role,       \* the name of the user's role
    granted,    \* the watched permissions of that role
    assigned,   \* the user holds the role
    edits,      \* edits whose links are deleted and not created again
    off,        \* features switched off
    asked,      \* the permissions submitted since no edit of the role was in progress
    cut         \* the server stopped in the last edits of the role

accessVars == <<role, granted, assigned, edits, off, asked, cut>>

-----------------------------------------------------------------------------
(* The roles of a new database. *)

Accountant ==
    Of({"accounts.vouchers"}, Flow)
      \cup Of({"accounts.payments"}, Crud \cup {"post", "cancel", "print", "export"})
      \cup Of({"dashboard", "accounts.cashbook", "administration.customers",
               "administration.suppliers", "administration.towns", "reports.accounting"}, {"view"})
      \cup Of({"administration.customers", "administration.suppliers"}, {"export"})
      \cup Of({"reports"}, {"print", "export"})

InvestmentDuties ==
    Of({"investments.investor"}, {"create", "update", "delete"})
      \cup Of({"investments"}, Crud \cup {"receive", "payout", "close"})

Administrator ==
    (AdministrationCatalog \ Of({"administration.main-accounts", "administration.customers",
                                 "administration.suppliers", "administration.items"}, {"print"}))
      \cup InvestmentDuties
      \cup Of({"dashboard", "accounts.vouchers", "accounts.payments", "accounts.cashbook",
               "reports.accounting", "reports.inventory", "reports.sales",
               "reports.purchase"}, {"view"})
      \cup Of({"reports"}, {"print", "export"})

InventoryManager ==
    InventoryCatalog
      \cup Of({"administration.items"}, {"view", "stock", "export"})
      \cup {<<"dashboard", "view">>, <<"reports.inventory", "view">>, <<"reports", "print">>}

SalesUser ==
    Of({"sales.invoice", "sales.return", "sales.delivery-order"}, Flow \cup {"print", "export"})
      \cup Of({"sales.quotation"}, {"view", "print", "export"})
      \cup Of({"dashboard", "administration.customers", "administration.items",
               "reports.sales"}, {"view"})
      \cup {<<"administration.customers", "export">>, <<"reports", "print">>}

InvestmentManager ==
    InvestmentDuties
      \cup Of({"dashboard", "administration.customers", "administration.suppliers",
               "accounts.vouchers", "accounts.payments", "accounts.cashbook",
               "reports.accounting"}, {"view"})
      \cup {<<"reports", "print">>}

Viewer ==
    Of({r \in {p[1] : p \in Catalog} :
           /\ <<r, "view">> \in Catalog
           /\ r # "sales.quotation"}, {"view"})
      \cup {<<"system.terms", "manage">>, <<"permissions", "manage">>}

ROLE_BASELINES ==
       "Accountant"         :> Accountant
    @@ "Administrator"      :> Administrator
    @@ "Inventory Manager"  :> InventoryManager
    @@ "Sales User"         :> SalesUser
    @@ "Investment Manager" :> InvestmentManager
    @@ "Viewer"             :> Viewer

(* The two roles of the system: the first is above permissions, the second  *)
(* is given all of them.                                                    *)
SystemRoles == {"Developer", "Super Admin"}
Baseline(name) == IF name \in SystemRoles THEN Catalog ELSE ROLE_BASELINES[name]

-----------------------------------------------------------------------------
(* What a request may do. *)

HeldPermissions == IF assigned THEN granted ELSE {}
isDeveloper     == assigned /\ role = "Developer"

isEnabled(feature) == feature \notin off

(* A feature that is off refuses everybody, then a Developer passes, then   *)
(* the roles' permissions decide.                                           *)
Allowed(endpoint) ==
    LET required == Required(endpoint)
    IN /\ \A p \in required : \A f \in featureForPermission(p) : isEnabled(f)
       /\ isDeveloper \/ required \subseteq HeldPermissions

(* What /auth/me tells the client of its user. *)
CurrentUser == [developer |-> isDeveloper, permissions |-> HeldPermissions]

-----------------------------------------------------------------------------
(* Administration by others. *)

AccessInit(Watched, name) ==
    /\ role = name
    /\ granted = Baseline(name) \cap Watched
    /\ assigned = TRUE
    /\ edits = {}
    /\ off = {}
    /\ asked = {granted}
    /\ cut = FALSE

OfRole == {e \in edits : e.of = "role"}

(* Mutant: the links of the role are not deleted before the new ones. *)
MutantUnlinked(links) == links

Unlinked(links) == {}

(* deleteMany of a role's permissions, after the role was found. *)
UnlinkRole(id, to) ==
    /\ granted' = Unlinked(granted)
    /\ edits' = edits \cup {[id |-> id, of |-> "role", to |-> to]}
    /\ asked' = IF OfRole = {} THEN {to} ELSE asked \cup {to}
    /\ cut' = (cut /\ OfRole # {})
    /\ UNCHANGED <<role, assigned, off>>

(* createMany of the submitted permissions, which skips the ones there. *)
LinkRole ==
    \E e \in OfRole :
        /\ granted' = granted \cup e.to
        /\ edits' = edits \ {e}
        /\ UNCHANGED <<role, assigned, off, asked, cut>>

(* The same two statements for the roles of the user. *)
UnlinkUser(id) ==
    /\ assigned' = FALSE
    /\ edits' = edits \cup {[id |-> id, of |-> "user", to |-> {}]}
    /\ UNCHANGED <<role, granted, off, asked, cut>>

LinkUser ==
    \E e \in edits \ OfRole :
        /\ assigned' = TRUE
        /\ edits' = edits \ {e}
        /\ UNCHANGED <<role, granted, off, asked, cut>>

(* One feature, or many in one transaction. *)
Switch(codes, enabled) ==
    /\ off' = IF enabled THEN off \ codes ELSE off \cup codes
    /\ off' # off
    /\ UNCHANGED <<role, granted, assigned, edits, asked, cut>>

(* The server stops: edits in progress are lost, and the start that follows *)
(* gives Super Admin every permission it is missing.                        *)
Restart(Watched) ==
    /\ edits' = {}
    /\ cut' = (cut \/ OfRole # {})
    /\ granted' = IF role = "Super Admin" THEN granted \cup Watched ELSE granted
    /\ UNCHANGED <<role, assigned, off, asked>>

=============================================================================
