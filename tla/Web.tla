-------------------------------- MODULE Web --------------------------------
(***************************************************************************)
(* One screen of the client at work.  It shows what was fetched some time  *)
(* ago: the user and the permissions, the features that are off, and the   *)
(* status of one row.  The server decides on what is there when a request  *)
(* arrives; meanwhile others work the same row on the same screen, edit    *)
(* the user's role, take it away, or switch features off.                  *)
(*                                                                         *)
(* A request takes its effect at once (the services' own transactions are  *)
(* in other modules), and its answer comes later.                          *)
(***************************************************************************)
EXTENDS Pages, Access, Functions, Integers, Sequences

CONSTANTS
    Addresses,  \* the screens that are opened
    Editors,    \* requests of other users that edit a role
    MaxChanges  \* changes by others

ASSUME AddressesAssumption == Addresses \subseteq DOMAIN Screens

VARIABLES
    href,       \* the address
    row,        \* the status of the row in the database
    me,         \* the user as last fetched
    flags,      \* the features switched off, as last fetched
    list,       \* the query of the list: closed, loading, shown, failed
    answer,     \* what the server answered to the query in progress
    seen,       \* the status that is shown: unread as long as the query has no data
    outrun,     \* a request of this client ended before the first answer to the query
    call,       \* the request in progress
    own,        \* the row is as this client's last request left it
    failure,    \* what was refused in the last step, if the client was up to date
    changes     \* changes made by others

screenVars == <<list, answer, seen, outrun>>
webVars == <<href, row, me, flags, screenVars, call, own, failure, changes, accessVars>>

page   == Screens[href]
gate   == permissionForPath(href)

(* The permissions that the screen at that address has to do with. *)
Watched(address) ==
    LET screen == Screens[address]
        offers == screen.offers
        called == screen.reads \cup screen.also
                    \cup {offers[b].call : b \in DOMAIN offers}
                    \cup UNION {Range(offers[b].follow) : b \in DOMAIN offers}
    IN {permissionForPath(address)}
         \cup UNION {Required(endpoint) : endpoint \in called}
         \cup UNION {offers[b].asks : b \in DOMAIN offers}

Unread == "unread"
NoCall == [button |-> "none"]

-----------------------------------------------------------------------------
(* What the client believes. *)

(* Mutant: a feature that is off is not looked at. *)
MutantCan(permission) == me.developer \/ permission \in me.permissions

can(permission) ==
    /\ permission \notin flags
    /\ me.developer \/ permission \in me.permissions

UpToDate == me = CurrentUser /\ flags = off

(* The list shows the rows it is about; any other is absent from it. *)
Listed(status) == IF status \in page.shows THEN status ELSE "absent"

(* A button is on the page, or on the row. *)
OnPage(offer) == offer.on = {"absent"}

(* Mutant: what is on a page does not ask for the page. *)
MutantPermitted(offer) == offer.asks = {} \/ \E p \in offer.asks : can(p)

Permitted(offer) ==
    /\ can(gate)
    /\ offer.asks = {} \/ \E p \in offer.asks : can(p)

Offered(offer) == Permitted(offer) /\ (OnPage(offer) \/ seen \in offer.on)

(* The roles a user of the screen may have, one of each that differ on it. *)
Roles(address) ==
    LET duties(name) == Baseline(name) \cap Watched(address)
    IN SystemRoles
         \cup {CHOOSE name \in DOMAIN ROLE_BASELINES : duties(name) = d :
                  d \in {duties(name) : name \in DOMAIN ROLE_BASELINES}}

WebInit ==
    /\ href \in Addresses
    /\ \E name \in Roles(href) : AccessInit(Watched(href), name)
    /\ row \in page.shows \cup {"absent"}
    /\ me = CurrentUser
    /\ flags = {}
    /\ list = "closed" /\ answer = Unread /\ seen = Unread /\ outrun = FALSE
    /\ call = NoCall
    /\ own = FALSE
    /\ failure = "none"
    /\ changes = 0

-----------------------------------------------------------------------------
(* The session of the client. *)

(* The page is loaded anew: the user is fetched, and no query is cached.     *)
Reload ==
    /\ me' = CurrentUser
    /\ flags' = {}
    /\ list' = "closed" /\ answer' = Unread /\ seen' = Unread /\ outrun' = FALSE
    /\ call' = NoCall
    /\ own' = FALSE
    /\ failure' = "none"
    /\ UNCHANGED <<href, row, changes, accessVars>>

(* The features are fetched at the start, and again once they are stale.     *)
FetchFlags ==
    /\ flags' = off
    /\ failure' = "none"
    /\ UNCHANGED <<href, row, me, screenVars, call, own, changes, accessVars>>

-----------------------------------------------------------------------------
(* The list. *)

(* Its rows are on the page.  A fetch that fails leaves them there.          *)
HasData == seen # Unread

Fetching == list' = "loading" /\ answer' = Unread /\ outrun' = FALSE

Open ==
    /\ list # "loading"
    /\ can(gate)
    /\ Fetching
    /\ failure' = "none"
    /\ UNCHANGED <<href, row, me, flags, seen, call, own, changes, accessVars>>

(* Another page of the list, another search or filter is another query: no   *)
(* row is shown before its answer is there, and the answer to the one before *)
(* is not.  Rows kept of a query that was left are not modelled.             *)
Turn ==
    /\ list # "closed"
    /\ can(gate)
    /\ Fetching
    /\ seen' = Unread
    /\ failure' = "none"
    /\ UNCHANGED <<href, row, me, flags, call, own, changes, accessVars>>

Granted(endpoints) == \A endpoint \in endpoints : Allowed(endpoint)

RefusedFor(what) == IF UpToDate /\ can(gate) THEN what ELSE "none"

(* What else the page fetches is answered at about the same time: a select   *)
(* stays empty when that is refused.                                         *)
Answered ==
    /\ list = "loading" /\ answer = Unread
    /\ IF Granted(page.reads)
       THEN /\ answer' = Listed(row)
            /\ failure' = IF Granted(page.also) THEN "none" ELSE RefusedFor("options")
            /\ UNCHANGED list
       ELSE /\ list' = "failed"
            /\ failure' = RefusedFor("list")
            /\ UNCHANGED answer
    /\ UNCHANGED <<href, row, me, flags, seen, outrun, call, own, changes, accessVars>>

Show ==
    /\ list = "loading" /\ answer # Unread
    /\ list' = "shown" /\ seen' = answer /\ answer' = Unread
    /\ failure' = "none"
    /\ UNCHANGED <<href, row, me, flags, outrun, call, own, changes, accessVars>>

(* Mutant: a fetch under way is awaited, whether or not there are rows.      *)
MutantInvalidated ==
    IF list = "loading"
    THEN UNCHANGED <<list, answer>> /\ outrun' = (outrun \/ ~HasData)
    ELSE Fetching

(* invalidateQueries: the list is fetched again, in place of a fetch that is *)
(* under way, unless that is the first of its query, which is awaited.       *)
Invalidated ==
    IF list = "loading" /\ ~HasData
    THEN UNCHANGED <<list, answer>> /\ outrun' = TRUE
    ELSE Fetching

-----------------------------------------------------------------------------
(* A button. *)

(* A request that follows another is sent only by a user who may.            *)
Endpoints(offer) ==
    IF \A endpoint \in Range(offer.follow) : \A p \in Required(endpoint) : can(p)
    THEN <<offer.call>> \o offer.follow
    ELSE <<offer.call>>

Click ==
    /\ call = NoCall
    /\ list # "closed"
    /\ \E b \in DOMAIN page.offers :
          /\ Offered(page.offers[b])
          /\ call' = [button |-> b, left |-> Endpoints(page.offers[b]), expect |-> seen,
                      other |-> FALSE]
    /\ failure' = "none"
    /\ UNCHANGED <<href, row, me, flags, screenVars, own, changes, accessVars>>

(* A button on the page makes a row of its own when the followed row is      *)
(* there, and what follows is about that one.                                *)
Elsewhere ==
    LET offer == page.offers[call.button]
    IN \/ call.other
       \/ OnPage(offer) /\ call.left[1] = offer.call /\ row # "absent"

Targets(endpoint) == IF Elsewhere THEN {row} ELSE Outcomes(endpoint, row)

(* The button is still shown to the user, and the row is as it was shown      *)
(* when it was clicked, or as the request left it since.                     *)
AsExpected ==
    LET offer == page.offers[call.button]
    IN /\ UpToDate /\ Permitted(offer)
       /\ call.left[1] \in Range(Endpoints(offer))
       /\ row = call.expect \/ (OnPage(offer) /\ call.left[1] = offer.call)

(* What the first of two requests did, the client is not told.               *)
Refused ==
    /\ failure' = IF AsExpected THEN call.button ELSE "none"
    /\ call' = NoCall
    /\ own' = (own /\ call.left[1] = page.offers[call.button].call)
    /\ UNCHANGED row

Taken(to) ==
    /\ row' = to
    /\ own' = (own \/ to # row)
    /\ call' = [call EXCEPT !.left = Tail(@), !.expect = to, !.other = Elsewhere]
    /\ failure' = "none"

Serve ==
    /\ call # NoCall /\ call.left # <<>>
    /\ LET endpoint == call.left[1]
       IN IF Allowed(endpoint) /\ Targets(endpoint) # {}
          THEN \E to \in Targets(endpoint) : Taken(to)
          ELSE Refused
    /\ UNCHANGED <<href, me, flags, screenVars, changes, accessVars>>

(* All went well: the queries of the button are invalidated, and the list of *)
(* the page is fetched again if it is one of them.                           *)
Settle ==
    /\ call # NoCall /\ call.left = <<>>
    /\ IF page.key \in page.offers[call.button].clears
       THEN Invalidated
       ELSE UNCHANGED <<list, answer, outrun>>
    /\ call' = NoCall
    /\ failure' = "none"
    /\ UNCHANGED <<href, row, me, flags, seen, own, changes, accessVars>>

-----------------------------------------------------------------------------
(* Others. *)

(* To bound the changes, a second one has to do with the first: features are *)
(* switched on again, an edit is overlapped, or a restart interrupts it.     *)
ByOthers ==
    /\ changes < MaxChanges
    /\ changes' = changes + 1
    /\ failure' = "none"
    /\ UNCHANGED <<href, me, flags, screenVars, call>>

OthersWork ==
    /\ ByOthers /\ changes = 0
    /\ \E b \in DOMAIN page.offers :
          row' \in Outcomes(page.offers[b].call, row) \ {row}
    /\ own' = FALSE
    /\ UNCHANGED accessVars

(* One feature is switched off, or all those of the screen off or on; the    *)
(* role is given all the permissions of the screen, or the gate alone.       *)
OthersSwitch ==
    /\ ByOthers
    /\ \/ /\ changes = 0
          /\ \E codes \in {{p} : p \in Watched(href)} \cup {Watched(href)} : Switch(codes, FALSE)
       \/ Switch(Watched(href), TRUE)
    /\ UNCHANGED <<row, own>>

OthersEdit ==
    /\ ByOthers /\ (changes = 0 \/ edits # {})
    /\ \/ \E id \in Editors, to \in {Watched(href), {gate}} : UnlinkRole(id, to)
       \/ \E id \in Editors : UnlinkUser(id)
    /\ UNCHANGED <<row, own>>

OthersFinish ==
    /\ LinkRole \/ LinkUser
    /\ failure' = "none"
    /\ UNCHANGED <<href, row, me, flags, screenVars, call, own, changes>>

ServerRestarts ==
    /\ ByOthers /\ edits # {}
    /\ Restart(Watched(href))
    /\ UNCHANGED <<row, own>>

WebNext ==
    \/ Reload \/ FetchFlags
    \/ Open \/ Turn \/ Answered \/ Show
    \/ Click \/ Serve \/ Settle
    \/ OthersWork \/ OthersSwitch \/ OthersEdit \/ OthersFinish \/ ServerRestarts

WebSpec == WebInit /\ [][WebNext]_webVars

-----------------------------------------------------------------------------
(* Properties. *)

RowStates ==
    DocumentRows \cup PaymentRows \cup PayrollRows \cup LeaveRows \cup InvestmentRows
      \cup MasterRows \cup RoleRows \cup {"marked", "self", "absent"}

WebTypeOK ==
    /\ href \in Addresses
    /\ row \in RowStates
    /\ me.developer \in BOOLEAN /\ me.permissions \subseteq Watched(href)
    /\ flags \subseteq Watched(href) /\ off \subseteq Watched(href)
    /\ granted \subseteq Watched(href)
    /\ list \in {"closed", "loading", "shown", "failed"} /\ outrun \in BOOLEAN
    /\ changes \in 0..MaxChanges

(* Six buttons lead to a refusal for everybody: a posted return and an       *)
(* investment that has paid out are offered for editing, one's own account   *)
(* and a role that users hold for deletion, and the terms are saved as       *)
(* settings.                                                                 *)
OfferedInVain ==
    {<<"/sales/returns", "update">>, <<"/inventory/purchase-returns", "update">>,
     <<"/investments", "update">>, <<"/system/users", "deleteSelf">>,
     <<"/system/roles", "deleteHeld">>, <<"/system/terms", "save">>}

(* Every other button that a user is shown works: when permissions, features *)
(* and the row are as the client shows them, the guard of the API and the    *)
(* service's checks of the status both let the request through.              *)
RefusedOnlyWhenStale ==
    failure \in {"none", "list", "options"} \/ <<href, failure>> \in OfferedInVain

(* The screens that fetch something another page's permission guards, in     *)
(* most cases what is chosen from: more than half of them.                   *)
ReadingElsewhere ==
    {"/sales/invoices", "/sales/returns", "/sales/delivery-orders", "/inventory/purchases",
     "/inventory/purchase-returns", "/inventory/transfers",
     "/accounts/vouchers", "/accounts/cash-book", "/accounts/payments", "/accounts/cheques",
     "/hr/payroll", "/hr/leaves", "/hr/employees/[id]",
     "/investments", "/investments (investors)",
     "/administration/chart-of-accounts", "/administration/sub-heads",
     "/administration/main-accounts", "/administration/items",
     "/parties/customers", "/parties/suppliers",
     "/reports/trial-balance", "/reports/general-ledger", "/reports/party-statement",
     "/reports/stock", "/reports/product-ledger",
     "/reports/sales-book", "/reports/sales-return", "/reports/sales-commission",
     "/reports/purchase-book", "/reports/purchase-return", "/reports/purchase-commission",
     "/system/roles", "/system/settings", "/system/print-layout"}

(* A user who passes the gate of an address is given the list it opens on,   *)
(* and on every other screen also the rest of what the screen fetches.       *)
PageOpens ==
    /\ failure # "list"
    /\ failure = "options" => href \in ReadingElsewhere

(* A user who changed a row and got the answer is not shown the row as it    *)
(* was before: the button discards the list it stands on, with an answer     *)
(* that was under way.  The exception is a list that was not there yet: the  *)
(* first answer to a query, also on a new page of the list, is shown even    *)
(* when it was read before the change, until the list is fetched again.      *)
OwnWritesShown ==
    own /\ call = NoCall /\ list = "shown" /\ ~outrun => seen = Listed(row)

(* Once no edit of the role is under way, the role holds what was submitted: *)
(* all of one of the submissions, and nothing that none of them asked for.   *)
(* A server that stops in an edit may leave less, but Super Admin is given   *)
(* everything back when it starts.                                           *)
RoleAsSubmitted ==
    OfRole = {} =>
        /\ granted \subseteq UNION asked \/ role = "Super Admin"
        /\ ~cut => \E to \in asked : to \subseteq granted
        /\ cut /\ role = "Super Admin" => granted = Watched(href)

-----------------------------------------------------------------------------
(* How the tables of the client fit those of the API and of the services.    *)

Buttons(address) ==
    {Screens[address].offers[b] : b \in DOMAIN Screens[address].offers}

(* A request takes a row that a screen may show to one it may show.          *)
ASSUME RowsAssumption ==
    \A address \in DOMAIN Screens :
        /\ Screens[address].shows \subseteq RowStates
        /\ \A offer \in Buttons(address) :
              \A endpoint \in {offer.call} \cup Range(offer.follow), status \in RowStates :
                  Outcomes(endpoint, status) \subseteq RowStates

(* At most one request follows a button's own, and it is another one.        *)
ASSUME FollowAssumption ==
    \A address \in DOMAIN Screens : \A offer \in Buttons(address) :
        \/ offer.follow = <<>>
        \/ offer.follow = <<offer.follow[1]>> /\ offer.follow[1] # offer.call

(* A button that moves rows discards the list it stands on.                  *)
ASSUME ClearsAssumption ==
    \A address \in DOMAIN Screens : \A offer \in Buttons(address) :
        \/ Screens[address].key \in offer.clears
        \/ /\ offer.follow = <<>>
           /\ \A status \in RowStates : Outcomes(offer.call, status) \subseteq {status}

(* The list of a screen asks for the permission of its address, and what     *)
(* else the screen fetches asks for another one on the screens named above,  *)
(* which are all of them and no more.                                        *)
ASSUME ReadsAssumption ==
    \A address \in DOMAIN Screens :
        /\ \A endpoint \in Screens[address].reads :
              Required(endpoint) \subseteq {permissionForPath(address)}
        /\ address \in ReadingElsewhere
             <=> \E endpoint \in Screens[address].also :
                    ~(Required(endpoint) \subseteq {permissionForPath(address)})
        /\ {"list", "options"} \cap DOMAIN Screens[address].offers = {}

(* A button asks for what its request asks for, and is shown on rows that    *)
(* its request takes; so is the request that follows.                        *)
ASSUME OffersAssumption ==
    \A address \in DOMAIN Screens :
        \A b \in {b \in DOMAIN Screens[address].offers : <<address, b>> \notin OfferedInVain} :
            LET offer == Screens[address].offers[b]
            IN /\ \/ Required(offer.call) \subseteq {permissionForPath(address)}
                  \/ /\ offer.asks # {}
                     /\ \A p \in offer.asks :
                           Required(offer.call) \subseteq {permissionForPath(address), p}
               /\ \A status \in offer.on : Outcomes(offer.call, status) # {}
               /\ \A endpoint \in Range(offer.follow), status \in RowStates :
                     \A to \in Outcomes(offer.call, status) : Outcomes(endpoint, to) # {}
=============================================================================
