--------------------------------- MODULE Chart ---------------------------------
(***************************************************************************)
(* The chart of accounts: accounts filed under sub heads, their codes,     *)
(* the vouchers that carry their opening balances, and the parties that    *)
(* are linked to them.  Saving an account takes several steps: the code is *)
(* drawn from the counter of the sub head, the row is written, and the     *)
(* voucher of its opening balance is brought in line in a transaction of   *)
(* its own, after the equity account for the other side was looked up.     *)
(*                                                                         *)
(* Not modelled: names, the day of an opening (a changed day replaces the  *)
(* voucher as a changed amount does), heads (a sub head knows its type).   *)
(***************************************************************************)
EXTENDS Integers, Sequences, FiniteSets, FiniteSetsExt

CONSTANTS
    Accounts,     \* ids of accounts
    Subs,         \* codes of sub heads
    TypeOf,       \* the account type that the letter of each code stands for
    Parties,      \* customers and suppliers
    None,         \* no account; the value of a setting that was cleared
    Unset,        \* a setting that has no row yet
    Gone,         \* the account of a party that was deleted
    Manual,       \* a journal with a reference of its own
    Bare,         \* a journal without a reference
    Charted,      \* the accounts at the start: a function to their rows
    AccountForms, \* the forms that clients send: an account, its sub head,
                  \* opening balance (debit > 0, credit < 0) and status
    Postings,     \* journals that the rest of the program books
    Linkable,     \* the accounts that clients link parties to
    Asked,        \* which request each of the Procs may make
    Procs,        \* requests that may be in progress at the same time
    MaxVouchers,  \* bound: opening vouchers kept at the same time
    MaxJournals,  \* bound: journals booked
    MaxSerial,    \* bound: no code is drawn after this one
    MaxSaves      \* bound: accounts are created and edited so many times

Types == {"ASSET", "LIABILITY", "EQUITY", "REVENUE", "EXPENSE"}
AccountRow ==
    [status : {"absent", "active", "inactive", "deleted"}, sub : Subs \cup {None},
     serial : Nat, opening : Int]

ASSUME ChartAssumption ==
    /\ IsFiniteSet(Accounts) /\ IsFiniteSet(Subs)
    /\ TypeOf \in [Subs -> Types]
    /\ DOMAIN Charted \subseteq Accounts
    /\ \A a \in DOMAIN Charted : Charted[a] \in AccountRow
    /\ \A a \in DOMAIN Charted :
          /\ Charted[a].status # "absent" /\ Charted[a].sub \in Subs /\ Charted[a].serial > 0
          /\ \A b \in DOMAIN Charted \ {a} :
                <<Charted[b].sub, Charted[b].serial>> # <<Charted[a].sub, Charted[a].serial>>
    /\ AccountForms \subseteq
          [account : Accounts, sub : Subs, opening : Int, status : {"active", "inactive"}]
    /\ \A j \in Postings : j.debit \in Accounts /\ j.credit \in Accounts
    /\ MaxVouchers \in Nat /\ MaxJournals \in Nat
    /\ MaxSerial \in Nat /\ MaxSaves \in Nat

VARIABLES
    accounts,  \* table MainAccount
    subs,      \* table SubHead: "unused", "live" or "deleted"
    counters,  \* numbering.account.main.<sub>: 0 when there is no row
    setting,   \* accounting.opening_equity_account
    openings,  \* the vouchers whose reference is OB:<account>
    journals,  \* every other posted voucher, in the order of posting
    links,     \* the account of each party
    told,      \* whether the last save of an account ended without a warning
    saves,     \* how many saves were asked for
    jobs

tables == <<accounts, subs, counters, setting, openings, journals, links, told>>
chartVars == <<tables, saves, jobs>>

Voucher == [no : 1..MaxVouchers, account : Accounts, against : Accounts, amount : Int, posted : BOOLEAN]
Free    == [stage |-> "idle"]
Absent  == [status |-> "absent", sub |-> None, serial |-> 0, opening |-> 0]

ChartInit ==
    /\ accounts = [a \in Accounts |-> IF a \in DOMAIN Charted THEN Charted[a] ELSE Absent]
    /\ subs = [s \in Subs |-> IF \E a \in DOMAIN Charted : Charted[a].sub = s THEN "live" ELSE "unused"]
    /\ counters = [s \in Subs |-> Max({0} \cup {Charted[a].serial : a \in
                                    {b \in DOMAIN Charted : Charted[b].sub = s}})]
    /\ setting = Unset
    /\ openings = {}
    /\ journals = <<>>
    /\ links = [c \in Parties |-> None]
    /\ told = [a \in Accounts |-> TRUE]
    /\ saves = 0
    /\ jobs = [p \in Procs |-> Free]

ChartTypeOK ==
    /\ accounts \in [Accounts -> AccountRow]
    /\ subs \in [Subs -> {"unused", "live", "deleted"}]
    /\ counters \in [Subs -> Nat]
    /\ setting \in Accounts \cup {None, Unset}
    /\ openings \subseteq Voucher
    /\ \A i \in DOMAIN journals : journals[i] \in Postings
    /\ links \in [Parties -> Accounts \cup {None, Gone}]
    /\ told \in [Accounts -> BOOLEAN]
    /\ saves \in 0..MaxSaves
    /\ \A p \in Procs : jobs[p] = Free \/ jobs[p].stage \in {"create", "move", "write", "saved",
                                             "resolved", "delete", "deleteAccounts", "deleteSub"}

Live(a)    == accounts[a].status \in {"active", "inactive"}
Filed(s)   == {a \in Accounts : Live(a) /\ accounts[a].sub = s}
Type(a)    == TypeOf[accounts[a].sub]

\* What keeps an account from being deleted: entries of any voucher, cancelled ones too.
HasEntries(a) ==
    \/ \E v \in openings : a \in {v.account, v.against}
    \/ \E i \in DOMAIN journals : a \in {journals[i].debit, journals[i].credit}
HasLinks(a) == \E c \in Parties : links[c] = a

-------------------------------------------------------------------------------
(* Codes.                                                                   *)

Serials(s) == {accounts[a].serial : a \in Filed(s)}

\* floorInUse: the highest serial, or the number of codes when there are more.
FloorInUse(s) == Max(Serials(s) \cup {0, Cardinality(Filed(s))})

\* seedSequence updates the row of the counter; it creates none.
Seeded(s, floor) == IF counters[s] = 0 THEN 0 ELSE Max({counters[s], floor})

\* Mutant: the numbers are taken from the chart alone.
MutantDrawn(s, floor) == [counter |-> floor + 1, serial |-> floor + 1]

\* allocate: draws from the counter until the code is free.
Drawn(s, floor) ==
    LET Serial(k) == Max({Seeded(s, floor) + k, floor + 1})
        tries == Min({k \in 1..MaxSerial + 1 : Serial(k) \notin Serials(s)})
    IN  [counter |-> Seeded(s, floor) + tries, serial |-> Serial(tries)]

-------------------------------------------------------------------------------
(* Main accounts.                                                           *)

Goes(p, r) == jobs' = [jobs EXCEPT ![p] = r]
At(p, stage) == jobs[p].stage = stage

Done(p) == Goes(p, Free)

CreateRead(p, f) ==
    /\ jobs[p] = Free /\ <<p, "create">> \in Asked
    /\ saves < MaxSaves /\ saves' = saves + 1
    /\ accounts[f.account].status = "absent"
    /\ subs[f.sub] = "live"
    /\ Goes(p, [stage |-> "create", account |-> f.account, sub |-> f.sub,
                opening |-> f.opening, floor |-> FloorInUse(f.sub)])
    /\ UNCHANGED tables

\* After the row, the voucher of an opening that is not zero.
Saved(p, a, opening) ==
    /\ told' = [told EXCEPT ![a] = opening = 0]
    /\ IF opening = 0 THEN Done(p) ELSE Goes(p, [stage |-> "saved", account |-> a])

\* The counter is drawn and the row created in one transaction.
CreateCommit(p) ==
    LET r == jobs[p]  a == r.account  d == Drawn(r.sub, r.floor) IN
    /\ At(p, "create")
    /\ subs[r.sub] = "live" /\ accounts[a].status = "absent"
    /\ d.counter <= MaxSerial
    /\ counters' = [counters EXCEPT ![r.sub] = d.counter]
    /\ accounts' = [accounts EXCEPT ![a] = [status |-> "active", sub |-> r.sub,
                                            serial |-> d.serial, opening |-> r.opening]]
    /\ Saved(p, a, r.opening)
    /\ UNCHANGED <<subs, setting, openings, journals, links, saves>>

EditRead(p, f) ==
    LET row == accounts[f.account]  stays == f.sub = row.sub IN
    /\ jobs[p] = Free /\ <<p, "update">> \in Asked
    /\ saves < MaxSaves /\ saves' = saves + 1
    /\ Live(f.account)
    /\ subs[f.sub] = "live"
    /\ Goes(p, [stage |-> IF stays THEN "write" ELSE "move",
                account |-> f.account, sub |-> f.sub, opening |-> f.opening, status |-> f.status,
                serial |-> row.serial, floor |-> IF stays THEN 0 ELSE FloorInUse(f.sub)])
    /\ UNCHANGED tables

\* A moved account draws a new code, before the write and outside a transaction.
UpdateDraw(p) ==
    LET r == jobs[p]  d == Drawn(r.sub, r.floor) IN
    /\ At(p, "move")
    /\ d.counter <= MaxSerial
    /\ counters' = [counters EXCEPT ![r.sub] = d.counter]
    /\ Goes(p, [r EXCEPT !.stage = "write", !.serial = d.serial, !.floor = 0])
    /\ UNCHANGED <<accounts, subs, setting, openings, journals, links, told, saves>>

UpdateWrite(p) ==
    LET r == jobs[p]  a == r.account IN
    /\ At(p, "write")
    /\ Live(a) /\ subs[r.sub] = "live"
    /\ \A b \in Filed(r.sub) \ {a} : accounts[b].serial # r.serial
    /\ accounts' = [accounts EXCEPT ![a] = [status |-> r.status, sub |-> r.sub,
                                            serial |-> r.serial, opening |-> r.opening]]
    /\ Saved(p, a, r.opening)
    /\ UNCHANGED <<subs, counters, setting, openings, journals, links, saves>>

DeleteRead(p, a) ==
    /\ jobs[p] = Free /\ <<p, "delete">> \in Asked
    /\ Live(a)
    /\ ~HasEntries(a) /\ ~HasLinks(a)
    /\ Goes(p, [stage |-> "delete", account |-> a])
    /\ UNCHANGED <<tables, saves>>

\* Mutant: the database keeps entries of accounts that are gone.
MutantDeletable(set) == \A a \in set : Live(a)

\* The entries of a voucher refer to their account: the database keeps it.
Deletable(set) == \A a \in set : Live(a) /\ ~HasEntries(a)

\* A party whose account goes loses its link (onDelete: SetNull).
Deleted(set) ==
    /\ accounts' = [a \in Accounts |-> IF a \in set THEN [accounts[a] EXCEPT !.status = "deleted"]
                                       ELSE accounts[a]]
    /\ links' = [c \in Parties |-> IF links[c] \in set THEN None ELSE links[c]]

DeleteCommit(p) ==
    /\ At(p, "delete")
    /\ Deletable({jobs[p].account})
    /\ Deleted({jobs[p].account})
    /\ Done(p)
    /\ UNCHANGED <<subs, counters, setting, openings, journals, told, saves>>

-------------------------------------------------------------------------------
(* Sub heads.                                                               *)

CreateSub(s) ==
    /\ subs[s] = "unused"
    /\ subs' = [subs EXCEPT ![s] = "live"]
    /\ UNCHANGED <<accounts, counters, setting, openings, journals, links, told, jobs, saves>>

\* A sub head that moves to another head gets a new code, and its accounts
\* new codes and types under it, in the order of the old ones (that it moves
\* while another request is under way is not modelled).
Reparent(s, t) ==
    LET Rank(a) == Cardinality({b \in Filed(s) : accounts[b].serial <= accounts[a].serial}) IN
    /\ \A p \in Procs : jobs[p] = Free
    /\ subs[s] = "live" /\ subs[t] = "unused" /\ TypeOf[t] # TypeOf[s]
    /\ counters[t] + Cardinality(Filed(s)) <= MaxSerial
    /\ subs' = [subs EXCEPT ![s] = "deleted", ![t] = "live"]
    /\ counters' = [counters EXCEPT ![t] = @ + Cardinality(Filed(s))]
    /\ accounts' = [a \in Accounts |->
         IF a \in Filed(s) THEN [accounts[a] EXCEPT !.sub = t, !.serial = counters[t] + Rank(a)]
         ELSE accounts[a]]
    /\ UNCHANGED <<setting, openings, journals, links, told, jobs, saves>>

DeleteSubRead(p, s) ==
    /\ jobs[p] = Free /\ <<p, "deleteSub">> \in Asked
    /\ subs[s] = "live"
    /\ \A a \in Filed(s) : ~HasEntries(a) /\ ~HasLinks(a)
    /\ Goes(p, [stage |-> "deleteAccounts", sub |-> s, accounts |-> Filed(s)])
    /\ UNCHANGED <<tables, saves>>

\* deleteMany passes over accounts that are gone.
DeleteSubAccounts(p) ==
    LET r == jobs[p]  left == {a \in r.accounts : Live(a)} IN
    /\ At(p, "deleteAccounts")
    /\ Deletable(left)
    /\ Deleted(left)
    /\ Goes(p, [stage |-> "deleteSub", sub |-> r.sub])
    /\ UNCHANGED <<subs, counters, setting, openings, journals, told, saves>>

DeleteSubRow(p) ==
    /\ At(p, "deleteSub")
    /\ subs[jobs[p].sub] = "live" /\ Filed(jobs[p].sub) = {}
    /\ subs' = [subs EXCEPT ![jobs[p].sub] = "deleted"]
    /\ Done(p)
    /\ UNCHANGED <<accounts, counters, setting, openings, journals, links, told, saves>>

-------------------------------------------------------------------------------
(* Opening balances.                                                        *)

\* usable: an active equity account other than the one being opened.
Usable(e, a) ==
    /\ e \in Accounts /\ e # a
    /\ accounts[e].status = "active" /\ Type(e) = "EQUITY"

\* resolveOpeningEquityId: the configured account, else any that will do (the
\* name and the code that decide between several are not modelled).
Resolved(a) ==
    LET usable == {e \in Accounts : Usable(e, a)}
    IN  IF setting \in usable THEN {setting} ELSE IF usable = {} THEN {None} ELSE usable

\* syncOpeningVoucher reads the account and resolves the other side before its
\* transaction; a setting that points at no usable account is cleared.
SyncRead(p) ==
    LET a == jobs[p].account IN
    /\ At(p, "saved")
    /\ Live(a)
    /\ \E e \in Resolved(a) :
         Goes(p, [stage |-> "resolved", account |-> a, amount |-> accounts[a].opening, against |-> e])
    /\ setting' = IF setting = Unset \/ Usable(setting, a) THEN setting ELSE None
    /\ UNCHANGED <<accounts, subs, counters, openings, journals, links, told, saves>>

\* removeTrace: a posted voucher is cancelled, a cancelled one is deleted.
TraceRemoved(v) ==
    (openings \ {v}) \cup IF v.posted THEN {[v EXCEPT !.posted = FALSE]} ELSE {}

FreeNumbers == {n \in 1..MaxVouchers : \A v \in openings : v.no # n}

Opened(a, e, amount) ==
    [no |-> Min(FreeNumbers), account |-> a, against |-> e, amount |-> amount, posted |-> TRUE]

\* Mutant: a voucher with another amount is left as it is.
MutantUnchanged(v, amount) == v # None /\ v.posted

Unchanged(v, amount) == v # None /\ v.posted /\ v.amount = amount

\* The voucher that findFirst returns for the reference is any of them.
SyncCommit(p) ==
    LET r == jobs[p]  a == r.account
        found == {v \in openings : v.account = a}
    IN
    /\ At(p, "resolved")
    /\ \E v \in IF found = {} THEN {None} ELSE found :
         LET cleared == IF v = None THEN openings ELSE TraceRemoved(v)
             books   == r.amount # 0 /\ ~Unchanged(v, r.amount) /\ r.against # None
         IN  /\ books => Live(a) /\ Live(r.against) /\ FreeNumbers # {}
             /\ openings' = IF r.amount # 0 /\ Unchanged(v, r.amount) THEN openings
                            ELSE cleared \cup IF books THEN {Opened(a, r.against, r.amount)} ELSE {}
             /\ setting' = IF books /\ setting = Unset THEN r.against ELSE setting
             /\ told' = [told EXCEPT ![a] = books \/ r.amount = 0 \/ Unchanged(v, r.amount)]
    /\ Done(p)
    /\ UNCHANGED <<accounts, subs, counters, journals, links, saves>>

\* An error or a crash: what was committed stays.
SaveFails(p) ==
    /\ jobs[p] # Free
    /\ Done(p)
    /\ UNCHANGED <<tables, saves>>

-------------------------------------------------------------------------------
(* The rest of the program.                                                 *)

Book(j) ==
    /\ Len(journals) < MaxJournals
    /\ Live(j.debit) /\ Live(j.credit) /\ (j.doc \in Parties => links[j.doc] # Gone)
    /\ journals' = Append(journals, j)
    /\ UNCHANGED <<accounts, subs, counters, setting, openings, links, told, jobs, saves>>

Link(c, a) ==
    /\ links[c] \notin {Gone, a} /\ Live(a) /\ a \in Linkable
    /\ links' = [links EXCEPT ![c] = a]
    /\ UNCHANGED <<accounts, subs, counters, setting, openings, journals, told, jobs, saves>>

\* Forced, the documents of the party go with it; their vouchers stay.
RemoveParty(c) ==
    /\ links[c] # Gone
    /\ links' = [links EXCEPT ![c] = Gone]
    /\ UNCHANGED <<accounts, subs, counters, setting, openings, journals, told, jobs, saves>>

ChartNext ==
    \/ \E p \in Procs :
         \/ \E f \in AccountForms : CreateRead(p, f) \/ EditRead(p, f)
         \/ \E a \in Accounts : DeleteRead(p, a)
         \/ \E s \in Subs : DeleteSubRead(p, s)
         \/ CreateCommit(p) \/ UpdateDraw(p) \/ UpdateWrite(p) \/ DeleteCommit(p)
         \/ DeleteSubAccounts(p) \/ DeleteSubRow(p)
         \/ SyncRead(p) \/ SyncCommit(p)
         \/ SaveFails(p)
    \/ \E s \in Subs : CreateSub(s) \/ \E t \in Subs : Reparent(s, t)
    \/ \E j \in Postings : Book(j)
    \/ \E c \in Parties : RemoveParty(c) \/ \E a \in Accounts : Link(c, a)

ChartSpec == ChartInit /\ [][ChartNext]_chartVars

-------------------------------------------------------------------------------
\* No account is given a code that another account holds, whatever was moved between
\* the sub-heads or deleted before, and however often the counter was behind the codes.
CodesAreFresh ==
    [][\A a, b \in Accounts :
         (/\ <<accounts'[a].sub, accounts'[a].serial>> # <<accounts[a].sub, accounts[a].serial>>
          /\ a # b /\ accounts[b].status # "absent")
         => <<accounts'[a].sub, accounts'[a].serial>> # <<accounts[b].sub, accounts[b].serial>>]_chartVars

\* When a save of an account ended without a warning, a posted voucher carries
\* the opening balance that is stored on the account.
BookedWhenTold ==
    \A a \in Accounts :
      Live(a) /\ told[a] /\ accounts[a].opening # 0 =>
        \E v \in openings : v.posted /\ v.account = a /\ v.amount = accounts[a].opening

\* Both sides of an opening are two accounts that are still on the chart.
EntriesHaveAccounts ==
    /\ \A v \in openings : v.account # v.against /\ Live(v.account) /\ Live(v.against)
    /\ \A i \in DOMAIN journals : Live(journals[i].debit) /\ Live(journals[i].credit)

\* The comment of syncOpeningVoucher: "When the opening balance is zeroed the
\* voucher is removed; when the amount or side changes the old voucher is
\* cancelled (preserved for audit) and replaced."  The code does not have it: an opening
\* that is zeroed keeps its voucher.
OpeningIsReplaced ==
    \A a \in Accounts :
      Live(a) /\ told[a] =>
        MapThenSumSet(LAMBDA v : v.amount, {v \in openings : v.posted /\ v.account = a})
          = accounts[a].opening
=============================================================================
