------------------------------ MODULE BackOffice ------------------------------
(***************************************************************************)
(* The receipt / payment desk and the voucher desk on the same books.      *)
(* Payments books vouchers; the voucher desk lists them like any other     *)
(* voucher and can unpost, post, cancel and delete them.  Deleting one     *)
(* reverses the receipt or payment it belongs to.                          *)
(*                                                                         *)
(* One request of the voucher desk is in progress at a time; it interleaves*)
(* with the requests of Payments if Overlap.  Vouchers models the voucher  *)
(* desk with concurrent clerks.                                            *)
(***************************************************************************)
EXTENDS Payments

CONSTANTS
    DeskOps,        \* what clients ask of the voucher desk
    Overlap         \* whether the requests of the two desks may overlap

AllDeskOps == {"post", "unpost", "cancel", "remove"}

ASSUME BackOfficeAssumption ==
    /\ DeskOps \subseteq AllDeskOps
    /\ Overlap \in BOOLEAN

VARIABLE desk       \* the request the voucher desk is serving

allVars == <<entries, docs, vouchers, locked, reqs, desk>>

DeskIdle == [op |-> "none"]
DeskReq  == [op : AllDeskOps, v : Nat]

DeskTypeOK ==
    /\ TypeOK
    /\ desk \in {DeskIdle} \cup DeskReq
    /\ desk # DeskIdle => desk.v \in DOMAIN vouchers

DeskInit == Init /\ desk = DeskIdle

Stored(v) == vouchers[v].status # "deleted"

-------------------------------------------------------------------------------
\* Which statuses an operation accepts.
DeskAccepts(op, status) ==
    CASE op = "post"   -> status = "draft"
      [] op = "unpost" -> status = "posted"
      [] op = "cancel" -> status # "cancelled"
      [] op = "remove" -> TRUE

DeskRead(op, v) ==
    /\ desk = DeskIdle
    /\ Overlap \/ \A p \in Procs : reqs[p] = Idle
    /\ Stored(v)
    /\ DeskAccepts(op, vouchers[v].status)
    /\ ~locked
    /\ desk' = [op |-> op, v |-> v]
    /\ UNCHANGED vars

DeskFinish == desk' = DeskIdle

WithStatus(v, status) == [vouchers EXCEPT ![v].status = status]

\* post, unpost and cancel change the status of the voucher and nothing else.
DeskStatus ==
    /\ desk.op \in {"post", "unpost", "cancel"}
    /\ Stored(desk.v)
    /\ vouchers' = WithStatus(desk.v, CASE desk.op = "post"   -> "posted"
                                        [] desk.op = "unpost" -> "draft"
                                        [] desk.op = "cancel" -> "cancelled")
    /\ DeskFinish
    /\ UNCHANGED <<entries, docs, locked, reqs>>

\* Mutants: only the entry that points at the voucher is reversed, not the one that
\* carries its reference; no entry is reversed.
MutantReversedBy(v) ==
    {e \in Entries : entries[e].status = "posted" /\ entries[e].voucher = v}
MutantReversedBy2(v) == {}

\* The posted entries that a deletion reverses: they point at the voucher, or their
\* number is its reference.
ReversedBy(v) ==
    {e \in Entries : /\ entries[e].status = "posted"
                     /\ entries[e].voucher = v \/ e = vouchers[v].ref}

\* The other vouchers with the same reference.
Siblings(v) == {i \in DOMAIN vouchers : i # v /\ vouchers[i].ref = vouchers[v].ref}

\* Deleting a voucher gives back what its entry had applied, cancels the entry and
\* the other vouchers of the reference, and deletes the row.  At most one entry is
\* reversed: the entry a voucher points from has the number in its reference.
DeskRemove ==
    LET v        == desk.v
        reversed == ReversedBy(v)
        applied  == [d \in Docs |-> SumFunction([e \in reversed |-> entries[e].alloc[d]])]
    IN  /\ desk.op = "remove"
        /\ Stored(v)
        /\ docs' = Released(docs, applied)
        /\ entries' = [e \in Entries |->
                         IF e \in reversed
                         THEN [entries[e] EXCEPT !.status = "cancelled", !.voucher = 0,
                                                 !.alloc = NoAllocation]
                         ELSE entries[e]]
        /\ vouchers' = [Cancelled(Siblings(v)) EXCEPT ![v].status = "deleted"]
        /\ DeskFinish
        /\ UNCHANGED <<locked, reqs>>

DeskFail ==
    /\ desk # DeskIdle
    /\ DeskFinish
    /\ UNCHANGED vars

\* Payments may move while the voucher desk serves a request only if they overlap.
DeskNext ==
    \/ (Overlap \/ desk = DeskIdle) /\ Next /\ UNCHANGED desk
    \/ \E op \in DeskOps, v \in DOMAIN vouchers : DeskRead(op, v)
    \/ DeskStatus \/ DeskRemove \/ DeskFail

DeskSpec == DeskInit /\ [][DeskNext]_allVars

-------------------------------------------------------------------------------
(* Correctness.                                                             *)

\* A posted entry never points at a deleted voucher ("A voucher booked from a
\* receipt / payment must not outlive its source entry", and the other way round).
NoDanglingPointer ==
    \A e \in InForce : entries[e].voucher # 0 /\ Stored(entries[e].voucher)

\* Deleting any voucher of an entry leaves the entry unposted and none of its vouchers
\* posted, so that nothing of it counts in any account.
DeletionIsComplete ==
    [][\A v \in DOMAIN vouchers : Stored(v) /\ vouchers'[v].status = "deleted" =>
          /\ entries'[vouchers[v].ref].status # "posted"
          /\ \A i \in VouchersOf(vouchers[v].ref) : vouchers'[i].status # "posted"]_allVars
=============================================================================
