SPECIFICATION Spec
CONSTANTS
  r1 = r1
  r2 = r2
  inv1 = inv1
  inv2 = inv2
  ann = ann
  bob = bob
  p1 = p1
  p2 = p2
  Entries = {r1, r2}
  Docs = {inv1}
  Parties = {ann, bob}
  DocParty <- MCDocParty
  MaxAmount = 2
  Procs = {p1}
  Ops = {"post", "deposit", "bounce", "cancel", "remove", "edit", "lock", "quiet return"}
  Kinds <- CashOrPdc
  EditColumns = {"amount", "party"}
  InitialDocs <- OneInvoice
  MaxVouchers = 3
INVARIANTS PaidIsAllocated UnpostedLeavesNoTrace HoldingsMatchCheques PostedMatchesVoucher ReportsAgree
PROPERTIES FinalStays KeepsPromise
CHECK_DEADLOCK FALSE
