SPECIFICATION DeskSpec
CONSTANTS
  r1 = r1
  r2 = r2
  inv1 = inv1
  inv2 = inv2
  ann = ann
  bob = bob
  p1 = p1
  p2 = p2
  Entries = {r1, r2}
  Docs = {inv1}
  Parties = {ann}
  DocParty <- MCDocParty
  MaxAmount = 2
  Procs = {p1}
  Ops = {"post", "deposit", "bounce", "remove", "cancel"}
  Kinds <- Mixed
  EditColumns = {}
  InitialDocs <- OneInvoice
  MaxVouchers = 3
  DeskOps = {"remove", "unpost", "post", "cancel"}
  Overlap = FALSE
INVARIANTS NoDanglingPointer
PROPERTIES DeletionIsComplete
CHECK_DEADLOCK FALSE
