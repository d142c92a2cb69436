SPECIFICATION Spec
CONSTANTS
  r1 = r1
  r2 = r2
  inv1 = inv1
  inv2 = inv2
  ann = ann
  bob = bob
  p1 = p1
  p2 = p2
  Entries = {r1, r2}
  Docs = {inv1}
  Parties = {ann, bob}
  DocParty <- MCDocParty
  MaxAmount = 2
  Procs = {p1, p2}
  Ops = {"post", "deposit", "endorse", "cancel", "return"}
  Kinds <- BothWays
  EditColumns = {}
  InitialDocs <- OneInvoice
  MaxVouchers = 3
SYMMETRY Symmetry
INVARIANTS PaidWithinTotal CollectedIsBooked
CHECK_DEADLOCK FALSE
