SPECIFICATION Spec
CONSTANTS
  q1 = q1
  q2 = q2
  s1 = s1
  s2 = s2
  u1 = u1
  u2 = u2
  NoInvoice = NoInvoice
  Ids = {q1}
  Invoices = {s1, s2}
  Users = {u1}
  Others = {u2}
  Lines = {1, 2}
  Discounts = {2}
  Overlap = FALSE
  MaxWrites = 4
SYMMETRY Symmetry
INVARIANTS ConvertedOnce InvoiceCarriesOffer ShowsOwnWrites
CHECK_DEADLOCK FALSE
