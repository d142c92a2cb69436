SPECIFICATION Spec
CONSTANTS
  i1 = i1
  i2 = i2
  p1 = p1
  p2 = p2
  c1 = c1
  c2 = c2
  None = None
  Ids = {i1}
  Capitals = {c1, c2}
  Configured = c1
  Forms <- Arrangements
  Payouts = {1, 5}
  Revised = {2}
  Opening = 3
  Amounts <- OtherMoney
  EditsReceived = FALSE
  Locking = TRUE
  Procs = {p1}
  MaxEdits = 2
INVARIANTS OwedIsOutstanding ReturnsAreVouched
CHECK_DEADLOCK FALSE
