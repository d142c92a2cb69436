SPECIFICATION Spec
CONSTANTS
  l1 = l1
  l2 = l2
  b1 = b1
  r1 = r1
  s1 = s1
  t1 = t1
  Item = Item
  Invoice = Invoice
  NoDoc = NoDoc
  NoCost = NoCost
  p1 = p1
  Locations = {l1, l2}
  Purchases = {b1}
  PurchaseReturns = {r1}
  SalesReturns = {s1}
  Transfers = {t1}
  Quantities = {1, 2}
  Costs = {10, 31}
  Invoiced = 1
  AllowNegative = FALSE
  Procs = {p1}
  Forms <- SomeForms
  Sales <- SomeSales
  Asked <- Everything
  Undone = {b1}
  Openings <- SomeOpenings
  Locking = TRUE
  Overlap = FALSE
  Unread = Unread
  MaxMovements = 4
INVARIANTS StockFollowsDocuments BalancesAreRunning AverageFollowsHistory BookedOnce
CHECK_DEADLOCK FALSE
