SPECIFICATION Spec
CONSTANTS
  s1 = s1
  s2 = s2
  s3 = s3
  o1 = o1
  o2 = o2
  p1 = p1
  p2 = p2
  NoSale = NoSale
  Sales = {s1, s2, s3}
  Orders = {o1, o2}
  Quantities = {1, 2}
  InitialStock = 3
  Procs = {p1}
  Serves <- AnyDocument
  Asked <- AllButEdits
  NamesLine = {TRUE}
  Locking = TRUE
  Interruptions = FALSE
  MaxLines = 2
INVARIANTS StockAccounted DeliveredMatches NeverOverDispatched
CHECK_DEADLOCK FALSE
