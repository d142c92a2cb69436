SPECIFICATION SessionsSpec
CONSTANTS
  t1 = t1
  t2 = t2
  c1 = c1
  c2 = c2
  c3 = c3
  Tabs = {t1, t2}
  Calls = {c1, c2, c3}
  TabOf <- Made
  Lossy = TRUE
  Patient = TRUE
  MaxIssued = 4
INVARIANTS SameGeneration PasswordKeepsSession
PROPERTIES CallEnds SessionServes
CHECK_DEADLOCK FALSE
