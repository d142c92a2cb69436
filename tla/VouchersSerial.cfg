SPECIFICATION Spec
CONSTANTS
  v1 = v1
  v2 = v2
  c1 = c1
  c2 = c2
  Ids = {v1, v2}
  Clerks = {c1}
  Forms <- AllForms
  Ops = {"post", "unpost", "submit", "reject", "cancel", "update", "remove"}
  MaxEdits = 3
INVARIANTS PostedBalanced
PROPERTIES StatusIsBinding
CHECK_DEADLOCK FALSE
