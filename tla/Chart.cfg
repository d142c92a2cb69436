SPECIFICATION ChartSpec
CONSTANTS
  cash = cash
  equity = equity
  other = other
  a1 = a1
  q1 = q1
  e1 = e1
  c1 = c1
  p1 = p1
  p2 = p2
  Accounts = {cash, equity, other}
  Subs = {a1, q1, e1}
  TypeOf <- Letters
  Parties = {c1}
  Gone = Gone
  Manual = Manual
  Bare = Bare
  Charted <- SmallChart
  AccountForms <- Savings
  Postings <- Journals
  Asked <- OneSavesOneDeletes
  Procs = {p1, p2}
  MaxVouchers = 2
  MaxJournals = 1
  MaxSerial = 3
  MaxSaves = 3
  Linkable = {other}
  Days <- TwoDays
  None = None
  Unset = Unset
INVARIANTS BookedWhenTold EntriesHaveAccounts StatementsAgree
PROPERTIES CodesAreFresh
CHECK_DEADLOCK FALSE
