SPECIFICATION Spec
CONSTANTS
  Clerks = {c1, c2}
  Entries = {e1, e2}
  goods = goods
  capital = capital
  Accounts = {goods, capital}
  ChartAccount = goods
  Cheques = {q1}
  Drafts <- MCDrafts
  MaxRequests = 4
  MaxCrashes = 1
  None = None
INVARIANTS ClearedIsPosted
CHECK_DEADLOCK FALSE
