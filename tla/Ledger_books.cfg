SPECIFICATION Spec
CONSTANTS
  Clerks = {c1, c2}
  Entries = {e1, e2}
  goods = goods
  capital = capital
  Accounts = {goods, capital}
  ChartAccount = goods
  Cheques = {q1, q2}
  Drafts <- MCDrafts
  MaxRequests = 4
  MaxCrashes = 1
  None = None
INVARIANTS TypeOK PostedIsBalanced BooksAgree DepositsAgree
PROPERTIES PostedIsFinal
CHECK_DEADLOCK FALSE
