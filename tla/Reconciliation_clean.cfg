\* One session and no edits by hand: is the report of its operations clean?
SPECIFICATION ReconSpec
CONSTANTS
  None = None
  p1 = p1  k1 = k1  k2 = k2  merchant = merchant  clearing = clearing
  Payments = {p1}
  Keys = {k1, k2}
  Accounts = {merchant, clearing}
  Sessions = {s1}
  Ids = {1, 2, 3}
  LockIds = {1, 2}
  MaxTampers = 0
  Requests <- MCRequests
  Amount <- MCAmount
  PaymentCurrency <- MCPaymentCurrency
  AccountCurrency <- MCAccountCurrency
  HashText <- MCHashText
INVARIANTS CleanOperationsAreClean
