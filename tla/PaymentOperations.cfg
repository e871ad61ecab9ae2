\* Two sessions, two payments, three keys of which two collide; calls end too.
SPECIFICATION FairSpec
CONSTANTS
  None = None
  p1 = p1  p2 = p2
  k1 = k1  k2 = k2  k3 = k3
  merchant = merchant  clearing = clearing  foreign = foreign
  Payments = {p1, p2}
  Keys = {k1, k2, k3}
  Accounts = {merchant, clearing, foreign}
  Sessions = {s1, s2}
  Ids = {1, 2, 3, 4}
  LockIds = {1, 2}
  Requests <- MCRequests
  Amount <- MCAmount
  PaymentCurrency <- MCPaymentCurrency
  AccountCurrency <- MCAccountCurrency
  HashText <- MCHashText
INVARIANTS TypeOK LedgerAgreesWithStatus RecordsAgree AnswersAreDurable UniqueConstraintNeverFires
PROPERTIES ImplementsLifecycle EveryCallEnds
