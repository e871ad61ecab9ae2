\* One payment, its capture and refund or reversal; one edit by hand or one observation.
SPECIFICATION SnapshotSpec
CONSTANTS
  None = None
  p1 = p1  k1 = k1  k2 = k2  merchant = merchant  clearing = clearing
  Payments = {p1}
  Keys = {k1, k2}
  Accounts = {merchant, clearing}
  Sessions = {s1}
  Ids = {1, 2}
  LockIds = {1, 2}
  MaxTampers = 1  MaxOutside = 1
  Requests <- MCRequests
  Amount <- MCAmount
  PaymentCurrency <- MCPaymentCurrency
  AccountCurrency <- MCAccountCurrency
  HashText <- MCHashText
INVARIANTS OnlySupersededReported HealthyIsSettled LastingTroubleIsReported LaterSectionsCoverEarlier
