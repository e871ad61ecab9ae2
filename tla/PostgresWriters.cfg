\* Two sessions, two journal ids of which both may be used twice, one addition.
\* Two callers of the Java service, two keys, an amount on either side of the limit.
SPECIFICATION WritersSpec
CONSTANTS
  None = None
  j1 = j1  j2 = j2  cash = cash  revenue = revenue
  Journals = {j1, j2}
  Accounts = {cash, revenue}
  Currencies = {"USD", "EUR"}
  Sessions = {s1, s2}
  MaxAppends = 1
  Keys = {k1, k2}
  Callers = {c1, c2}
  Payments = {p1}
  Ids = {1, 2, 3}
  Amounts = {1, 2}
  Limit = 1
  Offers <- MCOffers
  Requests <- MCRequests
INVARIANTS PostedWhole BalancesCancel DecisionsAnnounced RepeatsReturnOriginal
