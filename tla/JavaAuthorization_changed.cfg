\* Two callers, one key, an amount on either side of the limit.
SPECIFICATION Spec
CONSTANTS
  None = None
  Keys = {k1}
  Callers = {c1, c2}
  Payments = {p1}
  Ids = {1, 2}
  Amounts = {1, 2}
  Limit = 1
INVARIANTS ChangedRequestsConflict
