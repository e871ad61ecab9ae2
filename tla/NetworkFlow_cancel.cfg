\* One attempt whose answer does not decode.
SPECIFICATION Spec
CONSTANTS
  None = None
  Correlations = {c1}
  ReversalKeys = {r1, r2}
  Timeouts = {1, 2}
  MaxTime = 3
INVARIANTS CancelledWasNotDelivered
\* The clock is bounded, and a caller need not call.
CHECK_DEADLOCK FALSE
