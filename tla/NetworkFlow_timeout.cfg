\* Two attempts that time out together.
SPECIFICATION Spec
CONSTANTS
  None = None
  Correlations = {c1, c2}
  ReversalKeys = {r1, r2}
  Timeouts = {1, 2}
  MaxTime = 3
INVARIANTS TimeoutIsClassified
\* The clock is bounded, and a caller need not call.
CHECK_DEADLOCK FALSE
