\* Two attempts, two reversal keys, a clock of four instants.
SPECIFICATION ReportsSpec
CONSTANTS
  MaxLost = 1
  None = None
  Correlations = {c1, c2}
  ReversalKeys = {r1, r2}
  Timeouts = {1, 2}
  MaxTime = 3
SYMMETRY Symmetry
INVARIANTS TypeOK ConcludedOnce ReversalOnlyAfterTimeout MetricsAgree HistoryAgrees
PROPERTIES SettledForGood
\* The clock is bounded, and a caller need not call.
CHECK_DEADLOCK FALSE
