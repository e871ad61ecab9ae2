\* One event, two workers that may crash twice, a reset, two consumer sessions, one rollback.
SPECIFICATION DeliverySpec
CONSTANTS
  None = None
  Events = {1}
  Workers = {w1, w2}
  MaxAttempts = 2  Lease = 1  BatchSize = 1
  MaxCrashes = 2  MaxResets = 1
  Consumers = {ledger}
  Sessions = {s1, s2}
  MaxRollbacks = 1
INVARIANTS PublishedWasDelivered OverlapNeedsOverrun AttemptsBounded EffectsAccountedFor
PROPERTIES PublishedRowFrozen StoredIsConsumed
