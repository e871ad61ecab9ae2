\* Two callers, one key, two bodies, calls without key too.
SPECIFICATION FairSpec
CONSTANTS
  None = None  NoKey = NoKey
  Callers = {c1, c2}
  Keys = {k1}
  CallKeys = {k1, NoKey}
  Bodies = {b1, b2}
  Ids = {1, 2, 3}
INVARIANTS ClaimsNameTheirPayments
PROPERTIES ImplementsContract ClaimantsFinish
