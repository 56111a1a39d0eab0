CONSTANTS
  SeqMod = 65536
  MaxPending = 5
  SkippedBound = 2
SPECIFICATION Spec
INVARIANTS
  TypeOK
  NeverAborts
  PendingAhead
  FreshIteration
CHECK_DEADLOCK FALSE
