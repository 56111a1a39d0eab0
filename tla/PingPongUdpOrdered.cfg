CONSTANTS
  SeqMod = 6
  MaxPending = 1
  CounterMod = 12
  Options = {0, 4, 8, 12}
  Delays = {1, 2}
  MaxSent = 14
  LateOptions = {4}
SPECIFICATION FairSpec
INVARIANTS
  TypeOK
  InStep
  EndsForAReason
PROPERTIES
  ImplementsPingPong
  ClientEnds
  FailureEnds
CHECK_DEADLOCK FALSE
