CONSTANTS
  Messages = 5
  Size = 3
  MayCrash = {"client", "server"}
SPECIFICATION FairSpec
INVARIANTS
  TypeOK
  QuitsAddUp
  PrintedWhenDone
PROPERTIES
  ImplementsPingPong
  BothEnd
CHECK_DEADLOCK FALSE
