CONSTANTS
  Messages = 4
  MayCrash = {"client", "server"}
SPECIFICATION FairSpec
INVARIANTS
  TypeOK
PROPERTIES
  ImplementsPingPong
  DriverReturns
  ServerFollows
CHECK_DEADLOCK FALSE
