CONSTANTS
  Clients = {c1, c2}
  NoClient = nobody
  Messages = 3
  Size = 3
SPECIFICATION FairSpec
INVARIANTS
  TypeOK
  OneAtATime
  GotAllWhileServed
  NeverStuck
PROPERTIES
  EveryClientEnds
  ImplementPingPong
CHECK_DEADLOCK FALSE
