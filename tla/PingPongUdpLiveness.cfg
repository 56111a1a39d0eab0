CONSTANTS
  Client = client
  Servers = {s1}
  Acceptor = acceptor
  Messages = 2
  IdMod = 2
  IoErrorNodes = {}
SPECIFICATION FairSpec
INVARIANTS
  Retained
PROPERTIES
  ExchangeEnds
  ImplementsFairPingPong
CHECK_DEADLOCK FALSE
