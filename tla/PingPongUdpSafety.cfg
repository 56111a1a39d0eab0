CONSTANTS
  Client = client
  Servers = {s1, s2}
  Acceptor = acceptor
  Messages = 3
  IdMod = 1
  IoErrorNodes = {}
SPECIFICATION Spec
SYMMETRY ServerSymmetry
INVARIANTS
  TypeOK
  Lockstep
PROPERTIES
  ImplementsPingPong
CHECK_DEADLOCK FALSE
