CONSTANTS
  Client = client
  Servers = {s1}
  Acceptor = acceptor
  Messages = 2
  IdMod = 2
  IoErrorNodes = {client}
SPECIFICATION Spec
INVARIANTS
  DriverCanFinish
CHECK_DEADLOCK FALSE
