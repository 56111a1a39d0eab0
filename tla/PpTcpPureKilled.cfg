CONSTANTS
  Clients = {c1}
  NoClient = nobody
  Messages = 1
  Size = 4
SPECIFICATION Spec
INVARIANTS
  GotAllMessages
CHECK_DEADLOCK FALSE
