CONSTANTS
  Client = client
  Servers = {s1}
  Acceptor = acceptor
  Messages = 2
  IdMod = 1
  IoErrorNodes = {client, s1}
SPECIFICATION Spec
INVARIANTS
  QuitsAddUp
  RetransmitArmed
  PrintedWhenDone
CHECK_DEADLOCK FALSE
