SPECIFICATION Spec
CONSTANTS
  Clients = {c1, c2, c3}
  Workers = {k1}
  Main = Main
  NoClient = NoClient
  MAX_CLIENT = 1
  MaxTasks = 0
  InterruptAt = {}
INVARIANT AtMostMaxClients
CHECK_DEADLOCK FALSE
