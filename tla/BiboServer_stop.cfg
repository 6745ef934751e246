SPECIFICATION FairSpec
CONSTANTS
  Clients = {c1}
  Workers = {k1}
  Main = Main
  NoClient = NoClient
  MAX_CLIENT = 1
  MaxTasks = 0
  InterruptAt = {}
PROPERTY ServerStops
CHECK_DEADLOCK FALSE
