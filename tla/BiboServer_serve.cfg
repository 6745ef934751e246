SPECIFICATION FairSpec
CONSTANTS
  Clients = {c1, c2}
  Workers = {k1, k2}
  Main = Main
  NoClient = NoClient
  MAX_CLIENT = 1
  MaxTasks = 1
  InterruptAt = {"append", "num_inc", "stuck"}
INVARIANTS
  TypeOK
  
  ToldOnce
PROPERTIES
  
  ServerStops
CHECK_DEADLOCK FALSE
