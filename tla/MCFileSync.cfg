\* Two changes by users, at any replica and any time.
SPECIFICATION FairSpec
CONSTANTS
  a = a
  b = b
  d = d
  e = e
  x = x
  Clients = {a, b}
  Server = Server
  NoClient = NoClient
  Paths = {d, x, e}
  Dirs = {d, e}
  Above <- MCAbove
  Starts <- MCStarts
  MaxEdits = 2
INVARIANTS
  TypeOK
  SettledAgree
PROPERTIES
  EditsKept
  RemovedOnlyIfAsked
  
CHECK_DEADLOCK FALSE
