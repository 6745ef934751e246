SPECIFICATION FairSpec
CONSTANTS
  f1 = f1
  f2 = f2
  f3 = f3
  pipe = pipe
  Consumers = {c1, c2}
  Producer = producer
  BufferSize = 1
  MaxOpen = 1
  FdLimit = 5
  Root = "src"
  Listing <- FlatListing
  Fifos = {}
  Files = {f1, f2}
  Chunks <- FlatChunks
  Faulty = {}
  Interrupts = TRUE
  MaxSpurious = 0
  NoThread = NoThread
  NoFile = NoFile
  NoDir = NoDir
PROPERTY KillEnds
CHECK_DEADLOCK FALSE
