SPECIFICATION Spec
CONSTANTS
  f1 = f1
  f2 = f2
  f3 = f3
  pipe = pipe
  Consumers = {c1, c2}
  Producer = producer
  BufferSize = 2
  MaxOpen = 2
  FdLimit = 6
  Root = "src"
  Listing <- TreeListing
  Fifos = {pipe}
  Files = {f1, f2, f3}
  Chunks <- TreeChunks
  Faulty = {}
  Interrupts = TRUE
  MaxSpurious = 0
  NoThread = NoThread
  NoFile = NoFile
  NoDir = NoDir
INVARIANTS
  TypeOK
  CountBounded
  NoFileTwice
CHECK_DEADLOCK FALSE
