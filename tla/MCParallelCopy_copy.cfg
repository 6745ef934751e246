SPECIFICATION FairSpec
CONSTANTS
  f1 = f1
  f2 = f2
  f3 = f3
  pipe = pipe
  Consumers = {c1, c2}
  Producer = producer
  BufferSize = 1
  MaxOpen = 2
  FdLimit = 6
  Root = "src"
  Listing <- TreeListing
  Fifos = {pipe}
  Files = {f1, f2, f3}
  Chunks <- TreeChunks
  Faulty = {f2, pipe, "sub"}
  Interrupts = FALSE
  MaxSpurious = 1
  NoThread = NoThread
  NoFile = NoFile
  NoDir = NoDir
INVARIANTS
  EveryFileAccounted
  DescriptorsOwned
  OpenFilesBounded
  QuitOnlyWhenDone
  
  
 
