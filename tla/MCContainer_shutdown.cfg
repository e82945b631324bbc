SPECIFICATION Spec
CONSTANTS
  a = a  b = b  c = c  t1 = t1  t2 = t2  t3 = t3
  None = None
  Nodes <- MCNodes
  Threads = {t1}
  Resolvers = {t1}
  Closers = {t1}
  Injectors = {t1}
  Graphs <- ShutdownGraphs
  Batches <- ResolveBatches
  CloseSets <- UpperIDs
  MayClose = TRUE
  CanFail = {b}
  CloseFails = {b}
  MaxCalls <- FourCalls
INVARIANTS NothingLost NoDanglingWire
PROPERTY CloseIsComplete
