SPECIFICATION Spec
CONSTANTS
  a = a  b = b  c = c  t1 = t1  t2 = t2  t3 = t3
  None = None
  Nodes <- MCNodes
  Threads = {t1, t2, t3}
  Resolvers = {t1, t2}
  Closers = {t3}
  Injectors = {}
  Graphs <- ChainOnly
  Batches <- ResolveBatches
  CloseSets <- AnyIDs
  MayClose = FALSE
  CanFail = {b}
  CloseFails = {a, b}
  MaxCalls <- CloserTwice
INVARIANTS AtMostOneOpen ClosedOnce NothingLost ReverseTopological
SYMMETRY ResolverSymmetry
