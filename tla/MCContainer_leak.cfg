SPECIFICATION Spec
CONSTANTS
  a = a  b = b  c = c  t1 = t1  t2 = t2  t3 = t3
  None = None
  Nodes <- MCNodes
  Threads = {t1, t2}
  Resolvers = {t1}
  Closers = {t2}
  Injectors = {}
  Graphs <- ChainOnly
  Batches <- AllSingles
  CloseSets = {}
  MayClose = TRUE
  CanFail = {}
  CloseFails = {}
  MaxCalls <- OneCall
INVARIANT NothingLost
