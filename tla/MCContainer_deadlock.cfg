SPECIFICATION FairSpec
CONSTANTS
  a = a  b = b  c = c  t1 = t1  t2 = t2  t3 = t3
  None = None
  Nodes <- MCNodes
  Threads = {t1, t2}
  Resolvers = {t1, t2}
  Closers = {}
  Injectors = {}
  Graphs <- MutualOnly
  Batches <- AllSingles
  CloseSets = {}
  MayClose = FALSE
  CanFail = {}
  CloseFails = {}
  MaxCalls <- OneCall
PROPERTY EveryCallReturns
CHECK_DEADLOCK FALSE
