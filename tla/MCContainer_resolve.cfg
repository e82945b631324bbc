\* Three goroutines, a Build that may fail and an undeclared node.  No symmetry:
\* the properties include liveness.
SPECIFICATION FairSpec
CONSTANTS
  a = a  b = b  c = c  t1 = t1  t2 = t2  t3 = t3
  None = None
  Nodes <- MCNodes
  Threads = {t1, t2, t3}
  Resolvers = {t1, t2, t3}
  Closers = {}
  Injectors = {}
  Graphs <- ResolveGraphs
  Batches <- TwoBatches
  CloseSets = {}
  MayClose = FALSE
  CanFail = {b}
  CloseFails = {}
  MaxCalls <- OneCall
INVARIANTS TypeOK FlightOwner NoLostWakeup BuiltOnce WiredToCache SharedInstance
PROPERTIES ImplementsPool EveryCallReturns
