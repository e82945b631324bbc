SPECIFICATION RSpec
CONSTANTS
  a = a  b = b  c = c  r1 = r1  r2 = r2  u1 = u1
  None = None
  Keys <- MCKeys
  Place <- MCPlace
  Exact = 4
  Nodes <- MCNodes
  Threads = {r1, r2, u1}
  Resolvers = {u1}
  Closers = {}
  Injectors = {}
  Reconcilers = {r1, r2}
  Graphs <- MCGraphs
  Batches = {}
  CloseSets = {}
  MayClose = FALSE
  CanFail <- MCCanFail
  CloseFails = {}
  MaxCalls <- OneCall
  Initials <- MCInitials
  Asked = {c}
  Configs <- MCConfigs
  MaxMade = 3
INVARIANTS RTypeOK CurrentIsLive BuiltFromItsSpec RebuiltIsWired UndoneIsClosed ClosedOnce
PROPERTIES SwitchedWarm
SYMMETRY ReconcilerSymmetry
