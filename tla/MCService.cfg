\* Two connections for each process, any number of restarts, edits by others at any time.
SPECIFICATION FairSpec
CONSTANTS
  q1 = q1  q2 = q2
  None = None
  Requests = {q1, q2}
  Timeout = 2
  Keeping = {"user-cache"}
INVARIANTS RunningRequestsFinish NothingLeftOpen FreshSinceStart
PROPERTY SignalEndsProcess
