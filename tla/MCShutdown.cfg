SPECIFICATION PartSpec
CONSTANTS
  h1 = h1
  h2 = h2
  o1 = o1
  t1 = t1
  Owner = Owner
  None = None
  Handles <- MCHandles
  Execs = {o1, t1}
  Terminal = {t1}
  ServerCounts = {0, 2}
  NHooks = 1
  HasTimer = TRUE
  HasCap = TRUE
  WindowFits = TRUE
  Parts = {"closes", "executions"}
INVARIANTS StepsOnce ClaimKeepsServers DroppedIsFinal NothingKept CauseReported
PROPERTY ImplementsLiveSet
SYMMETRY MCSymmetry
CHECK_DEADLOCK FALSE
