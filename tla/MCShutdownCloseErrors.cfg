SPECIFICATION PartSpec
CONSTANTS
  h1 = h1
  h2 = h2
  o1 = o1
  t1 = t1
  Owner = Owner
  None = None
  Handles <- MCHandles
  Execs = {o1, t1}
  Terminal = {t1}
  ServerCounts = {2}
  NHooks = 0
  HasTimer = TRUE
  HasCap = TRUE
  WindowFits = TRUE
  Parts = {"closes"}
INVARIANT CloseErrorsReported
CHECK_DEADLOCK FALSE
