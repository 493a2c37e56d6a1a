\* Two handlers at work on one TaskRun's events, which arrive in order; no fault.
SPECIFICATION Spec
CONSTANTS
  None = None
  t1 = t1
  t2 = t2
  h1 = h1
  h2 = h2
  TaskRuns = {t1}
  Handlers = {h1, h2}
  Kinds = {"plain"}
  Reasons = {"Other"}
  OtherRequests = {}
  Delivery = "fifo"
  MaxEvents = 2
  MaxErrors = 0
  MaxDuplicates = 0
  MaxCrashes = 0
INVARIANT
  SettledBoardIsCurrent
CHECK_DEADLOCK FALSE
