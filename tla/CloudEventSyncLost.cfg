\* One handler, one failed call, one delivery repeated after the failure.
SPECIFICATION Spec
CONSTANTS
  None = None
  t1 = t1
  t2 = t2
  h1 = h1
  h2 = h2
  TaskRuns = {t1}
  Handlers = {h1}
  Kinds = {"plain"}
  Reasons = {"Other"}
  OtherRequests = {}
  Delivery = "serial"
  MaxEvents = 2
  MaxErrors = 1
  MaxDuplicates = 1
  MaxCrashes = 0
INVARIANT
  AckedIsPosted
CHECK_DEADLOCK FALSE
