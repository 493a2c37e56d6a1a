\* Two TaskRuns, two handlers, each event of a TaskRun
\* delivered after the answer to the one before.
SPECIFICATION Spec
CONSTANTS
  None = None
  t1 = t1
  t2 = t2
  h1 = h1
  h2 = h2
  TaskRuns = {t1, t2}
  Handlers = {h1, h2}
  Kinds = {"plain"}
  Reasons = {"Other"}
  OtherRequests = {}
  Delivery = "serial"
  MaxEvents = 2
  MaxErrors = 1
  MaxDuplicates = 1
  MaxCrashes = 0
INVARIANTS
  AckedIsShown
PROPERTIES
  NoCheckRepeated
  EndIsShown
\* The bounded sender falls silent in the end.
CHECK_DEADLOCK FALSE
