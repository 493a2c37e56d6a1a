\* One handler and the watch, no restart.
SPECIFICATION Spec
CONSTANTS
  None = None
  n1 = n1
  n2 = n2
  h1 = h1
  h2 = h2
  Names = {n1}
  Labelled = {n1}
  Handlers = {h1}
  BadRequests = {}
  EarlyLoss = FALSE
  MaxVersions = 2
  MaxBoots = 0
INVARIANT
  CaughtUpIsCurrent
