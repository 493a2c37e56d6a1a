\* One handler: a single cold Get is enough.
SPECIFICATION Spec
CONSTANTS
  None = None
  n1 = n1
  n2 = n2
  h1 = h1
  h2 = h2
  Names = {n1, n2}
  Labelled = {n1}
  Handlers = {h1}
  BadRequests = {}
  EarlyLoss = FALSE
  MaxVersions = 1
  MaxBoots = 0
INVARIANT
  FetchedIsReturned
