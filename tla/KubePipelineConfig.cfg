\* One labelled ConfigMap, two handlers, one restart.
SPECIFICATION Spec
CONSTANTS
  None = None
  n1 = n1
  n2 = n2
  h1 = h1
  h2 = h2
  Names = {n1}
  Labelled = {n1}
  Handlers = {h1, h2}
  BadRequests = {"malformed", "noName"}
  EarlyLoss = TRUE
  MaxVersions = 4
  MaxBoots = 1
INVARIANTS
  TypeOK
  ReturnedWasContent
  StaleOnlyByLateFetch
PROPERTY
  EventuallyCurrent
