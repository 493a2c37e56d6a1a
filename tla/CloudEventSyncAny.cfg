SPECIFICATION Spec
CONSTANTS
  None = None
  t1 = t1
  t2 = t2
  h1 = h1
  h2 = h2
  TaskRuns = {t1}
  Handlers = {h1, h2}
  Kinds = {"plain", "optional", "unconvertible", "badTemplate"}
  Reasons = {"Other"}
  OtherRequests = {"pipelineRun"}
  Delivery = "any"
  MaxEvents = 3
  MaxErrors = 1
  MaxDuplicates = 1
  MaxCrashes = 1
SYMMETRY Symmetry
INVARIANTS
  TypeOK
  RecordedIsAccountedFor
  AckedIsAccountedFor
  CounterNeverExceedsSkips
  ConclusionMatchesOutcome
