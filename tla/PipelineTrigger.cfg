\* Two requests for up to two PipelineRuns each, a pool of one worker.
SPECIFICATION Spec
CONSTANTS
  r1 = r1
  r2 = r2
  p1 = p1
  p2 = p2
  Requests = {r1, r2}
  Runs = {p1, p2}
  Workers = 1
INVARIANTS
  TypeOK
PROPERTIES
  KeepsPromise
  ServedIsAnswered
\* All requests have been answered, or the process has ended.
CHECK_DEADLOCK FALSE
