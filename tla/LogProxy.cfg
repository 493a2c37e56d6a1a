\* Two requests that share a piece of their logs, and one worker.
SPECIFICATION Spec
CONSTANTS
  r1 = r1
  r2 = r2
  Requests = {r1, r2}
  Objects = {1, 2}
  Asked <- MCAsked
  Workers = 1
  MaxChanges = 2
  None = None
INVARIANTS
  TypeOK
  RefusedForItsOwnReason
PROPERTIES
  KeepsLogPromise
  ListedIsAnswered
\* All requests have been answered, or the process has ended.
CHECK_DEADLOCK FALSE
