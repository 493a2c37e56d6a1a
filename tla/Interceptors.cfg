\* Two replicas, a Secret that is deleted, one signal and one fault.
SPECIFICATION Spec
CONSTANTS
  a = a
  b = b
  Replicas = {a, b}
  MaxCerts = 2
  MaxStops = 1
  MaxFaults = 1
INVARIANTS
  TypeOK
  CleanExitWhenTold
  RegeneratedIsTrusted
PROPERTIES
  EndedServerEnds
  EventuallyServing
