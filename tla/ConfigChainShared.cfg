\* Two central pipelines, of one trigger or two; and smaller central configurations
\* with every local one.
SPECIFICATION Spec
CONSTANTS
  None = None
  Names = {"a", "b"}
  Filters = {"yes", "no", "error"}
  Shapes <- MCShapes
  Overlaid <- MCOverlaid
  Locals <- MCLocals
  DefaultChoices <- MCDefaultChoices
  TriggerChoices <- MCTriggerChoices
  PipelineChoices <- MCPipelineChoices
\* A request's build comes to its end.
CHECK_DEADLOCK FALSE
INVARIANT
  RunsAreIndependent
