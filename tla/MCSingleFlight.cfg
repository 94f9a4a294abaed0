CONSTANTS
  c1 = c1
  c2 = c2
  layout = layout
  pipelineLayout = pipelineLayout
  bindGroup = bindGroup
  pipeline = pipeline
  NoKey = NoKey
  Caller <- TwoCallers
  Key <- Keys
  Home <- InRegistries
  MaxRecords <- Bounds
  Families <- DependentsFirst
  Nested <- LayoutInPipelineLayout
  Given <- Dependencies
  Rechecked <- Pipelines
  BindGroups <- Groups
  MaxAttempt = 4
SPECIFICATION Spec
SYMMETRY Symmetry
INVARIANTS
  TypeOK
  HandlesStayAuthoritative
PROPERTIES
  OnlyLiveRecordsSurvive
