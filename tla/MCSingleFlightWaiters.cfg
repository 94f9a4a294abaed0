CONSTANTS
  c1 = c1
  c2 = c2
  layout = layout
  pipelineLayout = pipelineLayout
  bindGroup = bindGroup
  pipeline = pipeline
  NoKey = NoKey
  Caller <- TwoCallers
  Key <- Layouts
  Home <- InRegistries
  MaxRecords <- OneBound
  Families <- LayoutsOnly
  Nested <- LayoutInPipelineLayout
  Given <- Dependencies
  Rechecked <- Nothing
  BindGroups <- Nothing
  MaxAttempt = 4
SPECIFICATION FairSpec
PROPERTIES
  CallsReturn
