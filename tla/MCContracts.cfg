CONSTANTS
  BufferSize = 6
  Strides <- SmallStrides
  Mips = 2
  Layers = 2
  QueryCount = 4
  MaxPieces = 3
  Resource <- Handles
  Descriptor <- HandleDescriptor
  Author <- Authors
  Reconstruction <- Reconstructions
  MaxNodes = 2
  MaxOrders = 1
  Demand <- Demands
  Machine <- Machines
  PlainBaseline = 1
  ArrayBaseline = 2
  SamplerBaseline = 1
  MultiviewBaseline = 2
  CopyOffset = 4
  RetryCapacity = 3
  MaxRequests = 2
  MaxDemands = 2
  MaxFaults = 4
  MaxText = 6
  TextLength = {0, 1, 7}
  Device <- CreatedDevice
  RowAlignment = 8
  BufferAlignment = 4
  ResolveAlignment = 16
  TextureChoice <- TexturePairs
  BufferChoice <- Buffers
  RegionsOf <- ProbedRegions
  RowPitch = {3, 8, 16}
  ImageRows = {0, 1, 3}
  Offset = {0, 4, 16}
  RangeSize = {4, 6, 16}
  QueryDescriptor <- Queries
  Canvas <- Textures
  Stream <- Streams
  DrawChoice <- Draws
  ColorChoice <- ColorLists
  DepthChoice <- DepthAttachments
  TimestampChoice <- Timestamps
  MaxDraws = 2
  ProgramChoice <- Programs
  ValuesTried <- Values
  DispatchChoice <- Intents
  BoundBuffer <- SharedBuffers
  BoundTexture <- SharedTextures
  BoundSampler <- Samplers
  BindingLimits <- Bounds
  MaxSubmissions = 2
SPECIFICATION Spec
\* Each subject ends when its work is done or its bound is reached.
CHECK_DEADLOCK FALSE
INVARIANTS
  CoverageIsExact
  SchedulesKeepPrograms
  ScheduledReadsAreDefined
  ContextKeepsEveryDemand
  SelectionIsJustified
  WorstFaultIsReported
  TransfersMoveExactly
  AdmittedTransfersStayInside
  FetchesStayBound
  PassesAreCoherent
  BoundAsDeclared
