CONSTANTS
  c1 = c1
  c2 = c2
  buffer = buffer
  palette = palette
  all = all
  b1 = b1
  b2 = b2
  NoGraph = NoGraph
  Client <- TwoClients
  Resource <- JustPalette
  Region <- OneRegion
  Retained <- Nothing
  Initialization <- BothInitialization
  Reconstruction <- BothReconstruction
  Work <- CaptureAndStream
  ReadbackId <- TwoReadbacks
  ReadbackSize <- ReadbackBytes
  SeedBytes <- SeedOfPalette
  Evictable <- Nothing
  MaxSubmission = 2
  MaxGeneration = 1
  MaxTicket = 2
  MaxPrepared = 2
  MaxInFlight = 2
  MaxUpload = 4
  MaxReadback = 3
  MaxPendingReadbacks = 2
SPECIFICATION Spec
SYMMETRY Symmetry
INVARIANTS
  TypeOK
  BudgetsAreExact
  RecordsMatchHandles
PROPERTIES
  HonoursContract
\* Identities run out and the context may be dropped.
CHECK_DEADLOCK FALSE
