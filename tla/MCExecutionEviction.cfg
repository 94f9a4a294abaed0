CONSTANTS
  c1 = c1
  c2 = c2
  buffer = buffer
  palette = palette
  all = all
  b1 = b1
  b2 = b2
  NoGraph = NoGraph
  Client <- OneClient
  Resource <- Both
  Region <- OneRegion
  Retained <- JustBuffer
  Initialization <- BothInitialization
  Reconstruction <- BothReconstruction
  Work <- JustDraw
  ReadbackId <- Nothing
  ReadbackSize <- NoBytes
  SeedBytes <- SeedOfPalette
  Evictable <- JustBuffer
  MaxSubmission = 2
  MaxGeneration = 1
  MaxTicket = 2
  MaxPrepared = 2
  MaxInFlight = 2
  MaxUpload = 1
  MaxReadback = 0
  MaxPendingReadbacks = 0
SPECIFICATION Spec
INVARIANTS
  EstablishedByLastWriter
\* Identities run out and the context may be dropped.
CHECK_DEADLOCK FALSE
