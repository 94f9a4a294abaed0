CONSTANTS
  c1 = c1
  c2 = c2
  buffer = buffer
  palette = palette
  all = all
  b1 = b1
  b2 = b2
  NoGraph = NoGraph
  Client <- OneClient
  Resource <- JustPalette
  Region <- OneRegion
  Retained <- Nothing
  Initialization <- BothInitialization
  Reconstruction <- BothReconstruction
  Work <- JustShot
  ReadbackId <- OneReadback
  ReadbackSize <- ReadbackByte
  SeedBytes <- SeedOfPalette
  Evictable <- Nothing
  MaxSubmission = 2
  MaxGeneration = 1
  MaxTicket = 2
  MaxPrepared = 2
  MaxInFlight = 2
  MaxUpload = 2
  MaxReadback = 3
  MaxPendingReadbacks = 2
SPECIFICATION FairSpec
PROPERTIES
  AcceptedTerminates
  ReadbacksTerminate
\* Identities run out and the context may be dropped.
CHECK_DEADLOCK FALSE
