CONSTANTS
  c1 = c1
  c2 = c2
  buffer = buffer
  palette = palette
  all = all
  b1 = b1
  b2 = b2
  NoGraph = NoGraph
  Client <- TwoClients
  Resource <- Both
  Region <- OneRegion
  Retained <- JustBuffer
  Initialization <- BothInitialization
  Reconstruction <- BothReconstruction
  Work <- DrawAndRebuild
  ReadbackId <- Nothing
  ReadbackSize <- NoBytes
  SeedBytes <- SeedOfPalette
  Evictable <- JustPalette
  MaxSubmission = 2
  MaxGeneration = 2
  MaxTicket = 2
  MaxPrepared = 2
  MaxInFlight = 2
  MaxUpload = 1
  MaxReadback = 0
  MaxPendingReadbacks = 0
SPECIFICATION Spec
SYMMETRY Symmetry
INVARIANTS
  SeededBeforeUse
  EstablishedByLastWriter
  TicketsAreExclusive
PROPERTIES
  RetainedAuthority
\* Identities run out and the context may be dropped.
CHECK_DEADLOCK FALSE
