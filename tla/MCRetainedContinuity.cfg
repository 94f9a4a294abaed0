CONSTANTS
  c1 = c1
  c2 = c2
  buffer = buffer
  image = image
  lo = lo
  hi = hi
  NoGraph = NoGraph
  Client <- MCClient
  Resource <- MCResource
  Region <- MCRegion
  Retained <- MCResource
  Initialization <- MCInitialization
  Reconstruction <- MCReconstruction
  Work <- MCWork
  MaxSubmission = 3
  MaxGeneration = 2
SPECIFICATION Spec
SYMMETRY Symmetry
INVARIANTS
  TypeOK
  ExclusiveAuthority
  PendingWhileQueued
  UnknownNeedsReconstruction
  AcceptedWorkMeetsObligations
  EntryStateStillCurrent
  EstablishedByCompleted
PROPERTIES
  ObligationsEndByReconstruction
  ContentsNeverForgotten
  CoverageGrowsByCompletion
\* Identities run out and the owner may be dropped.
CHECK_DEADLOCK FALSE
