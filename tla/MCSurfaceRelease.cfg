CONSTANTS
  t1 = t1
  t2 = t2
  window = window
  small = small
  large = large
  None = None
  SurfaceId <- Windows
  Thread <- Threads
  Configuration <- Configurations
  Supported <- SmallOrLarge
  MaxGeneration = 1
  MaxLease = 1
SPECIFICATION FairSpec
\* The device may be lost, surfaces be retired and identities run out.
CHECK_DEADLOCK FALSE
PROPERTIES
  DroppedImagesAreReleased
