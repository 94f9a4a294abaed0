CONSTANTS
  t1 = t1
  t2 = t2
  window = window
  small = small
  large = large
  None = None
  SurfaceId <- Windows
  Thread <- Threads
  Configuration <- Configurations
  Supported <- SmallOrLarge
  MaxGeneration = 2
  MaxLease = 2
SPECIFICATION Spec
\* The device may be lost, surfaces be retired and identities run out.
CHECK_DEADLOCK FALSE
SYMMETRY Symmetry
INVARIANTS
  SurfaceTypeOK
  ImageAuthority
  AcquiredAsDescribed
  PinnedStaysPresentable
  OrphansHaveAReleaser
