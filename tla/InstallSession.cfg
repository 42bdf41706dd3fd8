SPECIFICATION FairSpec
CONSTANTS
  N = 3
INVARIANTS NothingOnFailedResolution BuildsUnlocked NoCrateForgotten TrackedOrReported
PROPERTIES SessionEnds
