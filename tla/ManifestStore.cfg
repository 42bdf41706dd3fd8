SPECIFICATION Spec
CONSTANTS
  b1 = b1
  b2 = b2
  Binstalls = {b1, b2}
  Plain = {b1}
  FailFast = {b2}
  Crates = {x, y}
  Versions = {v1, v2}
  NoVersion = NoVersion
  NoOwner = NoOwner
  MaxDeaths = 1
  MaxEdits = 1
SYMMETRY CrateSymmetry
INVARIANTS SnapshotFresh TornByDeathOnly DiskMatchesToml JsonListed
PROPERTIES JsonNeverAhead EditsAreAtomic
