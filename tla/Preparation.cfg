SPECIFICATION PrepFairSpec
CONSTANTS
  Users = {c1, c2}
  Loaders <- ThreeLoaders
  Unset = Unset
  Nobody = Nobody
  NoToken = NoToken
  Empty = Empty
  MaxHanging = 1
INVARIANTS PreferredTargets SharedToken
PROPERTIES PreparationEnds
