SPECIFICATION FindFairSpec
CONSTANTS
  Find = find
  Metas = {m1, m2}
  Quicks = {q1}
  Releases = {r1}
  Artifacts = {a1}
  RestOnly = FALSE
  DefaultRetry = 2
  ShortRetry = 1
  Info = Info
  Nobody = Nobody
  NoRelease = NoRelease
  Empty = Empty
INVARIANTS OneListing PresentIsFound NotExtended FindAnswers
PROPERTIES TasksEnd
