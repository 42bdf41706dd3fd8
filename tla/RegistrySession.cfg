SPECIFICATION SessionSpec
CONSTANTS
  Callers = {c1, c2}
  MaxVersion = 2
  NoOne = NoOne
  MaxEdits = 1
  MaxAborts = 1
  root = root
  f1 = f1
  f2 = f2
  r1 = r1
  r2 = r2
  a1 = a1
  a2 = a2
  Files = {root, f1, f2}
  Root = root
  Registries = {r1, r2}
  CratesIo = r2
  Aliases = {a1, a2}
  Nothing = Nothing
  Includes <- FewIncludes
  Settings <- FewSettings
INVARIANTS ProviderAsRead ManifestOfBest FailsForItself
PROPERTIES LookupsEnd
