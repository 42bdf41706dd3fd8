SPECIFICATION StartupSpec
CONSTANTS
  Binstalls = {b1, b2}
  Plain = {b1}
  FailFast = {b2}
  Crates = {x}
  Versions = {v1}
  NoVersion = NoVersion
  NoOwner = NoOwner
  MaxDeaths = 1
  MaxEdits = 0
  Explicit = {b2}
  MaxUserEdits = 1
INVARIANTS ReportsConsented
PROPERTIES SettingsKept SessionsEnd
