SPECIFICATION Spec
CONSTANTS
  T = 2
  Windows = {2}
  Packages = {{"b"}, {"b", "c"}}
  Optional = {"c"}
  MaxDisabled = 1
INVARIANTS InOrder Trusted BinsAsAsked ReportsMatch
